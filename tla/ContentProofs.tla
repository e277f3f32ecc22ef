---------------------------- MODULE ContentProofs ----------------------------
(***************************************************************************)
(* Proofs about what a book becomes before anybody reads it: its index     *)
(* (ContentIndex) and its plan (PlanTemplate), which share nothing; for any*)
(* number of indexers, any documents, revisions and batch size, any tables *)
(* of contents, prerequisite graphs and standings.  First, what a filter   *)
(* leaves of a list (Numbering), which the proofs about what is read need  *)
(* as well.                                                                *)
(***************************************************************************)
EXTENDS ContentIndex, PlanTemplate, FiniteSetTheorems, WellFoundedInduction, TLAPS

-----------------------------------------------------------------------------
(* Filtered lists.                                                         *)

\* Of a set of numbers there is a least one.
LEMMA LeastNumber ==
    ASSUME NEW T, T \subseteq Nat, T # {}
    PROVE  \E x \in T : \A y \in T : x <= y
  <1>1. PICK x \in T : \A y \in T : ~ (<<y, x>> \in OpToRel(<, Nat))
    BY WFMin, NatLessThanWellFounded
  <1>2. \A y \in Nat : y < x => <<y, x>> \in OpToRel(<, Nat)
    BY <1>1 DEF OpToRel
  <1>3. SUFFICES ASSUME NEW y \in T
                 PROVE  x <= y
    BY <1>1
  <1>4. x \in Nat /\ y \in Nat /\ ~(y < x)
    BY <1>1, <1>2
  <1>5. QED
    BY <1>4

\* A set of positions has an n-th one, with n of them up to it, for each n up
\* to their number.
LEMMA NthIsOne ==
    ASSUME NEW len \in Nat, NEW S, S \subseteq 1 .. len,
           NEW n \in 1 .. Cardinality(S)
    PROVE  /\ Nth(S, n) \in S
           /\ Cardinality({j \in S : j <= Nth(S, n)}) = n
  <1> DEFINE Upto(k) == {j \in S : j <= k}
             Enough == {k \in Nat : Cardinality(Upto(k)) >= n}
  <1>1. IsFiniteSet(S) /\ Cardinality(S) \in Nat
    <2>1. IsFiniteSet(1 .. len)
      BY FS_Interval
    <2>2. QED
      BY <2>1, FS_Subset, FS_CardinalityType
  <1>2. \A k : IsFiniteSet(Upto(k)) /\ Cardinality(Upto(k)) \in Nat
    <2>1. \A k : Upto(k) \subseteq S
      OBVIOUS
    <2>2. QED
      BY <1>1, <2>1, FS_Subset, FS_CardinalityType
  <1>3. Upto(len) = S
    <2>1. \A j \in S : j \in 1 .. len
      OBVIOUS
    <2>2. \A j \in S : j <= len
      BY <2>1
    <2>3. QED
      BY <2>2
  <1>4. len \in Enough
    <2>1. Cardinality(Upto(len)) >= n
      BY <1>1, <1>3
    <2>2. QED
      BY <2>1
  <1>5. PICK k \in Enough : \A y \in Enough : k <= y
    <2>1. Enough \subseteq Nat /\ Enough # {}
      BY <1>4
    <2>2. QED
      BY <2>1, LeastNumber
  <1>6. k \in Nat /\ Cardinality(Upto(k)) >= n
    BY <1>5
  <1>7. k # 0
    <2>1. SUFFICES ASSUME k = 0
                   PROVE  FALSE
      OBVIOUS
    <2>2. Upto(0) = {}
      <3>1. \A j \in S : j \in 1 .. len
        OBVIOUS
      <3>2. \A j \in S : ~(j <= 0)
        BY <3>1
      <3>3. QED
        BY <3>2
    <2>3. Cardinality(Upto(k)) = 0
      BY <2>1, <2>2, FS_EmptySet, Zenon
    <2>4. QED
      BY <1>1, <1>6, <2>3
  <1>8. k - 1 \in Nat /\ ~(Cardinality(Upto(k - 1)) >= n)
    <2>1. k - 1 \in Nat
      BY <1>6, <1>7
    <2>2. ~(k <= k - 1)
      BY <1>6
    <2>3. k - 1 \notin Enough
      BY <1>5, <2>2
    <2>4. QED
      BY <2>1, <2>3
  <1>9. k \in S
    <2>1. SUFFICES ASSUME k \notin S
                   PROVE  FALSE
      OBVIOUS
    <2>2. Upto(k) = Upto(k - 1)
      <3>1. \A j \in S : j \in 1 .. len /\ j # k
        BY <2>1
      <3>2. \A j \in S : j <= k <=> j <= k - 1
        BY <1>6, <3>1
      <3>3. QED
        BY <3>2
    <2>3. Cardinality(Upto(k)) = Cardinality(Upto(k - 1))
      BY <2>2, Zenon
    <2>4. QED
      BY <1>6, <1>8, <2>3
  <1>10. Cardinality(Upto(k)) = n
    <2>1. Upto(k) = Upto(k - 1) \cup {k}
      <3>1. \A j \in S : j \in 1 .. len
        OBVIOUS
      <3>2. \A j \in S : j <= k <=> j <= k - 1 \/ j = k
        BY <1>6, <3>1
      <3>3. QED
        BY <1>9, <3>2
    <2>2. k \notin Upto(k - 1)
      BY <1>6
    <2>3. Cardinality(Upto(k - 1) \cup {k}) = Cardinality(Upto(k - 1)) + 1
      BY <1>2, <2>2, FS_AddElement
    <2>4. Cardinality(Upto(k)) = Cardinality(Upto(k - 1)) + 1
      BY <2>1, <2>3, Zenon
    <2>5. n \in Nat
      BY <1>1
    <2>6. PICK c : c = Cardinality(Upto(k - 1))
      OBVIOUS
    <2>7. c \in Nat
      BY <1>2, <2>6, Zenon
    <2>8. QED
      BY <1>6, <1>8, <2>4, <2>5, <2>6, <2>7
  <1>11. QED
    BY <1>9, <1>10 DEF Nth

\* A position is the n-th one when there are n up to it.
LEMMA NthOfCount ==
    ASSUME NEW len \in Nat, NEW S, S \subseteq 1 .. len, NEW i \in S
    PROVE  /\ Cardinality({j \in S : j <= i}) \in 1 .. Cardinality(S)
           /\ Nth(S, Cardinality({j \in S : j <= i})) = i
  <1> DEFINE Upto(k) == {j \in S : j <= k}
  <1>1. IsFiniteSet(S) /\ Cardinality(S) \in Nat
    <2>1. IsFiniteSet(1 .. len)
      BY FS_Interval
    <2>2. QED
      BY <2>1, FS_Subset, FS_CardinalityType
  <1>2. \A j \in S : j \in Nat
    <2>1. \A j \in S : j \in 1 .. len
      OBVIOUS
    <2>2. QED
      BY <2>1
  <1>3. \A k : /\ IsFiniteSet(Upto(k)) /\ Cardinality(Upto(k)) \in Nat
               /\ Cardinality(Upto(k)) <= Cardinality(S)
    <2>1. \A k : Upto(k) \subseteq S
      OBVIOUS
    <2>2. QED
      BY <1>1, <2>1, FS_Subset, FS_CardinalityType
  <1>4. i \in Upto(i)
    BY <1>2
  <1>5. Cardinality(Upto(i)) # 0
    BY <1>3, <1>4, FS_EmptySet
  <1>6. Cardinality(Upto(i)) \in 1 .. Cardinality(S)
    BY <1>1, <1>3, <1>5
  <1>7. PICK n : n = Cardinality(Upto(i))
    OBVIOUS
  <1>8. PICK m : m = Nth(S, n)
    OBVIOUS
  <1>9. m \in S /\ Cardinality(Upto(m)) = Cardinality(Upto(i))
    BY <1>6, <1>7, <1>8, NthIsOne
  <1>10. \A k, l \in S : k <= l /\ Cardinality(Upto(k)) = Cardinality(Upto(l)) => l <= k
    <2>1. SUFFICES ASSUME NEW k \in S, NEW l \in S, k <= l,
                          Cardinality(Upto(k)) = Cardinality(Upto(l))
                   PROVE  l <= k
      OBVIOUS
    <2>2. Upto(k) \subseteq Upto(l)
      <3>1. \A j \in S : j <= k => j <= l
        BY <1>2, <2>1
      <3>2. QED
        BY <3>1
    <2>3. Upto(k) = Upto(l)
      BY <1>3, <2>1, <2>2, FS_Subset
    <2>4. l \in Upto(l)
      BY <1>2
    <2>5. QED
      BY <2>3, <2>4
  <1>11. m = i
    BY <1>2, <1>9, <1>10
  <1>12. QED
    BY <1>6, <1>7, <1>8, <1>11

\* What a filter keeps of a list: its elements, each place once.
LEMMA KeptFields ==
    ASSUME NEW E, NEW list \in Seq(E), NEW places, places \subseteq DOMAIN list
    PROVE  /\ Kept(list, places) \in Seq(E)
           /\ ToSet(Kept(list, places)) = {list[i] : i \in places}
           /\ \A n, m \in DOMAIN Kept(list, places) :
                 \E i, j \in places : /\ Kept(list, places)[n] = list[i]
                                      /\ Kept(list, places)[m] = list[j]
                                      /\ (i = j => n = m)
  <1> DEFINE count == Cardinality(places)
             K == Kept(list, places)
  <1>1. Len(list) \in Nat /\ places \subseteq 1 .. Len(list)
    OBVIOUS
  <1>2. count \in Nat
    <2>1. IsFiniteSet(1 .. Len(list))
      BY <1>1, FS_Interval
    <2>2. QED
      BY <1>1, <2>1, FS_Subset, FS_CardinalityType
  <1>3. K = [n \in 1 .. count |-> list[Nth(places, n)]]
    BY DEF Kept
  <1>4. \A n \in 1 .. count : Nth(places, n) \in places
    BY <1>1, NthIsOne
  <1>5. \A n, m \in 1 .. count : Nth(places, n) = Nth(places, m) => n = m
    <2>1. \A n \in 1 .. count : Cardinality({j \in places : j <= Nth(places, n)}) = n
      BY <1>1, NthIsOne
    <2>2. QED
      BY <2>1, Zenon
  <1>6. \A i \in places : \E n \in 1 .. count : Nth(places, n) = i
    <2>1. SUFFICES ASSUME NEW i \in places
                   PROVE  \E n \in 1 .. count : Nth(places, n) = i
      OBVIOUS
    <2>2. QED
      BY <1>1, NthOfCount, Zenon
  <1> HIDE DEF count, K
  <1>7. \A i \in places : list[i] \in E
    OBVIOUS
  <1>8. \A n \in 1 .. count : K[n] = list[Nth(places, n)] /\ K[n] \in E
    BY <1>3, <1>4, <1>7
  <1>9. K \in Seq(E) /\ DOMAIN K = 1 .. count
    BY <1>2, <1>3, <1>8
  <1>10. ToSet(K) = {list[i] : i \in places}
    BY <1>4, <1>6, <1>8, <1>9 DEF ToSet
  <1>11. QED
    BY <1>4, <1>5, <1>8, <1>9, <1>10 DEF K

\* A filter that keeps all of a list, or nothing.
LEMMA KeptWhole ==
    ASSUME NEW E, NEW list \in Seq(E)
    PROVE  Kept(list, DOMAIN list) = list
  <1>1. PICK len \in Nat : len = Len(list)
    OBVIOUS
  <1>2. DOMAIN list = 1 .. len
    BY <1>1
  <1>3. \A n \in 1 .. len : Cardinality(1 .. n) = n
    <2>1. \A n \in 1 .. len : n \in Nat
      OBVIOUS
    <2>2. QED
      BY <2>1, FS_Interval
  <1>4. \A n \in 1 .. len : {j \in 1 .. len : j <= n} = 1 .. n
    OBVIOUS
  <1>5. \A n \in 1 .. len : Nth(1 .. len, n) = n
    <2>1. SUFFICES ASSUME NEW n \in 1 .. len
                   PROVE  Nth(1 .. len, n) = n
      OBVIOUS
    <2>2. Nth(1 .. len, Cardinality({j \in 1 .. len : j <= n})) = n
      BY NthOfCount
    <2>3. Cardinality({j \in 1 .. len : j <= n}) = n
      BY <1>3, <1>4
    <2>4. QED
      BY <2>2, <2>3
  <1>6. Cardinality(1 .. len) = len
    BY FS_Interval
  <1>7. Kept(list, 1 .. len) = [n \in 1 .. len |-> list[Nth(1 .. len, n)]]
    BY <1>6, Zenon DEF Kept
  <1>8. Kept(list, 1 .. len) = [n \in 1 .. len |-> list[n]]
    BY <1>5, <1>7
  <1>9. QED
    BY <1>2, <1>8

LEMMA KeptNone ==
    ASSUME NEW list
    PROVE  Kept(list, {}) = <<>>
  <1>1. Cardinality({}) = 0
    BY FS_EmptySet
  <1>2. Kept(list, {}) = [n \in 1 .. 0 |-> list[Nth({}, n)]]
    BY <1>1, Zenon DEF Kept
  <1>3. QED
    BY <1>2

-----------------------------------------------------------------------------
(* What an upsert does to the collections.                                 *)

\* Upserting sections of a revision keeps what is there of that revision, and
\* adds nothing else.
LEMMA UpsertedSections ==
    ASSUME NEW rev, NEW new, new \subseteq AllSections(rev)
    PROVE  /\ \A d \in Indexable(rev) :
                 SectionOf(rev, d) \in sections \cup new => SectionOf(rev, d) \in UpsertSections(new)
           /\ sections \subseteq AllSections(rev) => UpsertSections(new) \subseteq AllSections(rev)
           /\ UpsertSections(new) \subseteq sections \cup new
           /\ new = {} => UpsertSections(new) = sections
  <1>1. \A n \in new : \E d \in Indexable(rev) : n = SectionOf(rev, d)
    BY DEF AllSections
  <1>2. \A d \in Indexable(rev) : SectionOf(rev, d).doc = d
    BY DEF SectionOf
  <1>3. ASSUME NEW d \in Indexable(rev), SectionOf(rev, d) \in sections \cup new
        PROVE  SectionOf(rev, d) \in UpsertSections(new)
    BY <1>1, <1>2, <1>3 DEF UpsertSections
  <1>4. UpsertSections(new) \subseteq sections \cup new
    BY DEF UpsertSections
  <1>5. new = {} => UpsertSections(new) = sections
    BY DEF UpsertSections
  <1>6. QED
    BY <1>3, <1>4, <1>5

\* The same for the chunks.
LEMMA UpsertedPoints ==
    ASSUME NEW rev, NEW new, new \subseteq AllPoints(rev)
    PROVE  /\ \A d \in Indexable(rev) :
                 PointsOf(rev, d) \subseteq points \cup new => PointsOf(rev, d) \subseteq UpsertPoints(new)
           /\ points \subseteq AllPoints(rev) => UpsertPoints(new) \subseteq AllPoints(rev)
           /\ UpsertPoints(new) \subseteq points \cup new
           /\ new = {} => UpsertPoints(new) = points
  <1>1. \A n, p \in AllPoints(rev) : <<n.doc, n.order>> = <<p.doc, p.order>> => n = p
    BY DEF AllPoints, PointsOf
  <1>2. ASSUME NEW d \in Indexable(rev), PointsOf(rev, d) \subseteq points \cup new, NEW p \in PointsOf(rev, d)
        PROVE  p \in UpsertPoints(new)
    <2>1. p \in AllPoints(rev)
      BY <1>2 DEF AllPoints
    <2>2. \A n \in new : <<n.doc, n.order>> = <<p.doc, p.order>> => n = p
      BY <2>1, <1>1
    <2>3. p \in points \cup new
      BY <1>2
    <2>4. QED
      BY <2>2, <2>3 DEF UpsertPoints
  <1>3. UpsertPoints(new) \subseteq points \cup new
    BY DEF UpsertPoints
  <1>4. new = {} => UpsertPoints(new) = points
    BY DEF UpsertPoints
  <1>5. QED
    BY <1>2, <1>3, <1>4

-----------------------------------------------------------------------------
(* The three ways a step of a run touches what the others rely on.         *)

\* A step of one run that leaves the collections and the claims alone.
LEMMA QuietStep ==
    ASSUME IndexInv, NEW r \in Indexers,
           run' \in [Indexers -> RunState], \A q \in Indexers \ {r} : run'[q] = run[q],
           UNCHANGED <<source, edits, sections, points, fingerprint, claim>>,
           \/ overlapped' = overlapped
           \/ overlapped' = overlapped \ {r} /\ ~Writing(run[r])',
           Progresses(run[r])',
           Writing(run[r])' => Writing(run[r]),
           Writing(run[r])' /\ r \notin overlapped => Complete(run[r])'
    PROVE  IndexInv'
  <1>1. IndexTypeOK'
    BY DEF IndexInv, IndexTypeOK
  <1>2. RunsProgress'
    BY DEF IndexInv, RunsProgress
  <1>3. \A q \in Indexers : Writing(run[q])' => Writing(run[q])
    OBVIOUS
  <1>4. WritersOverlap'
    BY <1>3 DEF IndexInv, WritersOverlap
  <1>5. Undisturbed'
    <2>1. ASSUME NEW q \in Indexers \ {r}, q \notin overlapped', Writing(run[q])'
          PROVE  Complete(run[q])'
      <3>1. Complete(run[q])
        BY <2>1 DEF IndexInv, Undisturbed
      <3>2. QED
        BY <3>1 DEF Complete
    <2>2. QED
      BY <2>1 DEF Undisturbed
  <1>6. TornWhileWriting'
    BY <1>3 DEF IndexInv, TornWhileWriting
  <1>7. FingerprintIsEarned' /\ RecreateIsExact'
    BY DEF IndexInv, FingerprintIsEarned, RecreateIsExact
  <1>8. QED
    BY <1>1, <1>2, <1>4, <1>5, <1>6, <1>7 DEF IndexInv

\* A step of a run that writes.
LEMMA WritingStep ==
    ASSUME IndexInv, NEW r \in Indexers, IndexTypeOK',
           \A q \in Indexers \ {r} : run'[q] = run[q],
           UNCHANGED <<source, edits, fingerprint, overlapped>>,
           claim' = claim \/ claim' = "torn",
           Progresses(run[r])', Writing(run[r]),
           r \notin overlapped => Complete(run[r])'
    PROVE  IndexInv'
  <1>1. RunsProgress'
    BY DEF IndexInv, RunsProgress
  <1>2. \A q \in Indexers : Writing(run[q])' => Writing(run[q])
    OBVIOUS
  <1>3. WritersOverlap'
    BY <1>2 DEF IndexInv, WritersOverlap
  <1>4. \A q \in Indexers \ {r} : Writing(run[q]) => q \in overlapped
    BY DEF IndexInv, WritersOverlap
  <1>5. Undisturbed'
    BY <1>2, <1>4 DEF Undisturbed
  <1>6. claim' # "torn" => claim' = "all" /\ Indexable(fingerprint) = {}
    BY DEF IndexInv, TornWhileWriting
  <1>7. TornWhileWriting'
    BY <1>6 DEF TornWhileWriting
  <1>8. FingerprintIsEarned' /\ RecreateIsExact'
    BY <1>6 DEF FingerprintIsEarned, RecreateIsExact, AllSections, AllPoints
  <1>9. QED
    BY <1>1, <1>3, <1>5, <1>7, <1>8 DEF IndexInv

-----------------------------------------------------------------------------
(* The actions.                                                            *)

\* The fields of a run and how they are set.
LEMMA RunFields ==
    ASSUME IndexTypeOK, NEW r \in Indexers
    PROVE  /\ run[r] \in RunState
           /\ run[r].parents \subseteq SectionPoints /\ run[r].children \subseteq ChunkPoints
           /\ run[r].todo \subseteq Docs
           /\ run[r].hashed \in Revisions \cup {NoRevision}
  BY DEF IndexTypeOK, RunState

\* Replacing the file concerns no run.
LEMMA ReplaceSourceKeeps ==
    ASSUME CorpusShape, IndexInv, ReplaceSource
    PROVE  IndexInv'
  <1>1. IndexTypeOK'
    BY DEF IndexInv, IndexTypeOK, ReplaceSource, CorpusShape
  <1>2. RunsProgress' /\ WritersOverlap' /\ Undisturbed' /\ TornWhileWriting'
    BY DEF IndexInv, ReplaceSource, RunsProgress, WritersOverlap, Undisturbed, Complete, TornWhileWriting
  <1>3. FingerprintIsEarned' /\ RecreateIsExact'
    BY DEF IndexInv, ReplaceSource, FingerprintIsEarned, RecreateIsExact
  <1>4. QED
    BY <1>1, <1>2, <1>3 DEF IndexInv

\* A run that starts has written nothing.
LEMMA BeginRunKeeps ==
    ASSUME CorpusShape, IndexInv, NEW r \in Indexers, BeginRun(r)
    PROVE  IndexInv'
  <1>1. PICK flags \in Flags :
            run' = [run EXCEPT ![r] = [IdleRun EXCEPT !.pc = "hash", !.recreate = flags.recreate,
                                           !.force = flags.force, !.populated = Populated]]
    BY DEF BeginRun
  <1>2. run \in [Indexers -> RunState]
    BY DEF IndexInv, IndexTypeOK
  <1>3. run'[r] = [IdleRun EXCEPT !.pc = "hash", !.recreate = flags.recreate,
                       !.force = flags.force, !.populated = Populated]
        /\ \A q \in Indexers \ {r} : run'[q] = run[q]
    BY <1>1, <1>2
  <1>4. flags.recreate \in BOOLEAN /\ flags.force \in BOOLEAN
    BY DEF CorpusShape
  <1>5. run'[r] \in RunState
    BY <1>3, <1>4 DEF IdleRun, RunState, Populated
  <1>6. run' \in [Indexers -> RunState]
    BY <1>1, <1>2, <1>5
  <1>7. run'[r].pc = "hash" /\ run'[r].opened = FALSE /\ run'[r].parents = {} /\ run'[r].children = {}
    BY <1>3 DEF IdleRun
  <1>8. Progresses(run[r])' /\ ~Writing(run[r])'
    BY <1>7 DEF Progresses, Writing, Indexing
  <1>9. QED
    BY <1>3, <1>6, <1>8, QuietStep DEF BeginRun

\* A run that ends without storing leaves what is written.
LEMMA BreakOffKeeps ==
    ASSUME CorpusShape, IndexInv, NEW r \in Indexers, BreakOff(r)
    PROVE  IndexInv'
  <1>1. run \in [Indexers -> RunState]
    BY DEF IndexInv, IndexTypeOK
  <1>2. run'[r] = [IdleRun EXCEPT !.pc = "failed"] /\ \A q \in Indexers \ {r} : run'[q] = run[q]
    BY <1>1 DEF BreakOff, SetRun
  <1>3. run'[r] \in RunState
    BY <1>2 DEF IdleRun, RunState, Ended
  <1>4. run' \in [Indexers -> RunState]
    BY <1>1, <1>3 DEF BreakOff, SetRun
  <1>5. run'[r].pc = "failed" /\ ~run'[r].opened
    BY <1>2 DEF IdleRun
  <1>6. Progresses(run[r])' /\ ~Writing(run[r])'
    BY <1>5 DEF Progresses, Writing, Indexing, Ended
  <1>7. QED
    BY <1>2, <1>4, <1>6, QuietStep DEF BreakOff

\* Nothing is read or written yet.
LEMMA HashKeeps ==
    ASSUME CorpusShape, IndexInv, NEW r \in Indexers, SkipUnchanged(r) \/ HashSource(r)
    PROVE  IndexInv'
  <1>1. run \in [Indexers -> RunState] /\ source \in Revisions
    BY DEF IndexInv, IndexTypeOK
  <1>2. PICK to \in {"skipped", "read"} : run' = [run EXCEPT ![r] = [run[r] EXCEPT !.pc = to, !.hashed = source]]
    BY DEF SkipUnchanged, HashSource, SetRun
  <1>3. run'[r] = [run[r] EXCEPT !.pc = to, !.hashed = source] /\ \A q \in Indexers \ {r} : run'[q] = run[q]
    BY <1>1, <1>2
  <1>4. run'[r] \in RunState
    BY <1>1, <1>3 DEF RunState, Ended
  <1>5. run' \in [Indexers -> RunState]
    BY <1>1, <1>2, <1>4
  <1>6. run[r] \in RunState
    BY <1>1
  <1>7. /\ run'[r].pc = to /\ run'[r].opened = run[r].opened
        /\ run'[r].parents = run[r].parents /\ run'[r].children = run[r].children
    BY <1>3, <1>6 DEF RunState
  <1>8. run[r].pc = "hash" /\ Progresses(run[r])
    BY DEF SkipUnchanged, HashSource, SetRun, IndexInv, RunsProgress
  <1>9. Progresses(run[r])' /\ ~Writing(run[r])'
    BY <1>7, <1>8 DEF Progresses, Writing, Indexing, Ended
  <1>10. QED
    BY <1>3, <1>5, <1>9, QuietStep DEF SkipUnchanged, HashSource

\* The documents of the revision read are yet to be taken.
LEMMA ReadSourceKeeps ==
    ASSUME CorpusShape, IndexInv, NEW r \in Indexers, ReadSource(r)
    PROVE  IndexInv'
  <1>1. run \in [Indexers -> RunState] /\ source \in Revisions
    BY DEF IndexInv, IndexTypeOK
  <1>2. /\ run'[r] = [run[r] EXCEPT !.pc = "index", !.read = source, !.todo = Docs]
        /\ \A q \in Indexers \ {r} : run'[q] = run[q]
    BY <1>1 DEF ReadSource, SetRun
  <1>3. run'[r] \in RunState
    BY <1>1, <1>2 DEF RunState, Ended
  <1>4. run' \in [Indexers -> RunState]
    BY <1>1, <1>3 DEF ReadSource, SetRun
  <1>5. run[r] \in RunState
    BY <1>1
  <1>6. /\ run'[r].pc = "index" /\ run'[r].opened = run[r].opened
        /\ run'[r].read = source /\ run'[r].todo = Docs
        /\ run'[r].parents = run[r].parents /\ run'[r].children = run[r].children
    BY <1>2, <1>5 DEF RunState
  <1>7. run[r].pc = "read" /\ Progresses(run[r])
    BY DEF ReadSource, SetRun, IndexInv, RunsProgress
  <1>8. ~run'[r].opened /\ run'[r].parents = {} /\ run'[r].children = {}
    BY <1>6, <1>7 DEF Progresses
  <1>9. Progresses(run[r])'
    BY <1>1, <1>6, <1>8 DEF Progresses, Indexable
  <1>10. ~Writing(run[r])'
    BY <1>8 DEF Writing
  <1>11. QED
    BY <1>2, <1>4, <1>9, <1>10, QuietStep DEF ReadSource

\* Taking a document without chunks misses nothing.
LEMMA SkipDocumentKeeps ==
    ASSUME CorpusShape, IndexInv, NEW r \in Indexers, NEW d \in Docs, SkipDocument(r, d)
    PROVE  IndexInv'
  <1>1. run \in [Indexers -> RunState]
    BY DEF IndexInv, IndexTypeOK
  <1>2. /\ run'[r] = [run[r] EXCEPT !.todo = @ \ {d}]
        /\ \A q \in Indexers \ {r} : run'[q] = run[q]
    BY <1>1 DEF SkipDocument, SetRun
  <1>3. run'[r] \in RunState
    BY <1>1, <1>2 DEF RunState
  <1>4. run' \in [Indexers -> RunState]
    BY <1>1, <1>3 DEF SkipDocument, SetRun
  <1>5. run[r] \in RunState
    BY <1>1
  <1>6. /\ run'[r].pc = run[r].pc /\ run'[r].opened = run[r].opened
        /\ run'[r].read = run[r].read /\ run'[r].todo = run[r].todo \ {d}
        /\ run'[r].parents = run[r].parents /\ run'[r].children = run[r].children
        /\ run'[r].recreate = run[r].recreate
    BY <1>2, <1>5 DEF RunState
  <1>7. run[r].pc = "index" /\ d \notin Indexable(run[r].read) /\ Progresses(run[r])
    BY DEF SkipDocument, SetRun, IndexInv, RunsProgress
  <1>8. Progresses(run[r])'
    BY <1>6, <1>7 DEF Progresses, Indexing, Ended
  <1>9. Writing(run[r])' => Writing(run[r])
    BY <1>6 DEF Writing, Indexing
  <1>10. Writing(run[r])' /\ r \notin overlapped => Complete(run[r])'
    <2>1. SUFFICES ASSUME Writing(run[r])', r \notin overlapped
                   PROVE  Complete(run[r])'
      OBVIOUS
    <2>2. Complete(run[r])
      BY <1>9, <2>1 DEF IndexInv, Undisturbed
    <2>3. QED
      BY <1>6, <1>7, <2>2 DEF Complete, SkipDocument
  <1>11. QED
    BY <1>2, <1>4, <1>8, <1>9, <1>10, QuietStep DEF SkipDocument

\* A document that is taken goes into the buffers.
LEMMA BufferDocumentKeeps ==
    ASSUME CorpusShape, IndexInv, NEW r \in Indexers, NEW d \in Docs, BufferDocument(r, d)
    PROVE  IndexInv'
  <1>1. run \in [Indexers -> RunState]
    BY DEF IndexInv, IndexTypeOK
  <1>2. /\ run'[r] = [run[r] EXCEPT !.todo = @ \ {d}, !.pc = "parents",
                          !.parents = @ \cup {SectionOf(run[r].read, d)},
                          !.children = @ \cup PointsOf(run[r].read, d)]
        /\ \A q \in Indexers \ {r} : run'[q] = run[q]
    BY <1>1 DEF BufferDocument, SetRun
  <1>3. run[r].pc = "index" /\ run[r].opened /\ d \in Indexable(run[r].read) /\ Progresses(run[r])
    BY DEF BufferDocument, SetRun, IndexInv, RunsProgress
  <1>4. /\ run[r].read \in Revisions
        /\ run[r].parents \subseteq AllSections(run[r].read)
        /\ run[r].children \subseteq AllPoints(run[r].read)
    BY <1>3 DEF Progresses, Indexing, Ended
  <1>5. /\ SectionOf(run[r].read, d) \in AllSections(run[r].read)
        /\ PointsOf(run[r].read, d) \subseteq AllPoints(run[r].read)
    BY <1>3 DEF AllSections, AllPoints
  <1>6. /\ run[r].parents \cup {SectionOf(run[r].read, d)} \in SUBSET SectionPoints
        /\ run[r].children \cup PointsOf(run[r].read, d) \in SUBSET ChunkPoints
    BY <1>4, <1>5 DEF SectionPoints, ChunkPoints
  <1>7. run[r] \in RunState
    BY <1>1
  <1>8. run'[r] \in RunState
    BY <1>2, <1>6, <1>7, ZenonT(30) DEF RunState
  <1>9. run' \in [Indexers -> RunState]
    BY <1>1, <1>8 DEF BufferDocument, SetRun
  <1>10. /\ run'[r].pc = "parents" /\ run'[r].opened = run[r].opened
         /\ run'[r].read = run[r].read /\ run'[r].todo = run[r].todo \ {d}
         /\ run'[r].parents = run[r].parents \cup {SectionOf(run[r].read, d)}
         /\ run'[r].children = run[r].children \cup PointsOf(run[r].read, d)
         /\ run'[r].recreate = run[r].recreate
    BY <1>2, <1>7 DEF RunState
  <1>11. Progresses(run[r])'
    BY <1>3, <1>4, <1>5, <1>10 DEF Progresses
  <1>12. Writing(run[r])
    BY <1>3 DEF Writing, Indexing, Ended
  <1>13. r \notin overlapped => Complete(run[r])'
    <2>1. SUFFICES ASSUME r \notin overlapped
                   PROVE  Complete(run[r])'
      OBVIOUS
    <2>2. Complete(run[r])
      BY <1>12, <2>1 DEF IndexInv, Undisturbed
    <2>3. sections' = sections /\ points' = points
      BY DEF BufferDocument
    <2>4. \A e \in Indexable(run'[r].read) \ run'[r].todo :
              /\ SectionOf(run'[r].read, e) \in sections \cup run'[r].parents
              /\ PointsOf(run'[r].read, e) \subseteq points \cup run'[r].children
      <3>1. TAKE e \in Indexable(run'[r].read) \ run'[r].todo
      <3>2. CASE e = d
        BY <1>10, <3>2
      <3>3. CASE e # d
        BY <1>10, <2>2, <3>3 DEF Complete
      <3>4. QED
        BY <3>2, <3>3
    <2>5. run'[r].recreate => sections \subseteq AllSections(run'[r].read) /\ points \subseteq AllPoints(run'[r].read)
      BY <1>3, <1>10, <2>2 DEF Complete
    <2>6. QED
      BY <2>3, <2>4, <2>5 DEF Complete
  <1>14. QED
    BY <1>2, <1>9, <1>11, <1>12, <1>13, QuietStep DEF BufferDocument

\* A run that begins to write has taken no document with chunks, and with
\* recreate finds no section; it and the runs that write already know of each other.
LEMMA OpenSectionsKeeps ==
    ASSUME CorpusShape, IndexInv, NEW r \in Indexers, NEW d \in Docs, OpenSections(r, d)
    PROVE  IndexInv'
  <1>1. run \in [Indexers -> RunState]
    BY DEF IndexInv, IndexTypeOK
  <1>2. /\ run'[r] = [run[r] EXCEPT !.opened = TRUE, !.pc = "open"]
        /\ \A q \in Indexers \ {r} : run'[q] = run[q]
    BY <1>1 DEF OpenSections, SetRun
  <1>3. run[r] \in RunState
    BY <1>1
  <1>4. run'[r] \in RunState
    BY <1>2, <1>3 DEF RunState
  <1>5. run' \in [Indexers -> RunState]
    BY <1>1, <1>4 DEF OpenSections, SetRun
  <1>6. /\ run'[r].pc = "open" /\ run'[r].opened = TRUE
        /\ run'[r].read = run[r].read /\ run'[r].todo = run[r].todo
        /\ run'[r].parents = run[r].parents /\ run'[r].children = run[r].children
        /\ run'[r].recreate = run[r].recreate
    BY <1>2, <1>3 DEF RunState
  <1>7. run[r].pc = "index" /\ ~run[r].opened /\ Progresses(run[r])
    BY DEF OpenSections, SetRun, IndexInv, RunsProgress
  <1>8. /\ run[r].read \in Revisions /\ Indexable(run[r].read) \subseteq run[r].todo
        /\ run[r].parents = {} /\ run[r].children = {}
    BY <1>7 DEF Progresses, Indexing, Ended
  <1>9. OtherWriters(r) = {q \in Indexers \ {r} : Writing(run[q])}
    BY DEF OtherWriters
  <1>10. IndexTypeOK'
    <2>1. overlapped' \subseteq Indexers
      BY <1>9 DEF OpenSections, IndexInv, IndexTypeOK
    <2>2. sections' \subseteq SectionPoints
      BY DEF OpenSections, IndexInv, IndexTypeOK
    <2>3. QED
      BY <1>5, <2>1, <2>2 DEF OpenSections, IndexInv, IndexTypeOK, Claims
  <1>11. RunsProgress'
    <2>1. Progresses(run[r])'
      BY <1>6, <1>8 DEF Progresses
    <2>2. QED
      BY <1>2, <2>1 DEF IndexInv, RunsProgress
  <1>12. WritersOverlap'
    <2>1. \A q \in Indexers \ {r} : Writing(run[q])' => q \in overlapped' /\ r \in overlapped'
      BY <1>2, <1>9 DEF OpenSections
    <2>2. QED
      BY <2>1 DEF WritersOverlap
  <1>13. Undisturbed'
    <2>1. Complete(run[r])'
      BY <1>6, <1>8 DEF Complete, OpenSections
    <2>2. \A q \in Indexers \ {r} : Writing(run[q])' => q \in overlapped'
      BY <1>2, <1>9 DEF OpenSections
    <2>3. QED
      BY <2>1, <2>2 DEF Undisturbed
  <1>14. claim' = "torn"
    BY DEF OpenSections
  <1>15. TornWhileWriting' /\ FingerprintIsEarned' /\ RecreateIsExact'
    BY <1>14 DEF TornWhileWriting, FingerprintIsEarned, RecreateIsExact
  <1>16. QED
    BY <1>10, <1>11, <1>12, <1>13, <1>15 DEF IndexInv

\* Nor, with recreate, does it find a chunk.
LEMMA OpenChunksKeeps ==
    ASSUME CorpusShape, IndexInv, NEW r \in Indexers, OpenChunks(r)
    PROVE  IndexInv'
  <1>1. run \in [Indexers -> RunState]
    BY DEF IndexInv, IndexTypeOK
  <1>2. run'[r] = [run[r] EXCEPT !.pc = "index"] /\ \A q \in Indexers \ {r} : run'[q] = run[q]
    BY <1>1 DEF OpenChunks, Step
  <1>3. run[r] \in RunState
    BY <1>1
  <1>4. run'[r] \in RunState
    BY <1>2, <1>3 DEF RunState
  <1>5. run' \in [Indexers -> RunState]
    BY <1>1, <1>2, <1>4 DEF OpenChunks, Step
  <1>6. /\ run'[r].pc = "index" /\ run'[r].opened = run[r].opened
        /\ run'[r].read = run[r].read /\ run'[r].todo = run[r].todo
        /\ run'[r].parents = run[r].parents /\ run'[r].children = run[r].children
        /\ run'[r].recreate = run[r].recreate
    BY <1>2, <1>3 DEF RunState
  <1>7. run[r].pc = "open" /\ Progresses(run[r])
    BY DEF OpenChunks, Step, IndexInv, RunsProgress
  <1>8. /\ run[r].read \in Revisions /\ run[r].opened
        /\ Indexable(run[r].read) \subseteq run[r].todo
        /\ run[r].parents = {} /\ run[r].children = {}
    BY <1>7 DEF Progresses, Indexing, Ended
  <1>9. Writing(run[r])
    BY <1>7, <1>8 DEF Writing, Indexing, Ended
  <1>10. Progresses(run[r])'
    BY <1>6, <1>8 DEF Progresses
  <1>11. r \notin overlapped => Complete(run[r])'
    <2>1. SUFFICES ASSUME r \notin overlapped
                   PROVE  Complete(run[r])'
      OBVIOUS
    <2>2. run[r].recreate => sections \subseteq AllSections(run[r].read)
      BY <1>9, <2>1 DEF IndexInv, Undisturbed, Complete
    <2>3. QED
      BY <1>6, <1>8, <2>2 DEF Complete, OpenChunks
  <1>12. IndexTypeOK'
    BY <1>5 DEF OpenChunks, IndexInv, IndexTypeOK
  <1>13. QED
    BY <1>2, <1>9, <1>10, <1>11, <1>12, WritingStep DEF OpenChunks

\* The sections of the buffer reach the collection.
LEMMA WriteParentsKeeps ==
    ASSUME IndexInv, NEW r \in Indexers, NEW to, WriteParents(r, to),
           \/ run[r].pc = "parents" /\ to = "children"
           \/ run[r].pc = "index" /\ run[r].todo = {} /\ to = "lastChildren"
    PROVE  IndexInv'
  <1>1. run \in [Indexers -> RunState]
    BY DEF IndexInv, IndexTypeOK
  <1>2. run'[r] = [run[r] EXCEPT !.pc = to, !.parents = {}] /\ \A q \in Indexers \ {r} : run'[q] = run[q]
    BY <1>1 DEF WriteParents
  <1>3. run[r] \in RunState
    BY <1>1
  <1>4. run'[r] \in RunState
    BY <1>2, <1>3 DEF RunState
  <1>5. run' \in [Indexers -> RunState]
    <2>1. run' = [q \in Indexers |-> IF q = r THEN run'[r] ELSE run[q]]
      BY <1>1, <1>2 DEF WriteParents
    <2>2. QED
      BY <1>1, <1>4, <2>1
  <1>6. /\ run'[r].pc = to /\ run'[r].opened = run[r].opened
        /\ run'[r].read = run[r].read /\ run'[r].todo = run[r].todo
        /\ run'[r].parents = {} /\ run'[r].children = run[r].children
        /\ run'[r].recreate = run[r].recreate
    BY <1>2, <1>3 DEF RunState
  <1>7. Progresses(run[r]) /\ Indexing(run[r])
    BY DEF IndexInv, RunsProgress, Indexing, Ended
  <1>8. /\ run[r].read \in Revisions /\ run[r].parents \subseteq AllSections(run[r].read)
        /\ ~run[r].opened => run[r].parents = {}
    BY <1>7 DEF Progresses
  <1>9. Progresses(run[r])' /\ Indexing(run[r])'
    BY <1>6, <1>7 DEF Progresses, Indexing, Ended
  <1>10. PICK rev, new : rev = run[r].read /\ new = run[r].parents
    OBVIOUS
  <1>11. /\ \A e \in Indexable(rev) :
               SectionOf(rev, e) \in sections \cup new => SectionOf(rev, e) \in UpsertSections(new)
         /\ sections \subseteq AllSections(rev) => UpsertSections(new) \subseteq AllSections(rev)
         /\ UpsertSections(new) \subseteq sections \cup new
         /\ new = {} => UpsertSections(new) = sections
    BY <1>8, <1>10, UpsertedSections
  <1>12. sections' = UpsertSections(new) /\ points' = points
    BY <1>10 DEF WriteParents
  <1>13. CASE run[r].opened
    <2>1. Writing(run[r])
      BY <1>7, <1>13 DEF Writing
    <2>2. r \notin overlapped => Complete(run[r])'
      <3>1. SUFFICES ASSUME r \notin overlapped
                     PROVE  Complete(run[r])'
        OBVIOUS
      <3>2. Complete(run[r])
        BY <2>1, <3>1 DEF IndexInv, Undisturbed
      <3>3. QED
        BY <1>6, <1>10, <1>11, <1>12, <3>2 DEF Complete
    <2>3. IndexTypeOK'
      <3>1. sections' \subseteq SectionPoints
        BY <1>8, <1>10, <1>11, <1>12 DEF IndexInv, IndexTypeOK, SectionPoints
      <3>2. QED
        BY <1>5, <3>1 DEF WriteParents, IndexInv, IndexTypeOK, Claims
    <2>4. QED
      BY <1>2, <1>9, <2>1, <2>2, <2>3, WritingStep DEF WriteParents
  <1>14. CASE ~run[r].opened
    <2>1. sections' = sections /\ claim' = claim
      BY <1>8, <1>10, <1>11, <1>12, <1>14 DEF WriteParents
    <2>2. ~Writing(run[r])'
      BY <1>6, <1>14 DEF Writing
    <2>3. QED
      BY <1>2, <1>5, <1>9, <2>1, <2>2, QuietStep DEF WriteParents
  <1>15. QED
    BY <1>13, <1>14

\* And so do the chunks.
LEMMA WriteChildrenKeeps ==
    ASSUME IndexInv, NEW r \in Indexers, NEW to, WriteChildren(r, to),
           \/ run[r].pc = "children" /\ to = "index"
           \/ run[r].pc = "lastChildren" /\ to = "count"
    PROVE  IndexInv'
  <1>1. run \in [Indexers -> RunState]
    BY DEF IndexInv, IndexTypeOK
  <1>2. run'[r] = [run[r] EXCEPT !.pc = to, !.children = {}] /\ \A q \in Indexers \ {r} : run'[q] = run[q]
    BY <1>1 DEF WriteChildren
  <1>3. run[r] \in RunState
    BY <1>1
  <1>4. run'[r] \in RunState
    BY <1>2, <1>3 DEF RunState
  <1>5. run' \in [Indexers -> RunState]
    <2>1. run' = [q \in Indexers |-> IF q = r THEN run'[r] ELSE run[q]]
      BY <1>1, <1>2 DEF WriteChildren
    <2>2. QED
      BY <1>1, <1>4, <2>1
  <1>6. /\ run'[r].pc = to /\ run'[r].opened = run[r].opened
        /\ run'[r].read = run[r].read /\ run'[r].todo = run[r].todo
        /\ run'[r].parents = run[r].parents /\ run'[r].children = {}
        /\ run'[r].recreate = run[r].recreate
    BY <1>2, <1>3 DEF RunState
  <1>7. Progresses(run[r]) /\ Indexing(run[r])
    BY DEF IndexInv, RunsProgress, Indexing, Ended
  <1>8. /\ run[r].read \in Revisions /\ run[r].children \subseteq AllPoints(run[r].read)
        /\ ~run[r].opened => run[r].children = {}
    BY <1>7 DEF Progresses
  <1>9. Progresses(run[r])' /\ Indexing(run[r])'
    BY <1>6, <1>7 DEF Progresses, Indexing, Ended
  <1>10. PICK rev, new : rev = run[r].read /\ new = run[r].children
    OBVIOUS
  <1>11. /\ \A e \in Indexable(rev) :
               PointsOf(rev, e) \subseteq points \cup new => PointsOf(rev, e) \subseteq UpsertPoints(new)
         /\ points \subseteq AllPoints(rev) => UpsertPoints(new) \subseteq AllPoints(rev)
         /\ UpsertPoints(new) \subseteq points \cup new
         /\ new = {} => UpsertPoints(new) = points
    BY <1>8, <1>10, UpsertedPoints
  <1>12. points' = UpsertPoints(new) /\ sections' = sections
    BY <1>10 DEF WriteChildren
  <1>13. CASE run[r].opened
    <2>1. Writing(run[r])
      BY <1>7, <1>13 DEF Writing
    <2>2. r \notin overlapped => Complete(run[r])'
      <3>1. SUFFICES ASSUME r \notin overlapped
                     PROVE  Complete(run[r])'
        OBVIOUS
      <3>2. Complete(run[r]) /\ run[r].pc # "open"
        BY <2>1, <3>1 DEF IndexInv, Undisturbed
      <3>3. QED
        BY <1>6, <1>10, <1>11, <1>12, <3>2 DEF Complete
    <2>3. IndexTypeOK'
      <3>1. points' \subseteq ChunkPoints
        BY <1>8, <1>10, <1>11, <1>12 DEF IndexInv, IndexTypeOK, ChunkPoints
      <3>2. QED
        BY <1>5, <3>1 DEF WriteChildren, IndexInv, IndexTypeOK, Claims
    <2>4. QED
      BY <1>2, <1>9, <2>1, <2>2, <2>3, WritingStep DEF WriteChildren
  <1>14. CASE ~run[r].opened
    <2>1. points' = points /\ claim' = claim
      BY <1>8, <1>10, <1>11, <1>12, <1>14 DEF WriteChildren
    <2>2. ~Writing(run[r])'
      BY <1>6, <1>14 DEF Writing
    <2>3. QED
      BY <1>2, <1>5, <1>9, <2>1, <2>2, QuietStep DEF WriteChildren
  <1>15. QED
    BY <1>13, <1>14

\* A buffer that is not full stays, and counting the collections changes nothing.
LEMMA PlainStepKeeps ==
    ASSUME IndexInv, NEW r \in Indexers, NEW from, NEW to, Step(r, from, to),
           UNCHANGED <<source, edits, sections, points, fingerprint, claim, overlapped>>,
           <<from, to>> \in {<<"parents", "children">>, <<"children", "index">>,
                            <<"count", "store">>, <<"count", "failed">>}
    PROVE  IndexInv'
  <1>1. run \in [Indexers -> RunState]
    BY DEF IndexInv, IndexTypeOK
  <1>2. run'[r] = [run[r] EXCEPT !.pc = to] /\ \A q \in Indexers \ {r} : run'[q] = run[q]
    BY <1>1 DEF Step
  <1>3. run[r] \in RunState
    BY <1>1
  <1>4. run'[r] \in RunState
    BY <1>2, <1>3 DEF RunState, Ended
  <1>5. run' \in [Indexers -> RunState]
    BY <1>1, <1>2, <1>4 DEF Step
  <1>6. /\ run'[r].pc = to /\ run'[r].opened = run[r].opened
        /\ run'[r].read = run[r].read /\ run'[r].todo = run[r].todo
        /\ run'[r].parents = run[r].parents /\ run'[r].children = run[r].children
        /\ run'[r].recreate = run[r].recreate
    BY <1>2, <1>3 DEF RunState
  <1>7. Progresses(run[r]) /\ Indexing(run[r]) /\ run[r].pc = from
    BY DEF Step, IndexInv, RunsProgress, Indexing, Ended
  <1>8. Progresses(run[r])'
    BY <1>6, <1>7 DEF Progresses, Indexing, Ended
  <1>9. Writing(run[r])' => Writing(run[r])
    BY <1>6, <1>7 DEF Writing
  <1>10. Writing(run[r])' /\ r \notin overlapped => Complete(run[r])'
    <2>1. SUFFICES ASSUME Writing(run[r])', r \notin overlapped
                   PROVE  Complete(run[r])'
      OBVIOUS
    <2>2. Complete(run[r]) /\ run[r].pc # "open"
      BY <1>7, <1>9, <2>1 DEF IndexInv, Undisturbed
    <2>3. QED
      BY <1>6, <2>2 DEF Complete
  <1>11. QED
    BY <1>2, <1>5, <1>8, <1>9, <1>10, QuietStep

\* The flushes are such writes and steps.
LEMMA FlushKeeps ==
    ASSUME CorpusShape, IndexInv, NEW r \in Indexers,
           \/ FlushParents(r) \/ FlushChildren(r) \/ FlushLastParents(r) \/ FlushLastChildren(r)
           \/ FinishDocuments(r)
    PROVE  IndexInv'
  <1>1. CASE FlushParents(r)
    BY <1>1, WriteParentsKeeps, PlainStepKeeps DEF FlushParents
  <1>2. CASE FlushChildren(r)
    BY <1>2, WriteChildrenKeeps, PlainStepKeeps DEF FlushChildren
  <1>3. CASE FlushLastParents(r)
    BY <1>3, WriteParentsKeeps DEF FlushLastParents
  <1>4. CASE FlushLastChildren(r)
    BY <1>4, WriteChildrenKeeps DEF FlushLastChildren
  <1>5. CASE FinishDocuments(r)
    <2>1. Step(r, "count", "store") \/ Step(r, "count", "failed")
      BY <1>5 DEF FinishDocuments
    <2>2. QED
      BY <1>5, <2>1, PlainStepKeeps DEF FinishDocuments
  <1>6. QED
    BY <1>1, <1>2, <1>3, <1>4, <1>5

\* A run that stores has nothing left to take or to write.
LEMMA StoreFingerprintKeeps ==
    ASSUME CorpusShape, IndexInv, NEW r \in Indexers, StoreFingerprint(r)
    PROVE  IndexInv'
  <1>1. run \in [Indexers -> RunState]
    BY DEF IndexInv, IndexTypeOK
  <1>2. run'[r] = [run[r] EXCEPT !.pc = "stored"] /\ \A q \in Indexers \ {r} : run'[q] = run[q]
    BY <1>1 DEF StoreFingerprint, Step
  <1>3. run[r] \in RunState
    BY <1>1
  <1>4. run'[r] \in RunState
    BY <1>2, <1>3 DEF RunState, Ended
  <1>5. run' \in [Indexers -> RunState]
    BY <1>1, <1>2, <1>4 DEF StoreFingerprint, Step
  <1>6. run'[r].pc = "stored"
    BY <1>2, <1>3 DEF RunState
  <1>7. run[r].pc = "store" /\ Progresses(run[r])
    BY DEF StoreFingerprint, Step, IndexInv, RunsProgress
  <1>8. Indexing(run[r])
    BY <1>7 DEF Indexing, Ended
  <1>9. /\ run[r].read \in Revisions /\ run[r].todo = {}
        /\ run[r].parents = {} /\ run[r].children = {}
        /\ ~run[r].opened => Indexable(run[r].read) = {}
    BY <1>7, <1>8 DEF Progresses
  <1>10. Progresses(run[r])' /\ ~Writing(run[r])'
    BY <1>6 DEF Progresses, Writing, Indexing, Ended
  <1>11. IndexTypeOK'
    <2>1. fingerprint' \in Revisions \cup {NoRevision}
      BY <1>3 DEF StoreFingerprint, RunState
    <2>2. claim' \in Claims
      BY DEF StoreFingerprint, EarnedBy, Claims
    <2>3. QED
      BY <1>5, <2>1, <2>2 DEF StoreFingerprint, IndexInv, IndexTypeOK
  <1>12. RunsProgress'
    BY <1>2, <1>10 DEF IndexInv, RunsProgress
  <1>13. \A q \in Indexers : Writing(run[q])' => q # r /\ Writing(run[q])
    BY <1>2, <1>10
  <1>14. WritersOverlap'
    BY <1>13 DEF IndexInv, WritersOverlap, StoreFingerprint
  <1>15. Undisturbed'
    <2>1. ASSUME NEW q \in Indexers \ {r}, q \notin overlapped, Writing(run[q])
          PROVE  Complete(run[q])'
      <3>1. Complete(run[q])
        BY <2>1 DEF IndexInv, Undisturbed
      <3>2. QED
        BY <1>2, <3>1 DEF Complete, StoreFingerprint
    <2>2. QED
      BY <1>13, <2>1 DEF Undisturbed, StoreFingerprint
  <1>16. CASE claim' = "torn"
    <2>1. TornWhileWriting' /\ FingerprintIsEarned' /\ RecreateIsExact'
      BY <1>16 DEF TornWhileWriting, FingerprintIsEarned, RecreateIsExact
    <2>2. QED
      BY <1>11, <1>12, <1>14, <1>15, <2>1 DEF IndexInv
  <1>17. CASE claim' # "torn"
    <2>1. /\ r \notin overlapped /\ fingerprint' = run[r].read
          /\ claim' = "exactly" => run[r].recreate /\ run[r].opened
          /\ sections' = sections /\ points' = points
      <3>1. claim' = EarnedBy(r)
        BY DEF StoreFingerprint
      <3>2. r \notin overlapped /\ run[r].read = run[r].hashed
        BY <1>17, <3>1 DEF EarnedBy
      <3>3. claim' = IF run[r].recreate /\ run[r].opened THEN "exactly" ELSE "all"
        BY <3>1, <3>2 DEF EarnedBy
      <3>4. claim' = "exactly" => run[r].recreate /\ run[r].opened
        BY <3>3
      <3>5. QED
        BY <3>2, <3>4 DEF StoreFingerprint
    <2>2. CASE run[r].opened
      <3>1. Writing(run[r]) /\ Complete(run[r])
        BY <1>8, <2>1, <2>2 DEF Writing, IndexInv, Undisturbed
      <3>2. \A d \in Indexable(run[r].read) :
                SectionOf(run[r].read, d) \in sections /\ PointsOf(run[r].read, d) \subseteq points
        BY <1>9, <3>1 DEF Complete
      <3>3. AllSections(run[r].read) \subseteq sections /\ AllPoints(run[r].read) \subseteq points
        BY <3>2 DEF AllSections, AllPoints
      <3>4. run[r].recreate => /\ sections \subseteq AllSections(run[r].read)
                               /\ points \subseteq AllPoints(run[r].read)
        BY <1>7, <3>1 DEF Complete
      <3>5. PICK rev : rev = run[r].read
        OBVIOUS
      <3>6. FingerprintIsEarned' /\ RecreateIsExact'
        BY <2>1, <3>3, <3>4, <3>5 DEF FingerprintIsEarned, RecreateIsExact
      <3>7. \A q \in Indexers \ {r} : ~Writing(run[q])
        BY <2>1, <3>1 DEF IndexInv, WritersOverlap
      <3>8. TornWhileWriting'
        BY <1>13, <3>7 DEF TornWhileWriting
      <3>9. QED
        BY <1>11, <1>12, <1>14, <1>15, <3>6, <3>8 DEF IndexInv
    <2>3. CASE ~run[r].opened
      <3>1. claim' = "all"
        BY <1>11, <1>17, <2>1, <2>3 DEF IndexTypeOK, Claims
      <3>2. PICK rev : rev = run[r].read
        OBVIOUS
      <3>3. Indexable(rev) = {} /\ fingerprint' = rev
        BY <1>9, <2>1, <2>3, <3>2
      <3>4. AllSections(rev) = {} /\ AllPoints(rev) = {}
        BY <3>3 DEF AllSections, AllPoints
      <3>5. TornWhileWriting' /\ FingerprintIsEarned' /\ RecreateIsExact'
        BY <3>1, <3>3, <3>4 DEF TornWhileWriting, FingerprintIsEarned, RecreateIsExact
      <3>6. QED
        BY <1>11, <1>12, <1>14, <1>15, <3>5 DEF IndexInv
    <2>4. QED
      BY <2>2, <2>3
  <1>18. QED
    BY <1>16, <1>17

-----------------------------------------------------------------------------
(* The theorems.                                                           *)

\* At the start nothing is indexed and no run is under way.
LEMMA InitIndexInv ==
    ASSUME CorpusShape, InitIndex
    PROVE  IndexInv
  <1>1. IdleRun \in RunState
    BY DEF IdleRun, RunState, Ended
  <1>2. IndexTypeOK
    BY <1>1 DEF InitIndex, IndexTypeOK, Claims, CorpusShape
  <1>3. \A r \in Indexers : run[r].pc = "idle" /\ run[r].opened = FALSE
    BY DEF InitIndex, IdleRun
  <1>4. \A r \in Indexers : Progresses(run[r]) /\ ~Writing(run[r])
    BY <1>3 DEF Progresses, Writing, Indexing, Ended
  <1>5. RunsProgress /\ WritersOverlap /\ Undisturbed /\ TornWhileWriting
    BY <1>4 DEF RunsProgress, WritersOverlap, Undisturbed, TornWhileWriting
  <1>6. FingerprintIsEarned /\ RecreateIsExact
    BY DEF InitIndex, FingerprintIsEarned, RecreateIsExact
  <1>7. QED
    BY <1>2, <1>5, <1>6 DEF IndexInv

\* The inductive invariant of indexing.
THEOREM IndexInvariance ==
    ASSUME CorpusShape
    PROVE  SpecIndex => []IndexInv
  <1>1. ASSUME InitIndex
        PROVE  IndexInv
    BY <1>1, InitIndexInv
  <1>2. ASSUME IndexInv, [NextIndex]_indexVars
        PROVE  IndexInv'
    <2>1. CASE ReplaceSource
      BY <1>2, <2>1, ReplaceSourceKeeps
    <2>2. ASSUME NEW r \in Indexers,
                 \/ BeginRun(r) \/ SkipUnchanged(r) \/ HashSource(r) \/ ReadSource(r)
                 \/ OpenChunks(r)
                 \/ \E d \in Docs : SkipDocument(r, d) \/ OpenSections(r, d) \/ BufferDocument(r, d)
          PROVE  IndexInv'
      BY <1>2, <2>2, BeginRunKeeps, HashKeeps, ReadSourceKeeps, OpenChunksKeeps,
         SkipDocumentKeeps, OpenSectionsKeeps, BufferDocumentKeeps
    <2>3. ASSUME NEW r \in Indexers,
                 \/ FlushParents(r) \/ FlushChildren(r)
                 \/ FlushLastParents(r) \/ FlushLastChildren(r) \/ FinishDocuments(r)
                 \/ StoreFingerprint(r) \/ BreakOff(r)
          PROVE  IndexInv'
      BY <1>2, <2>3, FlushKeeps, StoreFingerprintKeeps, BreakOffKeeps
    <2>4. CASE UNCHANGED indexVars
      BY <1>2, <2>4 DEF indexVars, IndexInv, IndexTypeOK, RunsProgress, WritersOverlap, Undisturbed,
         Complete, TornWhileWriting, FingerprintIsEarned, RecreateIsExact
    <2>5. QED
      BY <1>2, <2>1, <2>2, <2>3, <2>4 DEF NextIndex
  <1>3. QED
    BY <1>1, <1>2, PTL DEF SpecIndex

\* The type invariant of indexing.
THEOREM IndexTypes ==
    ASSUME CorpusShape
    PROVE  SpecIndex => []IndexTypeOK
  <1>1. IndexInv => IndexTypeOK
    BY DEF IndexInv
  <1>2. QED
    BY <1>1, IndexInvariance, PTL

\* A stored fingerprint that no crash, overlap or replaced file has devalued
\* stands for an index that holds every section and chunk of its revision
\* (bootstrap.py, indexer.py).
THEOREM FingerprintAlwaysEarned ==
    ASSUME CorpusShape
    PROVE  SpecIndex => []FingerprintIsEarned
  <1>1. IndexInv => FingerprintIsEarned
    BY DEF IndexInv
  <1>2. QED
    BY <1>1, IndexInvariance, PTL

\* After an undisturbed run with recreate the index is that of its revision,
\* whatever was in the collections before (indexer.py, --recreate).
THEOREM RecreateAlwaysExact ==
    ASSUME CorpusShape
    PROVE  SpecIndex => []RecreateIsExact
  <1>1. IndexInv => RecreateIsExact
    BY DEF IndexInv
  <1>2. QED
    BY <1>1, IndexInvariance, PTL

-----------------------------------------------------------------------------
(* Nodes in a row.                                                         *)

\* A row without a node covers nothing.
LEMMA EmptyRow ==
    ASSUME NEW from, NEW until, NEW covered
    PROVE  InARow(<<>>, from, until, covered) <=> from = until
  BY DEF InARow

\* One more node continues a row up to where that node ends.
LEMMA RowContinues ==
    ASSUME NEW nodes \in Seq(Nat), NEW n \in Nat, NEW from, NEW until, NEW end, NEW covered,
           InARow(nodes, from, until, covered),
           covered[n].from = until, covered[n].until = end
    PROVE  InARow(Append(nodes, n), from, end, covered)
  <1>0. Append(nodes, n) \in Seq(Nat)
    OBVIOUS
  <1>1. PICK m \in Seq(Nat) : m = Append(nodes, n)
    BY <1>0
  <1>2. PICK len \in Nat : len = Len(nodes)
    OBVIOUS
  <1>3. /\ Len(m) = len + 1 /\ m # <<>> /\ m[len + 1] = n
        /\ \A i \in 1 .. len : m[i] = nodes[i]
    BY <1>1, <1>2
  <1>4. CASE nodes = <<>>
    <2>1. len = 0
      BY <1>2, <1>4
    <2>2. from = until
      BY <1>4 DEF InARow
    <2>3. InARow(m, from, end, covered)
      BY <1>3, <2>1, <2>2 DEF InARow
    <2>4. QED
      BY <1>1, <2>3
  <1>5. CASE nodes # <<>>
    <2>1. len \in Nat \ {0}
      BY <1>2, <1>5
    <2>2. /\ covered[nodes[1]].from = from /\ covered[nodes[len]].until = until
          /\ \A i \in 1 .. len - 1 : covered[nodes[i]].until = covered[nodes[i + 1]].from
      BY <1>2, <1>5 DEF InARow
    <2>3. covered[m[1]].from = from /\ covered[m[len + 1]].until = end
      BY <1>3, <2>1, <2>2
    <2>4. \A i \in 1 .. len : covered[m[i]].until = covered[m[i + 1]].from
      <3>1. SUFFICES ASSUME NEW i \in 1 .. len
                     PROVE  covered[m[i]].until = covered[m[i + 1]].from
        OBVIOUS
      <3>2. CASE i = len
        BY <1>3, <2>1, <2>2, <3>2
      <3>3. CASE i # len
        <4>1. i \in 1 .. len - 1 /\ i + 1 \in 1 .. len
          BY <2>1, <3>3
        <4>2. QED
          BY <1>3, <2>2, <4>1
      <3>4. QED
        BY <3>2, <3>3
    <2>5. InARow(m, from, end, covered)
      BY <1>3, <2>1, <2>3, <2>4 DEF InARow
    <2>6. QED
      BY <1>1, <2>5
  <1>6. QED
    BY <1>4, <1>5

\* The first node begins a row, and the rest goes on where it ends.
LEMMA RowBegins ==
    ASSUME NEW nodes \in Seq(Nat), nodes # <<>>, NEW from, NEW until, NEW covered,
           InARow(nodes, from, until, covered)
    PROVE  /\ covered[Head(nodes)].from = from
           /\ InARow(Tail(nodes), covered[Head(nodes)].until, until, covered)
  <1>0. Tail(nodes) \in Seq(Nat)
    OBVIOUS
  <1>1. PICK m \in Seq(Nat) : m = Tail(nodes)
    BY <1>0
  <1>2. PICK len \in Nat : len = Len(nodes)
    OBVIOUS
  <1>3. /\ len # 0 /\ Len(m) = len - 1 /\ Head(nodes) = nodes[1]
        /\ \A i \in 1 .. len - 1 : m[i] = nodes[i + 1]
    BY <1>1, <1>2
  <1>4. /\ covered[nodes[1]].from = from /\ covered[nodes[len]].until = until
        /\ \A i \in 1 .. len - 1 : covered[nodes[i]].until = covered[nodes[i + 1]].from
    BY <1>2 DEF InARow
  <1>5. InARow(m, covered[nodes[1]].until, until, covered)
    <2>1. CASE m = <<>>
      <3>1. Len(m) = 0
        BY <2>1
      <3>4. len - 1 = 0
        BY <1>3, <3>1
      <3>3. len = 1
        BY <3>4
      <3>2. QED
        BY <1>4, <2>1, <3>3 DEF InARow
    <2>2. CASE m # <<>>
      <3>1. Len(m) # 0
        BY <2>2
      <3>2. len - 1 \in 1 .. len - 1 /\ 1 \in 1 .. len - 1 /\ (len - 1) + 1 = len
        BY <1>2, <1>3, <3>1
      <3>3. covered[m[1]].from = covered[nodes[1]].until /\ covered[m[len - 1]].until = until
        BY <1>3, <1>4, <3>2
      <3>4. \A i \in 1 .. (len - 1) - 1 : covered[m[i]].until = covered[m[i + 1]].from
        <4>1. \A i \in 1 .. (len - 1) - 1 : i \in 1 .. len - 1 /\ i + 1 \in 1 .. len - 1
          BY <1>2
        <4>2. QED
          BY <1>3, <1>4, <4>1
      <3>5. QED
        BY <1>3, <2>2, <3>3, <3>4 DEF InARow
    <2>3. QED
      BY <2>1, <2>2
  <1>6. QED
    BY <1>1, <1>3, <1>4, <1>5

\* A row does not depend on what other nodes cover.
LEMMA RowStays ==
    ASSUME NEW nodes \in Seq(Nat), NEW from, NEW until, NEW before, NEW after,
           \A n \in ToSet(nodes) : after[n] = before[n],
           InARow(nodes, from, until, before)
    PROVE  InARow(nodes, from, until, after)
  <1>1. CASE nodes = <<>>
    BY <1>1 DEF InARow
  <1>2. CASE nodes # <<>>
    <2>1. PICK len \in Nat : len = Len(nodes)
      OBVIOUS
    <2>2. len # 0
      BY <1>2, <2>1
    <2>3. \A i \in 1 .. len : nodes[i] \in ToSet(nodes)
      BY <2>1 DEF ToSet
    <2>4. \A i \in 1 .. len : after[nodes[i]] = before[nodes[i]]
      BY <2>3
    <2>5. /\ before[nodes[1]].from = from /\ before[nodes[len]].until = until
          /\ \A i \in 1 .. len - 1 : before[nodes[i]].until = before[nodes[i + 1]].from
      BY <1>2, <2>1 DEF InARow
    <2>6. 1 \in 1 .. len /\ len \in 1 .. len /\ \A i \in 1 .. len - 1 : i \in 1 .. len /\ i + 1 \in 1 .. len
      BY <2>1, <2>2
    <2>7. /\ after[nodes[1]].from = from /\ after[nodes[len]].until = until
          /\ \A i \in 1 .. len - 1 : after[nodes[i]].until = after[nodes[i + 1]].from
      BY <2>4, <2>5, <2>6
    <2>8. QED
      BY <1>2, <2>1, <2>7 DEF InARow
  <1>3. QED
    BY <1>1, <1>2

\* What is in a list with one element more.
LEMMA SetOfAppend ==
    ASSUME NEW E, NEW s \in Seq(E), NEW e \in E
    PROVE  ToSet(Append(s, e)) = ToSet(s) \cup {e}
  <1>1. PICK len \in Nat : len = Len(s)
    OBVIOUS
  <1>0. Append(s, e) \in Seq(E)
    OBVIOUS
  <1>2. PICK t \in Seq(E) : t = Append(s, e)
    BY <1>0
  <1>3. /\ DOMAIN s = 1 .. len /\ DOMAIN t = 1 .. len + 1
        /\ \A i \in 1 .. len : t[i] = s[i]
        /\ t[len + 1] = e
    BY <1>1, <1>2
  <1>4. \A i \in 1 .. len + 1 : i \in 1 .. len \/ i = len + 1
    BY <1>1
  <1>5. \A i \in 1 .. len : i \in 1 .. len + 1
    BY <1>1
  <1>6. len + 1 \in 1 .. len + 1
    BY <1>1
  <1>7. ToSet(t) = ToSet(s) \cup {e}
    BY <1>3, <1>4, <1>5, <1>6 DEF ToSet
  <1>8. QED
    BY <1>2, <1>7

\* What is in a list is its first element and what is in the rest.
LEMMA SetOfTail ==
    ASSUME NEW E, NEW s \in Seq(E), s # <<>>
    PROVE  /\ Head(s) \in ToSet(s)
           /\ ToSet(s) = {Head(s)} \cup ToSet(Tail(s))
  <1>1. PICK len \in Nat : len = Len(s)
    OBVIOUS
  <1>0. Tail(s) \in Seq(E)
    OBVIOUS
  <1>2. PICK t \in Seq(E) : t = Tail(s)
    BY <1>0
  <1>3. /\ len # 0 /\ DOMAIN s = 1 .. len /\ DOMAIN t = 1 .. len - 1
        /\ \A i \in 1 .. len - 1 : t[i] = s[i + 1]
        /\ Head(s) = s[1]
    BY <1>1, <1>2
  <1>4. \A i \in 1 .. len : i = 1 \/ (i - 1 \in 1 .. len - 1 /\ (i - 1) + 1 = i)
    BY <1>1
  <1>5. \A i \in 1 .. len - 1 : i + 1 \in 1 .. len
    BY <1>1
  <1>6. 1 \in 1 .. len
    BY <1>1, <1>3
  <1>7. ToSet(s) = {s[i] : i \in 1 .. len} /\ ToSet(t) = {t[i] : i \in 1 .. len - 1}
    BY <1>3, Zenon DEF ToSet
  <1>8. \A i \in 1 .. len : s[i] = s[1] \/ s[i] \in ToSet(t)
    <2>1. SUFFICES ASSUME NEW i \in 1 .. len, i # 1
                   PROVE  s[i] \in ToSet(t)
      OBVIOUS
    <2>2. i - 1 \in 1 .. len - 1 /\ t[i - 1] = s[i]
      BY <1>3, <1>4, <2>1
    <2>3. QED
      BY <1>7, <2>2
  <1>10. s[1] \in ToSet(s)
    BY <1>6, <1>7
  <1>11. \A i \in 1 .. len - 1 : t[i] \in ToSet(s)
    BY <1>3, <1>5, <1>7
  <1>12. ToSet(s) = {s[1]} \cup ToSet(t)
    BY <1>7, <1>8, <1>10, <1>11
  <1>9. QED
    BY <1>2, <1>3, <1>10, <1>12

-----------------------------------------------------------------------------
(* The inductive invariant of the plan.                                    *)

\* What the nodes of a call of the first walk cover: the stages from where the
\* call began to upto.
CallFits(call, upto, covered) ==
    /\ ToSet(call.nodes) \subseteq DOMAIN covered
    /\ InARow(call.nodes, call.from, upto, covered)
    /\ call.nodes # <<>> => call.from < upto

\* A call has made nodes up to where the call inside it began.
Upto(calls, i, end) == IF i = Len(calls) THEN end ELSE calls[i + 1].from

\* The walk that builds.
BuildInv ==
    step = "build" =>
        /\ building # <<>> /\ building[1].from = 0
        /\ IF Len(building) = 1
           THEN Len(building[1].left) + Len(building[1].nodes) <= 1
           ELSE building[1].left = <<>> /\ building[1].nodes = <<>>
        /\ \A i \in DOMAIN building : CallFits(building[i], Upto(building, i, Len(targets)), covers)

\* Stages are numbered and the nodes made so far fit them.
TreeInv ==
    /\ \A i \in DOMAIN targets : targets[i].index = i - 1
    /\ \A n \in DOMAIN tree : NodeFits(n)
    /\ step # "build" =>
          IF root = 0 THEN targets = <<>> ELSE covers[root] = [from |-> 0, until |-> Len(targets)]

\* What a call of the second walk covers, and its children.
CoversFrom(call) == IF call.node = 0 THEN 0 ELSE covers[call.node].from
CoversUntil(call) == IF call.node = 0 THEN Len(targets) ELSE covers[call.node].until
Children(call) == IF call.node = 0 THEN {root} ELSE ToSet(tree[call.node].children)

\* A call has summed up the stages up to the next child, or up to the child
\* whose call is inside it.
SumFits(call) ==
    LET reached == CoversFrom(call) + call.total
    IN  /\ call.completed = DoneBefore(reached) - DoneBefore(CoversFrom(call))
        /\ call.branch = 1 <=> \E index \in CoversFrom(call) .. reached - 1 : IsCurrent(index)

LeftFits(calls, i) ==
    LET reached == CoversFrom(calls[i]) + calls[i].total
    IN  IF i = Len(calls)
        THEN InARow(calls[i].left, reached, CoversUntil(calls[i]), covers)
        ELSE /\ covers[calls[i + 1].node].from = reached
             /\ InARow(calls[i].left, covers[calls[i + 1].node].until, CoversUntil(calls[i]), covers)

\* Of its children, those that are not left or under way are shown.
ChildrenShown(calls, i, shown) ==
    \A child \in Children(calls[i]) :
        \/ child \in ToSet(calls[i].left)
        \/ i < Len(calls) /\ child = calls[i + 1].node
        \/ shown[child] # NotSeen

\* What is shown of a node is right, and its children are shown.
ShownFits(n) ==
    view[n] # NotSeen =>
        /\ SaysOf(n)
        /\ \A child \in ToSet(tree[n].children) : view[child] # NotSeen

SumInv ==
    /\ step \in {"annotate", "view"} => root # 0 /\ Len(view) = Len(tree)
    /\ step = "annotate" =>
          /\ summing # <<>> /\ summing[1].node = 0
          /\ \A i \in 2 .. Len(summing) : /\ summing[i].node \in DOMAIN tree
                                          /\ tree[summing[i].node].type # "stage"
          /\ \A i \in DOMAIN summing : /\ SumFits(summing[i])
                                       /\ LeftFits(summing, i)
                                       /\ ChildrenShown(summing, i, view)
    /\ step \in {"annotate", "view"} => \A n \in DOMAIN tree : ShownFits(n)
    /\ step = "view" => view[root] # NotSeen

PlanInv == PlanTypeOK /\ BuildInv /\ TreeInv /\ PrerequisitesComeFirst /\ SumInv

-----------------------------------------------------------------------------
(* Calls under way.                                                        *)

\* The innermost call changes.
LEMMA InnermostChanges ==
    ASSUME NEW B, NEW calls \in Seq(B), calls # <<>>, NEW call \in B,
           NEW after, after = [calls EXCEPT ![Len(calls)] = call]
    PROVE  /\ after \in Seq(B) /\ Len(after) = Len(calls)
           /\ after[Len(calls)] = call
           /\ \A i \in 1 .. Len(calls) - 1 : after[i] = calls[i]
  <1>1. PICK len \in Nat : len = Len(calls)
    OBVIOUS
  <1>2. len # 0 /\ DOMAIN calls = 1 .. len
    BY <1>1
  <1>3. after = [i \in 1 .. len |-> IF i = len THEN call ELSE calls[i]]
    BY <1>1, <1>2
  <1>4. \A i \in 1 .. len : (IF i = len THEN call ELSE calls[i]) \in B
    BY <1>1
  <1>5. after \in Seq(B) /\ Len(after) = len
    BY <1>3, <1>4
  <1>6. len \in 1 .. len /\ \A i \in 1 .. len - 1 : i \in 1 .. len /\ i # len
    BY <1>2
  <1>7. QED
    BY <1>1, <1>3, <1>5, <1>6

\* A call begins inside the others.
LEMMA CallBegins ==
    ASSUME NEW B, NEW calls \in Seq(B), NEW call \in B, NEW after, after = Append(calls, call)
    PROVE  /\ after \in Seq(B) /\ Len(after) = Len(calls) + 1
           /\ after[Len(calls) + 1] = call
           /\ \A i \in 1 .. Len(calls) : after[i] = calls[i]
  OBVIOUS

\* The innermost call returns.
LEMMA CallReturns ==
    ASSUME NEW B, NEW calls \in Seq(B), calls # <<>>,
           NEW after, after = SubSeq(calls, 1, Len(calls) - 1)
    PROVE  /\ after \in Seq(B) /\ Len(after) = Len(calls) - 1
           /\ \A i \in 1 .. Len(calls) - 1 : after[i] = calls[i]
  <1>1. PICK len \in Nat : len = Len(calls)
    OBVIOUS
  <1>2. len # 0 /\ len - 1 \in Nat
    BY <1>1
  <1>3. \A i \in 1 .. len - 1 : calls[i] \in B
    BY <1>1
  <1>4. after = [i \in 1 .. len - 1 |-> calls[i]]
    BY <1>1, <1>2
  <1>5. after \in Seq(B) /\ Len(after) = len - 1
    BY <1>2, <1>3, <1>4
  <1>6. QED
    BY <1>1, <1>4, <1>5

\* The fields of a call of the walk that builds.
LEMMA BuildCallFields ==
    ASSUME NEW call \in BuildCall
    PROVE  /\ call.left \in Seq(Nat) /\ call.module \in Names
           /\ call.nodes \in Seq(Nat) /\ call.from \in Nat
           /\ \A left \in Seq(Nat) :
                 /\ [call EXCEPT !.left = left] \in BuildCall
                 /\ [call EXCEPT !.left = left].left = left
                 /\ [call EXCEPT !.left = left].module = call.module
                 /\ [call EXCEPT !.left = left].nodes = call.nodes
                 /\ [call EXCEPT !.left = left].from = call.from
           /\ \A nodes \in Seq(Nat) :
                 /\ [call EXCEPT !.nodes = nodes] \in BuildCall
                 /\ [call EXCEPT !.nodes = nodes].left = call.left
                 /\ [call EXCEPT !.nodes = nodes].module = call.module
                 /\ [call EXCEPT !.nodes = nodes].nodes = nodes
                 /\ [call EXCEPT !.nodes = nodes].from = call.from
  BY DEF BuildCall

\* What is known of the element of the book a call visits.
LEMMA VisitedFields ==
    ASSUME PlanInv, step = "build", Innermost.left # <<>>
    PROVE  /\ Len(building) \in Nat \ {0} /\ Innermost \in BuildCall
           /\ Visited.id \in Names /\ ModuleOfVisited \in Names
           /\ Visited.children \in Seq(Nat) /\ ToSet(Visited.children) \subseteq DOMAIN toc
           /\ Tail(Innermost.left) \in Seq(Nat)
           /\ ToSet(Tail(Innermost.left)) \subseteq DOMAIN toc
  <1>1. PICK B : B = BuildCall
    OBVIOUS
  <1>2. building \in Seq(B) /\ building # <<>>
    BY <1>1 DEF PlanInv, PlanTypeOK, BuildInv
  <1>3. PICK len \in Nat : len = Len(building)
    BY <1>2
  <1>4. len # 0 /\ len \in DOMAIN building /\ building[len] \in B
    BY <1>2, <1>3
  <1>5. Innermost = building[len]
    BY <1>3 DEF Innermost
  <1>6. Innermost \in BuildCall /\ Innermost.left \in Seq(Nat) /\ Innermost.module \in Names
    BY <1>1, <1>4, <1>5, BuildCallFields
  <1>7. ToSet(Innermost.left) \subseteq DOMAIN toc
    BY <1>4, <1>5 DEF PlanInv, PlanTypeOK
  <1>8. /\ Head(Innermost.left) \in DOMAIN toc
        /\ ToSet(Tail(Innermost.left)) \subseteq DOMAIN toc
    BY <1>6, <1>7, SetOfTail
  <1>9. /\ toc \in Seq(TocNode)
        /\ \A n \in DOMAIN toc : ToSet(toc[n].children) \subseteq n + 1 .. Len(toc)
    BY DEF PlanInv, PlanTypeOK, IsBook
  <1>10. PICK n \in DOMAIN toc : n = Head(Innermost.left)
    BY <1>8
  <1>11. Visited = toc[n] /\ Visited \in TocNode
    BY <1>9, <1>10 DEF Visited
  <1>12. Visited.id \in Names /\ Visited.module \in Names /\ Visited.children \in Seq(Nat)
    BY <1>11 DEF TocNode
  <1>13. ToSet(Visited.children) \subseteq DOMAIN toc
    <2>1. PICK size \in Nat : size = Len(toc)
      BY <1>9
    <2>2. DOMAIN toc = 1 .. size
      BY <1>9, <2>1
    <2>3. \A k \in n + 1 .. size : k \in 1 .. size
      BY <2>1, <2>2
    <2>4. QED
      BY <1>9, <1>10, <1>11, <2>1, <2>2, <2>3
  <1>14. ModuleOfVisited \in Names
    BY <1>6, <1>12 DEF ModuleOfVisited
  <1>15. Tail(Innermost.left) \in Seq(Nat)
    BY <1>6
  <1>16. QED
    BY <1>3, <1>4, <1>6, <1>8, <1>12, <1>13, <1>14, <1>15

\* The calls once the innermost has one child less to visit.
LEMMA VisitsNextFields ==
    ASSUME PlanInv, step = "build", Innermost.left # <<>>
    PROVE  /\ VisitsNext \in Seq(BuildCall) /\ Len(VisitsNext) = Len(building)
           /\ VisitsNext[Len(building)] = [Innermost EXCEPT !.left = Tail(Innermost.left)]
           /\ \A i \in 1 .. Len(building) - 1 : VisitsNext[i] = building[i]
  <1> DEFINE call == [Innermost EXCEPT !.left = Tail(Innermost.left)]
  <1>1. PICK B : B = BuildCall
    OBVIOUS
  <1>2. building \in Seq(B) /\ building # <<>>
    BY <1>1 DEF PlanInv, PlanTypeOK, BuildInv
  <1>3. call \in B
    BY <1>1, VisitedFields, BuildCallFields
  <1>4. VisitsNext = [building EXCEPT ![Len(building)] = call]
    BY DEF VisitsNext, Innermost
  <1> HIDE DEF call
  <1>5. /\ VisitsNext \in Seq(B) /\ Len(VisitsNext) = Len(building)
        /\ VisitsNext[Len(building)] = call
        /\ \A i \in 1 .. Len(building) - 1 : VisitsNext[i] = building[i]
    BY <1>2, <1>3, <1>4, InnermostChanges
  <1>6. QED
    BY <1>1, <1>5 DEF call

\* The calls once the innermost got a node from the element it visited.
LEMMA VisitsNextAndTakesFields ==
    ASSUME PlanInv, step = "build", Innermost.left # <<>>, NEW n \in Nat
    PROVE  /\ VisitsNextAndTakes(n) \in Seq(BuildCall)
           /\ Len(VisitsNextAndTakes(n)) = Len(building)
           /\ VisitsNextAndTakes(n)[Len(building)] \in BuildCall
           /\ VisitsNextAndTakes(n)[Len(building)].left = Tail(Innermost.left)
           /\ VisitsNextAndTakes(n)[Len(building)].nodes = Append(Innermost.nodes, n)
           /\ VisitsNextAndTakes(n)[Len(building)].from = Innermost.from
           /\ \A i \in 1 .. Len(building) - 1 : VisitsNextAndTakes(n)[i] = building[i]
  <1> DEFINE first == [Innermost EXCEPT !.left = Tail(Innermost.left)]
             call  == [first EXCEPT !.nodes = Append(Innermost.nodes, n)]
  <1>1. PICK B : B = BuildCall
    OBVIOUS
  <1>2. building \in Seq(B) /\ building # <<>>
    BY <1>1 DEF PlanInv, PlanTypeOK, BuildInv
  <1>3. /\ Innermost \in BuildCall /\ Tail(Innermost.left) \in Seq(Nat)
        /\ Append(Innermost.nodes, n) \in Seq(Nat)
    <2>1. Innermost \in BuildCall /\ Tail(Innermost.left) \in Seq(Nat)
      BY VisitedFields
    <2>2. Innermost.nodes \in Seq(Nat)
      BY <2>1, BuildCallFields
    <2>3. QED
      BY <2>1, <2>2
  <1>4. /\ first \in BuildCall /\ first.left = Tail(Innermost.left)
        /\ first.nodes = Innermost.nodes /\ first.from = Innermost.from
    BY <1>3, BuildCallFields
  <1>5. VisitsNextAndTakes(n) = [building EXCEPT ![Len(building)] = call]
    <2>1. Len(building) \in DOMAIN building
      BY <1>2
    <2>2. PICK top : top = building[Len(building)]
      OBVIOUS
    <2>3. Innermost = top
      BY <2>2 DEF Innermost
    <2>4. top = [left |-> top.left, module |-> top.module, nodes |-> top.nodes, from |-> top.from]
      BY <1>3, <2>3 DEF BuildCall
    <2>5. QED
      BY <2>1, <2>2, <2>3, <2>4 DEF VisitsNextAndTakes
  <1> HIDE DEF first
  <1>6. /\ call \in BuildCall /\ call.left = Tail(Innermost.left)
        /\ call.nodes = Append(Innermost.nodes, n) /\ call.from = Innermost.from
    BY <1>3, <1>4, BuildCallFields
  <1> HIDE DEF call
  <1>7. call \in B
    BY <1>1, <1>6
  <1>8. /\ VisitsNextAndTakes(n) \in Seq(B) /\ Len(VisitsNextAndTakes(n)) = Len(building)
        /\ VisitsNextAndTakes(n)[Len(building)] = call
        /\ \A i \in 1 .. Len(building) - 1 : VisitsNextAndTakes(n)[i] = building[i]
    BY <1>2, <1>5, <1>7, InnermostChanges
  <1>9. QED
    BY <1>1, <1>6, <1>8

-----------------------------------------------------------------------------
(* The walk that builds the plan.                                          *)

\* What a node rests on stays as more stages and nodes are made.
LEMMA NodeStays ==
    ASSUME PlanInv, NEW n \in DOMAIN tree, tree'[n] = tree[n],
           \A k \in DOMAIN tree : covers'[k] = covers[k],
           targets' \in Seq(StageTarget), Len(targets) <= Len(targets'),
           \A i \in DOMAIN targets : targets'[i] = targets[i]
    PROVE  NodeFits(n)'
  <1>1. PICK size \in Nat : size = Len(tree)
    BY DEF PlanInv, PlanTypeOK
  <1>2. n \in 1 .. size /\ DOMAIN tree = 1 .. size
    BY <1>1 DEF PlanInv, PlanTypeOK
  <1>3. NodeFits(n) /\ covers'[n] = covers[n]
    BY DEF PlanInv, TreeInv
  <1>4. PICK have \in Nat : have = Len(targets)
    BY DEF PlanInv, PlanTypeOK
  <1>5. PICK get \in Nat : get = Len(targets')
    OBVIOUS
  <1>6. covers[n].from \in Nat /\ covers[n].until \in Nat
    <2>1. PICK C : C = [from : Nat, until : Nat]
      OBVIOUS
    <2>2. covers \in Seq(C) /\ Len(covers) = size
      BY <1>1, <2>1 DEF PlanInv, PlanTypeOK
    <2>3. covers[n] \in C
      BY <1>2, <2>2
    <2>4. QED
      BY <2>1, <2>3
  <1>7. covers[n].from < covers[n].until /\ covers[n].until <= have
    BY <1>3, <1>4 DEF NodeFits
  <1>8. covers'[n].from < covers'[n].until /\ covers'[n].until <= get
    BY <1>3, <1>4, <1>5, <1>6, <1>7
  <1>9. CASE tree[n].type = "stage"
    <2>1. PICK i : i = tree[n].index + 1
      OBVIOUS
    <2>2. /\ covers[n] = [from |-> tree[n].index, until |-> i]
          /\ tree[n].section = targets[i].section /\ tree[n].module = targets[i].module
          /\ tree[n].prerequisites = targets[i].prerequisites /\ tree[n].children = <<>>
      BY <1>3, <1>9, <2>1 DEF NodeFits
    <2>3. i \in 1 .. have
      <3>1. covers[n].until = i /\ covers[n].from \in Nat
        BY <1>6, <2>2
      <3>2. QED
        BY <1>4, <1>6, <1>7, <3>1
    <2>4. i \in DOMAIN targets
      BY <1>4, <2>3 DEF PlanInv, PlanTypeOK
    <2>5. targets'[i] = targets[i]
      BY <2>4
    <2>6. QED
      BY <1>3, <1>5, <1>8, <1>9, <2>1, <2>2, <2>5 DEF NodeFits
  <1>10. CASE tree[n].type # "stage"
    <2>1. /\ tree[n].children # <<>> /\ ToSet(tree[n].children) \subseteq 1 .. n - 1
          /\ InARow(tree[n].children, covers[n].from, covers[n].until, covers)
      BY <1>3, <1>10 DEF NodeFits
    <2>2. tree[n].children \in Seq(Nat)
      <3>1. tree[n] \in PlanNode
        BY DEF PlanInv, PlanTypeOK
      <3>2. QED
        BY <3>1 DEF PlanNode
    <2>3. \A k \in 1 .. n - 1 : k \in DOMAIN tree
      BY <1>2
    <2>4. \A k \in ToSet(tree[n].children) : covers'[k] = covers[k]
      BY <2>1, <2>3
    <2>5. InARow(tree[n].children, covers[n].from, covers[n].until, covers')
      BY <2>1, <2>2, <2>4, RowStays
    <2>6. QED
      BY <1>3, <1>5, <1>8, <1>10, <2>1, <2>5 DEF NodeFits
  <1>11. QED
    BY <1>9, <1>10

\* A call that fits still fits when nodes are added.
LEMMA CallStays ==
    ASSUME NEW call \in BuildCall, NEW upto, NEW before, NEW after,
           DOMAIN before \subseteq DOMAIN after,
           \A k \in DOMAIN before : after[k] = before[k],
           CallFits(call, upto, before)
    PROVE  CallFits(call, upto, after)
  <1>1. ToSet(call.nodes) \subseteq DOMAIN before /\ InARow(call.nodes, call.from, upto, before)
    BY DEF CallFits
  <1>2. \A k \in ToSet(call.nodes) : after[k] = before[k]
    BY <1>1
  <1>3. call.nodes \in Seq(Nat)
    BY BuildCallFields
  <1>4. InARow(call.nodes, call.from, upto, after)
    BY <1>1, <1>2, <1>3, RowStays
  <1>5. QED
    BY <1>1, <1>4 DEF CallFits

\* A call that fits gets the next node and fits up to where that ends.
LEMMA CallTakes ==
    ASSUME NEW call \in BuildCall, NEW upto \in Nat, NEW end \in Nat, NEW before, NEW after,
           DOMAIN before \subseteq DOMAIN after,
           \A k \in DOMAIN before : after[k] = before[k],
           CallFits(call, upto, before),
           NEW n \in Nat, n \in DOMAIN after, after[n].from = upto, after[n].until = end, upto < end,
           NEW taken, taken.nodes = Append(call.nodes, n), taken.from = call.from
    PROVE  CallFits(taken, end, after)
  <1>1. CallFits(call, upto, after)
    BY CallStays
  <1>2. call.nodes \in Seq(Nat) /\ call.from \in Nat
    BY BuildCallFields
  <1>3. InARow(Append(call.nodes, n), call.from, end, after)
    BY <1>1, <1>2, RowContinues DEF CallFits
  <1>4. ToSet(Append(call.nodes, n)) = ToSet(call.nodes) \cup {n}
    BY <1>2, SetOfAppend
  <1>5. ToSet(Append(call.nodes, n)) \subseteq DOMAIN after
    BY <1>1, <1>4 DEF CallFits
  <1>6. call.from < end
    <2>1. CASE call.nodes = <<>>
      <3>1. call.from = upto
        BY <1>1, <2>1 DEF CallFits, InARow
      <3>2. QED
        BY <3>1
    <2>2. CASE call.nodes # <<>>
      <3>1. call.from < upto
        BY <1>1, <2>2 DEF CallFits
      <3>2. QED
        BY <1>2, <3>1
    <2>3. QED
      BY <2>1, <2>2
  <1>7. QED
    BY <1>3, <1>5, <1>6 DEF CallFits

\* Where the calls of the walk stand.
LEMMA BuildFacts ==
    ASSUME PlanInv, step = "build"
    PROVE  /\ building \in Seq(BuildCall) /\ Len(building) \in Nat \ {0}
           /\ \A i \in 1 .. Len(building) : building[i] \in BuildCall
           /\ Innermost = building[Len(building)]
           /\ targets \in Seq(StageTarget) /\ tree \in Seq(PlanNode)
           /\ covers \in Seq([from : Nat, until : Nat]) /\ Len(covers) = Len(tree)
           /\ Len(targets) \in Nat /\ Len(tree) \in Nat
           /\ DOMAIN tree = 1 .. Len(tree) /\ DOMAIN covers = 1 .. Len(tree)
           /\ DOMAIN targets = 1 .. Len(targets)
           /\ CallFits(Innermost, Len(targets), covers)
           /\ \A i \in 1 .. Len(building) - 1 : CallFits(building[i], building[i + 1].from, covers)
  <1>1. PICK B : B = BuildCall
    OBVIOUS
  <1>2. building \in Seq(B) /\ building # <<>>
    BY <1>1 DEF PlanInv, PlanTypeOK, BuildInv
  <1>3. PICK len \in Nat : len = Len(building)
    BY <1>2
  <1>4. len # 0 /\ \A i \in 1 .. len : building[i] \in B
    BY <1>2, <1>3
  <1>5. Innermost = building[len]
    BY <1>3 DEF Innermost
  <1>6. /\ targets \in Seq(StageTarget) /\ tree \in Seq(PlanNode)
        /\ covers \in Seq([from : Nat, until : Nat]) /\ Len(covers) = Len(tree)
    BY DEF PlanInv, PlanTypeOK
  <1>7. /\ Len(targets) \in Nat /\ Len(tree) \in Nat
        /\ DOMAIN tree = 1 .. Len(tree) /\ DOMAIN covers = 1 .. Len(tree)
        /\ DOMAIN targets = 1 .. Len(targets)
    BY <1>6
  <1>8. \A i \in 1 .. len : CallFits(building[i], Upto(building, i, Len(targets)), covers)
    BY <1>2, <1>3 DEF PlanInv, BuildInv
  <1>9. CallFits(building[len], Len(targets), covers)
    BY <1>3, <1>4, <1>8 DEF Upto
  <1>10. \A i \in 1 .. len - 1 : CallFits(building[i], building[i + 1].from, covers)
    <2>1. \A i \in 1 .. len - 1 : i \in 1 .. len /\ i # len
      BY <1>3
    <2>2. QED
      BY <1>3, <1>8, <2>1 DEF Upto
  <1>11. QED
    BY <1>1, <1>2, <1>3, <1>4, <1>5, <1>6, <1>7, <1>9, <1>10

\* A leaf becomes a stage: the list and the tree grow by it together.
LEMMA VisitStageKeepsInv ==
    ASSUME PlanInv, VisitStage
    PROVE  PlanInv'
  <1>14. step = "build"
    BY DEF VisitStage
  <1>15. PICK size \in Nat : size = Len(tree)
    BY <1>14, BuildFacts
  <1>16. PICK have \in Nat : have = Len(targets)
    BY <1>14, BuildFacts
  <1>17. PICK len \in Nat \ {0} : len = Len(building)
    BY <1>14, BuildFacts
  <1> DEFINE stage == [index |-> have, section |-> Visited.id, module |-> ModuleOfVisited,
                       prerequisites |-> <<>>]
             node == [type |-> "stage", index |-> have, section |-> Visited.id,
                       module |-> ModuleOfVisited, prerequisites |-> <<>>, children |-> <<>>]
             cover == [from |-> have, until |-> have + 1]
  <1>1. /\ step = "build" /\ Innermost.left # <<>>
        /\ targets' = Append(targets, stage) /\ tree' = Append(tree, node)
        /\ covers' = Append(covers, cover)
        /\ building' = VisitsNextAndTakes(size + 1)
        /\ UNCHANGED <<toc, root, graph, standing, summing, view, step>>
    BY <1>15, <1>16 DEF VisitStage
  <1>2. /\ building \in Seq(BuildCall) /\ len \in Nat \ {0}
        /\ \A i \in 1 .. len : building[i] \in BuildCall
        /\ Innermost = building[len]
        /\ targets \in Seq(StageTarget) /\ tree \in Seq(PlanNode)
        /\ covers \in Seq([from : Nat, until : Nat]) /\ Len(covers) = size
        /\ have \in Nat /\ size \in Nat
        /\ DOMAIN tree = 1 .. size /\ DOMAIN covers = 1 .. size /\ DOMAIN targets = 1 .. have
        /\ CallFits(Innermost, have, covers)
        /\ \A i \in 1 .. len - 1 : CallFits(building[i], building[i + 1].from, covers)
    BY <1>14, <1>15, <1>16, <1>17, BuildFacts
  <1>3. /\ building' \in Seq(BuildCall) /\ Len(building') = len
        /\ building'[len] \in BuildCall
        /\ building'[len].left = Tail(Innermost.left)
        /\ building'[len].nodes = Append(Innermost.nodes, size + 1)
        /\ building'[len].from = Innermost.from
        /\ \A i \in 1 .. len - 1 : building'[i] = building[i]
    <2>1. size + 1 \in Nat
      BY <1>2
    <2>2. QED
      BY <1>1, <1>17, <2>1, VisitsNextAndTakesFields, Zenon
  <1>4. /\ stage \in StageTarget /\ node \in PlanNode /\ cover \in [from : Nat, until : Nat]
        /\ stage.index = have /\ cover.from = have /\ cover.until = have + 1
        /\ node.type = "stage" /\ node.index = have /\ node.section = stage.section
        /\ node.module = stage.module /\ node.prerequisites = stage.prerequisites
        /\ node.children = <<>>
    BY <1>1, <1>2, VisitedFields DEF StageTarget, PlanNode
  <1>5. cover = [from |-> node.index, until |-> node.index + 1]
    OBVIOUS
  <1> HIDE DEF stage, node, cover
  <1>6. /\ targets' \in Seq(StageTarget) /\ Len(targets') = have + 1
        /\ DOMAIN targets' = 1 .. have + 1
        /\ targets'[have + 1] = stage /\ \A i \in 1 .. have : targets'[i] = targets[i]
    <2>1. PICK S : S = StageTarget
      OBVIOUS
    <2>2. targets \in Seq(S) /\ stage \in S
      BY <1>2, <1>4, <2>1
    <2>3. targets' \in Seq(S)
      BY <1>1, <2>2
    <2>4. QED
      BY <1>1, <1>2, <2>1, <2>2, <2>3
  <1>7. /\ tree' \in Seq(PlanNode) /\ Len(tree') = size + 1 /\ DOMAIN tree' = 1 .. size + 1
        /\ tree'[size + 1] = node /\ \A n \in 1 .. size : tree'[n] = tree[n]
    <2>1. PICK N : N = PlanNode
      OBVIOUS
    <2>2. tree \in Seq(N) /\ node \in N
      BY <1>2, <1>4, <2>1
    <2>3. tree' \in Seq(N)
      BY <1>1, <2>2
    <2>4. QED
      BY <1>1, <1>2, <2>1, <2>2, <2>3
  <1>8. /\ covers' \in Seq([from : Nat, until : Nat]) /\ Len(covers') = size + 1
        /\ DOMAIN covers' = 1 .. size + 1
        /\ covers'[size + 1] = cover /\ \A n \in 1 .. size : covers'[n] = covers[n]
    <2>1. PICK C : C = [from : Nat, until : Nat]
      OBVIOUS
    <2>2. covers \in Seq(C) /\ cover \in C
      BY <1>2, <1>4, <2>1
    <2>3. covers' \in Seq(C)
      BY <1>1, <2>2
    <2>4. QED
      BY <1>1, <1>2, <2>1, <2>2, <2>3
  <1>9. PlanTypeOK'
    <2>1. \A c \in DOMAIN building' : ToSet(building'[c].left) \subseteq DOMAIN toc
      <3>1. \A c \in 1 .. len - 1 : ToSet(building'[c].left) \subseteq DOMAIN toc
        <4>1. \A c \in 1 .. len - 1 : c \in DOMAIN building
          BY <1>2, <1>17
        <4>2. QED
          BY <1>3, <4>1 DEF PlanInv, PlanTypeOK
      <3>2. ToSet(building'[len].left) \subseteq DOMAIN toc
        BY <1>1, <1>3, VisitedFields
      <3>3. \A c \in 1 .. len : c \in 1 .. len - 1 \/ c = len
        OBVIOUS
      <3>4. DOMAIN building' = 1 .. len
        BY <1>3
      <3>5. QED
        BY <3>1, <3>2, <3>3, <3>4
    <2>2. root \in 0 .. size + 1
      BY <1>2 DEF PlanInv, PlanTypeOK
    <2>3. \A c \in DOMAIN summing : ToSet(summing[c].left) \subseteq DOMAIN tree'
      <3>1. \A c \in DOMAIN summing : ToSet(summing[c].left) \subseteq DOMAIN tree
        BY DEF PlanInv, PlanTypeOK
      <3>2. DOMAIN tree \subseteq DOMAIN tree'
        BY <1>2, <1>7
      <3>3. QED
        BY <3>1, <3>2
    <2>4. QED
      BY <1>1, <1>3, <1>6, <1>7, <1>8, <2>1, <2>2, <2>3 DEF PlanInv, PlanTypeOK
  <1>10. BuildInv'
    <2>1. building' # <<>> /\ building'[1].from = 0
      <3>1. building[1].from = 0
        BY <1>1 DEF PlanInv, BuildInv
      <3>2. building'[1].from = building[1].from
        <4>1. 1 = len \/ 1 \in 1 .. len - 1
          OBVIOUS
        <4>2. QED
          BY <1>2, <1>3, <4>1
      <3>3. QED
        BY <1>3, <3>1, <3>2
    <2>2. IF len = 1 THEN Len(building'[1].left) + Len(building'[1].nodes) <= 1
          ELSE building'[1].left = <<>> /\ building'[1].nodes = <<>>
      <3>1. CASE len = 1
        <4>1. Innermost.left \in Seq(Nat) /\ Innermost.nodes \in Seq(Nat)
          <5>1. Innermost \in BuildCall
            BY <1>1, VisitedFields
          <5>2. QED
            BY <5>1, BuildCallFields
        <4>2. Len(Innermost.left) + Len(Innermost.nodes) <= 1
          BY <1>1, <1>2, <1>17, <3>1 DEF PlanInv, BuildInv
        <4>3. /\ Len(Tail(Innermost.left)) = Len(Innermost.left) - 1
              /\ Len(Append(Innermost.nodes, size + 1)) = Len(Innermost.nodes) + 1
          BY <1>1, <4>1
        <4>4. Len(building'[1].left) + Len(building'[1].nodes) <= 1
          <5>1. PICK l \in Nat : l = Len(Innermost.left)
            BY <4>1
          <5>2. PICK k \in Nat : k = Len(Innermost.nodes)
            BY <4>1
          <5>3. Len(building'[1].left) = l - 1 /\ Len(building'[1].nodes) = k + 1
            BY <1>3, <3>1, <4>3, <5>1, <5>2
          <5>4. l + k <= 1
            BY <4>2, <5>1, <5>2
          <5>5. (l - 1) + (k + 1) <= 1
            BY <5>4
          <5>6. QED
            BY <5>3, <5>5
        <4>5. QED
          BY <3>1, <4>4
      <3>2. CASE len # 1
        <4>1. 1 \in 1 .. len - 1
          BY <3>2
        <4>2. building[1].left = <<>> /\ building[1].nodes = <<>>
          BY <1>1, <1>17, <3>2 DEF PlanInv, BuildInv
        <4>3. QED
          BY <1>3, <3>2, <4>1, <4>2
      <3>3. QED
        BY <3>1, <3>2
    <2>3. CallFits(building'[len], have + 1, covers')
      <3>1. /\ size + 1 \in Nat /\ size + 1 \in DOMAIN covers'
            /\ covers'[size + 1].from = have /\ covers'[size + 1].until = have + 1
            /\ have < have + 1 /\ have + 1 \in Nat
            /\ DOMAIN covers \subseteq DOMAIN covers' /\ Innermost \in BuildCall
        BY <1>2, <1>4, <1>8
      <3>2. QED
        <4>1. CallFits(Innermost, have, covers) /\ \A k \in DOMAIN covers : covers'[k] = covers[k]
          BY <1>2, <1>8
        <4>2. /\ building'[len].nodes = Append(Innermost.nodes, size + 1)
              /\ building'[len].from = Innermost.from
          BY <1>3
        <4>3. QED
          BY <3>1, <4>1, <4>2, CallTakes
    <2>4. \A i \in 1 .. len - 1 : CallFits(building'[i], building'[i + 1].from, covers')
      <3>1. SUFFICES ASSUME NEW i \in 1 .. len - 1
                     PROVE  CallFits(building'[i], building'[i + 1].from, covers')
        OBVIOUS
      <3>2. building'[i] = building[i] /\ building'[i + 1].from = building[i + 1].from
        <4>1. i + 1 \in 1 .. len - 1 \/ i + 1 = len
          BY <1>2
        <4>2. QED
          BY <1>2, <1>3, <4>1
      <3>3. i \in 1 .. len /\ DOMAIN covers \subseteq DOMAIN covers'
        BY <1>2, <1>8
      <3>4. building[i] \in BuildCall /\ CallFits(building[i], building[i + 1].from, covers)
        BY <1>2, <3>3
      <3>5. CallFits(building[i], building[i + 1].from, covers')
        BY <1>2, <1>8, <3>3, <3>4, CallStays
      <3>6. QED
        BY <3>2, <3>5
    <2>5. \A i \in DOMAIN building' : CallFits(building'[i], Upto(building', i, have + 1), covers')
      <3>1. \A i \in 1 .. len : i \in 1 .. len - 1 \/ i = len
        OBVIOUS
      <3>2. \A i \in 1 .. len - 1 : i # len
        OBVIOUS
      <3>3. DOMAIN building' = 1 .. len
        BY <1>3
      <3>4. QED
        BY <1>3, <2>3, <2>4, <3>1, <3>2, <3>3 DEF Upto
    <2>6. QED
      BY <1>3, <1>6, <2>1, <2>2, <2>5 DEF BuildInv
  <1>11. TreeInv'
    <2>1. \A i \in DOMAIN targets' : targets'[i].index = i - 1
      <3>1. \A i \in 1 .. have : targets[i].index = i - 1
        BY <1>2 DEF PlanInv, TreeInv
      <3>2. stage.index = (have + 1) - 1
        BY <1>2, <1>4
      <3>3. \A i \in 1 .. have + 1 : i \in 1 .. have \/ i = have + 1
        BY <1>2
      <3>4. QED
        BY <1>6, <3>1, <3>2, <3>3
    <2>2. \A n \in 1 .. size : NodeFits(n)'
      <3>1. Len(targets) <= Len(targets') /\ DOMAIN tree = 1 .. size
        BY <1>2, <1>6, <1>16
      <3>2. \A i \in DOMAIN targets : targets'[i] = targets[i]
        BY <1>2, <1>6
      <3>3. \A k \in DOMAIN tree : covers'[k] = covers[k]
        BY <1>8, <3>1
      <3>4. \A n \in 1 .. size : n \in DOMAIN tree /\ tree'[n] = tree[n]
        BY <1>7, <3>1
      <3>5. QED
        BY <1>6, <3>1, <3>2, <3>3, <3>4, NodeStays
    <2>3. NodeFits(size + 1)'
      <3>1. (have + 1) - 1 = have /\ have < have + 1 /\ have + 1 <= have + 1
        BY <1>2
      <3>2. covers'[size + 1].from < covers'[size + 1].until /\ covers'[size + 1].until <= Len(targets')
        BY <1>4, <1>6, <1>8, <3>1
      <3>3. PICK n : n = size + 1
        OBVIOUS
      <3>4. /\ tree'[n] = node /\ covers'[n] = cover
            /\ tree'[n].type = "stage" /\ tree'[n].index = have
        BY <1>4, <1>7, <1>8, <3>3
      <3>5. /\ covers'[n] = [from |-> tree'[n].index, until |-> tree'[n].index + 1]
            /\ tree'[n].section = targets'[have + 1].section
            /\ tree'[n].module = targets'[have + 1].module
            /\ tree'[n].prerequisites = targets'[have + 1].prerequisites
            /\ tree'[n].children = <<>>
        BY <1>4, <1>5, <1>6, <3>4
      <3>6. NodeFits(n)'
        BY <3>2, <3>3, <3>4, <3>5 DEF NodeFits
      <3>7. QED
        BY <3>3, <3>6
    <2>4. \A n \in 1 .. size + 1 : n \in 1 .. size \/ n = size + 1
      OBVIOUS
    <2>5. QED
      <3>1. \A n \in DOMAIN tree' : NodeFits(n)'
        BY <1>7, <2>2, <2>3, <2>4
      <3>2. step' = "build"
        BY <1>1
      <3>3. QED
        BY <2>1, <3>1, <3>2 DEF TreeInv
  <1>12. PrerequisitesComeFirst' /\ SumInv'
    BY <1>1 DEF PrerequisitesComeFirst, SumInv
  <1>13. QED
    BY <1>9, <1>10, <1>11, <1>12 DEF PlanInv

\* What becomes nothing leaves the list and the tree alone.
LEMMA VisitNothingKeepsInv ==
    ASSUME PlanInv, VisitNothing
    PROVE  PlanInv'
  <1>1. /\ step = "build" /\ Innermost.left # <<>> /\ building' = VisitsNext
        /\ UNCHANGED <<toc, targets, tree, root, covers, graph, standing, summing, view, step>>
    BY DEF VisitNothing
  <1>2. PICK len \in Nat \ {0} : len = Len(building)
    BY <1>1, BuildFacts
  <1>3. PICK top : top = Innermost
    OBVIOUS
  <1>4. /\ \A i \in 1 .. len : building[i] \in BuildCall
        /\ top = building[len] /\ CallFits(top, Len(targets), covers)
        /\ \A i \in 1 .. len - 1 : CallFits(building[i], building[i + 1].from, covers)
        /\ top \in BuildCall
    BY <1>1, <1>2, <1>3, BuildFacts, VisitedFields
  <1>5. /\ building' \in Seq(BuildCall) /\ Len(building') = len
        /\ building'[len] = [top EXCEPT !.left = Tail(top.left)]
        /\ \A i \in 1 .. len - 1 : building'[i] = building[i]
    BY <1>1, <1>2, <1>3, VisitsNextFields, Zenon
  <1>6. /\ top.left \in Seq(Nat) /\ top.left # <<>> /\ top.nodes \in Seq(Nat)
        /\ building'[len].left = Tail(top.left)
        /\ building'[len].nodes = top.nodes /\ building'[len].from = top.from
        /\ Tail(top.left) \in Seq(Nat) /\ ToSet(Tail(top.left)) \subseteq DOMAIN toc
    BY <1>1, <1>3, <1>4, <1>5, BuildCallFields, VisitedFields
  <1>7. \A i \in 1 .. len : i = len \/ (i \in 1 .. len - 1 /\ i # len)
    OBVIOUS
  <1>8. DOMAIN building' = 1 .. len
    BY <1>5
  <1>9. PlanTypeOK'
    <2>1. \A c \in 1 .. len - 1 : c \in DOMAIN building
      BY <1>1, <1>2, BuildFacts
    <2>2. \A c \in 1 .. len - 1 : ToSet(building'[c].left) \subseteq DOMAIN toc
      BY <1>5, <2>1 DEF PlanInv, PlanTypeOK
    <2>3. \A c \in DOMAIN building' : ToSet(building'[c].left) \subseteq DOMAIN toc
      BY <1>6, <1>7, <1>8, <2>2
    <2>4. QED
      BY <1>1, <1>5, <2>3 DEF PlanInv, PlanTypeOK
  <1>10. BuildInv'
    <2>1. building' # <<>> /\ building'[1].from = 0
      <3>1. building[1].from = 0
        BY <1>1 DEF PlanInv, BuildInv
      <3>2. 1 = len \/ 1 \in 1 .. len - 1
        OBVIOUS
      <3>3. building'[1].from = building[1].from
        BY <1>4, <1>5, <1>6, <3>2
      <3>4. QED
        BY <1>5, <3>1, <3>3
    <2>2. IF len = 1 THEN Len(building'[1].left) + Len(building'[1].nodes) <= 1
          ELSE building'[1].left = <<>> /\ building'[1].nodes = <<>>
      <3>1. CASE len = 1
        <4>1. PICK l \in Nat : l = Len(top.left)
          BY <1>6
        <4>2. PICK k \in Nat : k = Len(top.nodes)
          BY <1>6
        <4>3. l + k <= 1
          BY <1>1, <1>2, <1>4, <3>1, <4>1, <4>2 DEF PlanInv, BuildInv
        <4>4. Len(Tail(top.left)) = l - 1
          BY <1>6, <4>1
        <4>5. (l - 1) + k <= 1
          BY <4>3
        <4>6. QED
          BY <1>6, <3>1, <4>2, <4>4, <4>5
      <3>2. CASE len # 1
        <4>1. 1 \in 1 .. len - 1
          BY <3>2
        <4>2. building[1].left = <<>> /\ building[1].nodes = <<>>
          BY <1>1, <1>2, <3>2 DEF PlanInv, BuildInv
        <4>3. QED
          BY <1>5, <3>2, <4>1, <4>2
      <3>3. QED
        BY <3>1, <3>2
    <2>3. CallFits(building'[len], Len(targets), covers)
      BY <1>4, <1>6 DEF CallFits
    <2>4. \A i \in 1 .. len - 1 : CallFits(building'[i], building'[i + 1].from, covers)
      <3>1. \A i \in 1 .. len - 1 : i + 1 \in 1 .. len - 1 \/ i + 1 = len
        OBVIOUS
      <3>2. \A i \in 1 .. len - 1 : building'[i + 1].from = building[i + 1].from
        BY <1>4, <1>5, <1>6, <3>1
      <3>3. QED
        BY <1>4, <1>5, <3>2
    <2>5. \A i \in DOMAIN building' : CallFits(building'[i], Upto(building', i, Len(targets)), covers)
      BY <1>5, <1>7, <1>8, <2>3, <2>4 DEF Upto
    <2>6. QED
      BY <1>1, <1>5, <2>1, <2>2, <2>5 DEF BuildInv
  <1>11. TreeInv'
    BY <1>1 DEF PlanInv, TreeInv, NodeFits
  <1>12. PrerequisitesComeFirst' /\ SumInv'
    BY <1>1 DEF PrerequisitesComeFirst, SumInv
  <1>13. QED
    BY <1>9, <1>10, <1>11, <1>12 DEF PlanInv

\* A group is entered: its call covers nothing yet.
LEMMA VisitGroupKeepsInv ==
    ASSUME PlanInv, VisitGroup
    PROVE  PlanInv'
  <1>1. /\ step = "build" /\ Innermost.left # <<>>
        /\ building' = Append(VisitsNext, [left |-> Visited.children, module |-> ModuleOfVisited,
                                           nodes |-> <<>>, from |-> Len(targets)])
        /\ UNCHANGED <<toc, targets, tree, root, covers, graph, standing, summing, view, step>>
    BY DEF VisitGroup
  <1>2. PICK len \in Nat \ {0} : len = Len(building)
    BY <1>1, BuildFacts
  <1>3. PICK top : top = Innermost
    OBVIOUS
  <1>4. /\ \A i \in 1 .. len : building[i] \in BuildCall
        /\ top = building[len] /\ CallFits(top, Len(targets), covers)
        /\ \A i \in 1 .. len - 1 : CallFits(building[i], building[i + 1].from, covers)
        /\ top \in BuildCall /\ Len(targets) \in Nat
    BY <1>1, <1>2, <1>3, BuildFacts, VisitedFields
  <1>5. PICK N : N = VisitsNext
    OBVIOUS
  <1>6. /\ N \in Seq(BuildCall) /\ Len(N) = len
        /\ N[len] = [top EXCEPT !.left = Tail(top.left)]
        /\ \A i \in 1 .. len - 1 : N[i] = building[i]
    BY <1>1, <1>2, <1>3, <1>5, VisitsNextFields, Zenon
  <1>7. /\ top.left \in Seq(Nat) /\ top.left # <<>> /\ top.nodes \in Seq(Nat)
        /\ N[len].left = Tail(top.left)
        /\ N[len].nodes = top.nodes /\ N[len].from = top.from
        /\ Tail(top.left) \in Seq(Nat) /\ ToSet(Tail(top.left)) \subseteq DOMAIN toc
    BY <1>1, <1>3, <1>4, <1>6, BuildCallFields, VisitedFields
  <1>8. PICK new : new = [left |-> Visited.children, module |-> ModuleOfVisited,
                          nodes |-> <<>>, from |-> Len(targets)]
    OBVIOUS
  <1>9. /\ new \in BuildCall /\ ToSet(new.left) \subseteq DOMAIN toc
        /\ new.nodes = <<>> /\ new.from = Len(targets)
    BY <1>1, <1>4, <1>8, VisitedFields DEF BuildCall
  <1>10. /\ building' \in Seq(BuildCall) /\ Len(building') = len + 1
         /\ building'[len + 1] = new
         /\ \A i \in 1 .. len : building'[i] = N[i]
    <2>1. PICK B : B = BuildCall
      OBVIOUS
    <2>2. N \in Seq(B) /\ new \in B /\ building' = Append(N, new)
      BY <1>1, <1>5, <1>6, <1>8, <1>9, <2>1
    <2>3. QED
      BY <1>6, <2>1, <2>2, CallBegins
  <1>11. \A i \in 1 .. len + 1 : i \in 1 .. len - 1 \/ i = len \/ i = len + 1
    OBVIOUS
  <1>12. DOMAIN building' = 1 .. len + 1
    BY <1>10
  <1>13. /\ \A i \in 1 .. len - 1 : i \in 1 .. len /\ building'[i] = building[i]
         /\ len \in 1 .. len /\ building'[len] = N[len]
    BY <1>6, <1>10
  <1>14. PlanTypeOK'
    <2>1. \A c \in 1 .. len - 1 : c \in DOMAIN building
      BY <1>1, <1>2, BuildFacts
    <2>2. \A c \in 1 .. len - 1 : ToSet(building'[c].left) \subseteq DOMAIN toc
      BY <1>13, <2>1 DEF PlanInv, PlanTypeOK
    <2>3. \A c \in DOMAIN building' : ToSet(building'[c].left) \subseteq DOMAIN toc
      BY <1>7, <1>9, <1>10, <1>11, <1>12, <1>13, <2>2
    <2>4. QED
      BY <1>1, <1>10, <2>3 DEF PlanInv, PlanTypeOK
  <1>15. BuildInv'
    <2>1. building' # <<>> /\ building'[1].from = 0
      <3>1. building[1].from = 0
        BY <1>1 DEF PlanInv, BuildInv
      <3>2. 1 = len \/ 1 \in 1 .. len - 1
        OBVIOUS
      <3>3. building'[1].from = building[1].from
        BY <1>4, <1>7, <1>13, <3>2
      <3>4. QED
        BY <1>10, <3>1, <3>3
    <2>2. len + 1 # 1 /\ building'[1].left = <<>> /\ building'[1].nodes = <<>>
      <3>1. CASE len = 1
        <4>1. PICK l \in Nat : l = Len(top.left)
          BY <1>7
        <4>2. PICK k \in Nat : k = Len(top.nodes)
          BY <1>7
        <4>3. l + k <= 1
          BY <1>1, <1>2, <1>4, <3>1, <4>1, <4>2 DEF PlanInv, BuildInv
        <4>4. l # 0
          BY <1>7, <4>1
        <4>5. l = 1 /\ k = 0
          BY <4>3, <4>4
        <4>6. Tail(top.left) = <<>> /\ top.nodes = <<>>
          <5>1. PICK t \in Seq(Nat) : t = Tail(top.left)
            BY <1>7
          <5>2. Len(t) = l - 1
            BY <1>7, <4>1, <5>1
          <5>3. Len(t) = 0 /\ Len(top.nodes) = 0
            BY <4>2, <4>5, <5>2
          <5>4. t = <<>> /\ top.nodes = <<>>
            BY <1>7, <5>3
          <5>5. QED
            BY <5>1, <5>4
        <4>7. building'[1] = N[len]
          BY <1>13, <3>1
        <4>8. building'[1].left = <<>> /\ building'[1].nodes = <<>>
          BY <1>7, <4>6, <4>7
        <4>9. QED
          BY <3>1, <4>8
      <3>2. CASE len # 1
        <4>1. 1 \in 1 .. len - 1
          BY <3>2
        <4>2. building[1].left = <<>> /\ building[1].nodes = <<>>
          BY <1>1, <1>2, <3>2 DEF PlanInv, BuildInv
        <4>3. QED
          BY <1>13, <3>2, <4>1, <4>2
      <3>3. QED
        BY <3>1, <3>2
    <2>3. CallFits(building'[len + 1], Len(targets), covers)
      BY <1>9, <1>10 DEF CallFits, InARow, ToSet
    <2>4. CallFits(building'[len], building'[len + 1].from, covers)
      BY <1>4, <1>7, <1>9, <1>10, <1>13 DEF CallFits
    <2>5. \A i \in 1 .. len - 1 : CallFits(building'[i], building'[i + 1].from, covers)
      <3>1. \A i \in 1 .. len - 1 : i + 1 \in 1 .. len - 1 \/ i + 1 = len
        OBVIOUS
      <3>2. \A i \in 1 .. len - 1 : building'[i + 1].from = building[i + 1].from
        BY <1>4, <1>7, <1>13, <3>1
      <3>3. QED
        BY <1>4, <1>13, <3>2
    <2>6. \A i \in 1 .. len + 1 : i # len + 1 => CallFits(building'[i], building'[i + 1].from, covers)
      BY <1>11, <2>4, <2>5
    <2>7. \A i \in DOMAIN building' : CallFits(building'[i], Upto(building', i, Len(targets)), covers)
      BY <1>10, <1>12, <2>3, <2>6 DEF Upto
    <2>8. QED
      BY <1>1, <1>10, <2>1, <2>2, <2>7 DEF BuildInv
  <1>16. TreeInv'
    BY <1>1 DEF PlanInv, TreeInv, NodeFits
  <1>17. PrerequisitesComeFirst' /\ SumInv'
    BY <1>1 DEF PrerequisitesComeFirst, SumInv
  <1>18. QED
    BY <1>14, <1>15, <1>16, <1>17 DEF PlanInv

\* A group is left: without nodes it disappears, else its node covers what
\* they cover in a row.
LEMMA LeaveGroupKeepsInv ==
    ASSUME PlanInv, LeaveGroup
    PROVE  PlanInv'
  <1>1. /\ step = "build" /\ Innermost.left = <<>> /\ Len(building) > 1
        /\ UNCHANGED <<toc, targets, root, graph, standing, summing, view, step>>
    BY DEF LeaveGroup
  <1>2. PICK len \in Nat \ {0} : len = Len(building)
    BY <1>1, BuildFacts
  <1>3. PICK top : top = Innermost
    OBVIOUS
  <1>4. PICK have \in Nat : have = Len(targets)
    BY <1>1, BuildFacts
  <1>5. PICK size \in Nat : size = Len(tree)
    BY <1>1, BuildFacts
  <1>6. /\ building \in Seq(BuildCall) /\ \A i \in 1 .. len : building[i] \in BuildCall
        /\ top = building[len] /\ CallFits(top, have, covers)
        /\ \A i \in 1 .. len - 1 : CallFits(building[i], building[i + 1].from, covers)
        /\ tree \in Seq(PlanNode) /\ targets \in Seq(StageTarget)
        /\ covers \in Seq([from : Nat, until : Nat]) /\ Len(covers) = size
        /\ DOMAIN tree = 1 .. size /\ DOMAIN covers = 1 .. size /\ DOMAIN targets = 1 .. have
    BY <1>1, <1>2, <1>3, <1>4, <1>5, BuildFacts
  <1>7. PICK rest \in Nat \ {0} : rest = len - 1
    BY <1>1, <1>2
  <1>8. /\ rest \in 1 .. len /\ rest + 1 = len /\ len \in 1 .. len
        /\ \A i \in 1 .. rest : i \in 1 .. len
        /\ \A i \in 1 .. rest : i = rest \/ i \in 1 .. rest - 1
        /\ \A i \in 1 .. rest - 1 : i \in 1 .. rest /\ i + 1 \in 1 .. rest /\ i # rest
    BY <1>7
  <1>9. PICK C : C = Callers
    OBVIOUS
  <1>10. /\ C \in Seq(BuildCall) /\ Len(C) = rest /\ C # <<>> /\ DOMAIN C = 1 .. rest
         /\ \A i \in 1 .. rest : C[i] = building[i]
    <2>1. PICK B : B = BuildCall
      OBVIOUS
    <2>2. building \in Seq(B) /\ building # <<>> /\ C = SubSeq(building, 1, Len(building) - 1)
      BY <1>2, <1>6, <1>9, <2>1 DEF Callers
    <2>3. C \in Seq(B) /\ Len(C) = rest /\ \A i \in 1 .. rest : C[i] = building[i]
      BY <1>2, <1>7, <2>2, CallReturns
    <2>4. QED
      BY <2>1, <2>3
  <1>11. /\ building[1].from = 0 /\ building[1].left = <<>> /\ building[1].nodes = <<>>
    BY <1>1, <1>2, <1>7 DEF PlanInv, BuildInv
  <1>12. top \in BuildCall /\ top.nodes \in Seq(Nat) /\ top.from \in Nat
    BY <1>6, <1>8, BuildCallFields
  <1>13. \A c \in 1 .. rest : ToSet(C[c].left) \subseteq DOMAIN toc
    <2>1. \A c \in 1 .. rest : c \in DOMAIN building
      BY <1>2, <1>6, <1>8
    <2>2. QED
      BY <1>10, <2>1 DEF PlanInv, PlanTypeOK
  <1>14. \A i \in 1 .. rest - 1 : CallFits(C[i], C[i + 1].from, covers)
    <2>1. \A i \in 1 .. rest - 1 : C[i] = building[i] /\ C[i + 1] = building[i + 1] /\ i \in 1 .. len - 1
      BY <1>7, <1>8, <1>10
    <2>2. QED
      BY <1>6, <2>1
  <1>15. C[rest] \in BuildCall /\ CallFits(C[rest], top.from, covers)
    <2>1. rest \in 1 .. len - 1 /\ C[rest] = building[rest] /\ building[rest + 1] = top
      BY <1>6, <1>7, <1>8, <1>10
    <2>2. QED
      BY <1>6, <1>8, <2>1
  <1>16. C[1] = building[1]
    BY <1>8, <1>10
  <1>17. CASE top.nodes = <<>>
    <2>1. building' = C /\ UNCHANGED <<tree, covers>>
      BY <1>3, <1>9, <1>17 DEF LeaveGroup
    <2>2. top.from = have
      BY <1>6, <1>17 DEF CallFits, InARow
    <2>3. PlanTypeOK'
      BY <1>1, <1>10, <1>13, <2>1 DEF PlanInv, PlanTypeOK
    <2>4. BuildInv'
      <3>1. building'[1].from = 0 /\ building'[1].left = <<>> /\ building'[1].nodes = <<>>
        BY <1>11, <1>16, <2>1
      <3>2. Len(building'[1].left) + Len(building'[1].nodes) <= 1
        BY <3>1
      <3>3. \A i \in 1 .. rest : CallFits(building'[i], Upto(building', i, have), covers)
        BY <1>8, <1>10, <1>14, <1>15, <2>1, <2>2 DEF Upto
      <3>4. QED
        BY <1>1, <1>4, <1>10, <2>1, <3>1, <3>2, <3>3 DEF BuildInv
    <2>5. TreeInv'
      BY <1>1, <2>1 DEF PlanInv, TreeInv, NodeFits
    <2>6. PrerequisitesComeFirst' /\ SumInv'
      BY <1>1 DEF PrerequisitesComeFirst, SumInv
    <2>7. QED
      BY <2>3, <2>4, <2>5, <2>6 DEF PlanInv
  <1>18. CASE top.nodes # <<>>
    <2>1. PICK type \in {"book", "group"} : type = IF Len(building) = 2 THEN "book" ELSE "group"
      OBVIOUS
    <2> DEFINE node  == [type |-> type, index |-> -1, section |-> "", module |-> "",
                         prerequisites |-> <<>>, children |-> top.nodes]
               cover == [from |-> top.from, until |-> have]
    <2>2. /\ tree' = Append(tree, node) /\ covers' = Append(covers, cover)
          /\ building' = [C EXCEPT ![Len(building) - 1].nodes = Append(@, size + 1)]
      BY <1>3, <1>4, <1>5, <1>9, <1>18, <2>1 DEF LeaveGroup
    <2>3. /\ node \in PlanNode /\ cover \in [from : Nat, until : Nat]
          /\ cover.from = top.from /\ cover.until = have
          /\ node.type # "stage" /\ node.children = top.nodes
      <3>1. type \in {"book", "group", "stage"} /\ type # "stage"
        BY <2>1
      <3>2. -1 \in Nat \cup {-1} /\ <<>> \in Seq(Names)
        OBVIOUS
      <3>3. node \in PlanNode
        BY <1>12, <3>1, <3>2, PlanAssumption DEF PlanNode
      <3>4. cover \in [from : Nat, until : Nat] /\ cover.from = top.from /\ cover.until = have
        BY <1>12
      <3>5. node.type = type /\ node.children = top.nodes
        OBVIOUS
      <3>6. QED
        BY <3>1, <3>3, <3>4, <3>5
    <2> HIDE DEF node, cover
    <2>4. /\ tree' \in Seq(PlanNode) /\ Len(tree') = size + 1 /\ DOMAIN tree' = 1 .. size + 1
          /\ tree'[size + 1] = node /\ \A n \in 1 .. size : tree'[n] = tree[n]
      <3>1. PICK N : N = PlanNode
        OBVIOUS
      <3>2. tree \in Seq(N) /\ node \in N
        BY <1>6, <2>3, <3>1
      <3>3. tree' \in Seq(N)
        BY <2>2, <3>2
      <3>4. QED
        BY <1>5, <2>2, <3>1, <3>2, <3>3
    <2>5. /\ covers' \in Seq([from : Nat, until : Nat]) /\ Len(covers') = size + 1
          /\ DOMAIN covers' = 1 .. size + 1
          /\ covers'[size + 1] = cover /\ \A n \in 1 .. size : covers'[n] = covers[n]
      <3>1. PICK D : D = [from : Nat, until : Nat]
        OBVIOUS
      <3>2. covers \in Seq(D) /\ cover \in D
        BY <1>6, <2>3, <3>1
      <3>3. covers' \in Seq(D)
        BY <2>2, <3>2
      <3>4. QED
        BY <1>6, <2>2, <3>1, <3>2, <3>3
    <2>6. PICK call : call = [C[rest] EXCEPT !.nodes = Append(C[rest].nodes, size + 1)]
      OBVIOUS
    <2>7. /\ call \in BuildCall /\ call.left = C[rest].left /\ call.from = C[rest].from
          /\ call.nodes = Append(C[rest].nodes, size + 1)
      <3>1. C[rest].nodes \in Seq(Nat)
        BY <1>15, BuildCallFields
      <3>2. Append(C[rest].nodes, size + 1) \in Seq(Nat)
        BY <3>1
      <3>3. QED
        BY <1>15, <2>6, <3>2, BuildCallFields
    <2>8. /\ building' \in Seq(BuildCall) /\ Len(building') = rest /\ DOMAIN building' = 1 .. rest
          /\ building'[rest] = call
          /\ \A i \in 1 .. rest - 1 : building'[i] = C[i]
      <3>1. PICK B : B = BuildCall
        OBVIOUS
      <3>2. building' = [C EXCEPT ![rest] = call]
        BY <1>2, <1>7, <2>2, <2>6
      <3>3. C \in Seq(B) /\ call \in B /\ C # <<>> /\ Len(C) = rest
        BY <1>10, <2>7, <3>1
      <3>4. /\ building' \in Seq(B) /\ Len(building') = rest
            /\ building'[rest] = call
            /\ \A i \in 1 .. rest - 1 : building'[i] = C[i]
        BY <3>2, <3>3, InnermostChanges
      <3>5. QED
        BY <3>1, <3>4
    <2>9. PlanTypeOK'
      <3>1. \A c \in DOMAIN building' : ToSet(building'[c].left) \subseteq DOMAIN toc
        BY <1>8, <1>13, <2>7, <2>8
      <3>2. root \in 0 .. size + 1
        BY <1>5 DEF PlanInv, PlanTypeOK
      <3>3. \A c \in DOMAIN summing : ToSet(summing[c].left) \subseteq DOMAIN tree'
        <4>1. \A c \in DOMAIN summing : ToSet(summing[c].left) \subseteq DOMAIN tree
          BY DEF PlanInv, PlanTypeOK
        <4>2. DOMAIN tree \subseteq DOMAIN tree'
          BY <1>6, <2>4
        <4>3. QED
          BY <4>1, <4>2
      <3>4. QED
        BY <1>1, <2>4, <2>5, <2>8, <3>1, <3>2, <3>3 DEF PlanInv, PlanTypeOK
    <2>10. BuildInv'
      <3>1. building'[1].from = 0 /\ building'[1].left = <<>>
        BY <1>8, <1>11, <1>16, <2>7, <2>8
      <3>2. IF rest = 1 THEN Len(building'[1].left) + Len(building'[1].nodes) <= 1
            ELSE building'[1].left = <<>> /\ building'[1].nodes = <<>>
        <4>1. CASE rest = 1
          <5>1. building'[1].nodes = Append(<<>>, size + 1)
            BY <1>11, <1>16, <2>7, <2>8, <4>1
          <5>2. Len(building'[1].nodes) = 1 /\ Len(building'[1].left) = 0
            BY <3>1, <5>1
          <5>3. QED
            BY <4>1, <5>2
        <4>2. CASE rest # 1
          <5>1. 1 \in 1 .. rest - 1
            BY <4>2
          <5>2. QED
            BY <1>11, <1>16, <2>8, <4>2, <5>1
        <4>3. QED
          BY <4>1, <4>2
      <3>3. CallFits(call, have, covers')
        <4>1. /\ size + 1 \in Nat /\ size + 1 \in DOMAIN covers'
              /\ covers'[size + 1].from = top.from /\ covers'[size + 1].until = have
              /\ DOMAIN covers \subseteq DOMAIN covers'
              /\ \A k \in DOMAIN covers : covers'[k] = covers[k]
          BY <1>6, <2>3, <2>5
        <4>2. top.from < have
          BY <1>6, <1>18 DEF CallFits
        <4>3. QED
          BY <1>12, <1>15, <2>7, <4>1, <4>2, CallTakes
      <3>4. \A i \in 1 .. rest - 1 : CallFits(building'[i], building'[i + 1].from, covers')
        <4>1. SUFFICES ASSUME NEW i \in 1 .. rest - 1
                       PROVE  CallFits(building'[i], building'[i + 1].from, covers')
          OBVIOUS
        <4>2. building'[i] = C[i] /\ building'[i + 1].from = C[i + 1].from
          <5>1. i + 1 \in 1 .. rest - 1 \/ i + 1 = rest
            BY <1>8
          <5>2. QED
            BY <2>7, <2>8, <5>1
        <4>3. C[i] \in BuildCall /\ CallFits(C[i], C[i + 1].from, covers)
          BY <1>6, <1>8, <1>10, <1>14
        <4>4. DOMAIN covers \subseteq DOMAIN covers' /\ \A k \in DOMAIN covers : covers'[k] = covers[k]
          BY <1>6, <2>5
        <4>5. CallFits(C[i], C[i + 1].from, covers')
          BY <4>3, <4>4, CallStays
        <4>6. QED
          BY <4>2, <4>5
      <3>5. \A i \in 1 .. rest : CallFits(building'[i], Upto(building', i, have), covers')
        BY <1>8, <2>8, <3>3, <3>4 DEF Upto
      <3>6. QED
        BY <1>1, <1>4, <2>8, <3>1, <3>2, <3>5 DEF BuildInv
    <2>11. TreeInv'
      <3>1. \A n \in 1 .. size : NodeFits(n)'
        <4>1. /\ Len(targets) <= Len(targets') /\ targets' \in Seq(StageTarget)
              /\ \A i \in DOMAIN targets : targets'[i] = targets[i]
          BY <1>1, <1>4, <1>6
        <4>2. \A k \in DOMAIN tree : covers'[k] = covers[k]
          BY <1>6, <2>5
        <4>3. \A n \in 1 .. size : n \in DOMAIN tree /\ tree'[n] = tree[n]
          BY <1>6, <2>4
        <4>4. QED
          BY <4>1, <4>2, <4>3, NodeStays
      <3>2. NodeFits(size + 1)'
        <4>1. PICK n : n = size + 1
          OBVIOUS
        <4>2. /\ ToSet(top.nodes) \subseteq 1 .. size
              /\ InARow(top.nodes, top.from, have, covers) /\ top.from < have
          BY <1>6, <1>18 DEF CallFits
        <4>3. \A k \in ToSet(top.nodes) : covers'[k] = covers[k]
          BY <2>5, <4>2
        <4>4. InARow(top.nodes, top.from, have, covers')
          BY <1>12, <4>2, <4>3, RowStays
        <4>5. /\ tree'[n] = node /\ covers'[n] = cover /\ n - 1 = size
          BY <2>4, <2>5, <4>1
        <4>6. /\ covers'[n].from < covers'[n].until /\ covers'[n].until <= Len(targets')
              /\ tree'[n].type # "stage" /\ tree'[n].children # <<>>
              /\ ToSet(tree'[n].children) \subseteq 1 .. n - 1
              /\ InARow(tree'[n].children, covers'[n].from, covers'[n].until, covers')
          BY <1>1, <1>4, <1>18, <2>3, <4>2, <4>4, <4>5
        <4>7. NodeFits(n)'
          BY <4>6 DEF NodeFits
        <4>8. QED
          BY <4>1, <4>7
      <3>3. \A n \in 1 .. size + 1 : n \in 1 .. size \/ n = size + 1
        OBVIOUS
      <3>4. \A n \in DOMAIN tree' : NodeFits(n)'
        BY <2>4, <3>1, <3>2, <3>3
      <3>5. step' = "build" /\ \A i \in DOMAIN targets' : targets'[i].index = i - 1
        BY <1>1 DEF PlanInv, TreeInv
      <3>6. QED
        BY <3>4, <3>5 DEF TreeInv
    <2>12. PrerequisitesComeFirst' /\ SumInv'
      BY <1>1 DEF PrerequisitesComeFirst, SumInv
    <2>13. QED
      BY <2>9, <2>10, <2>11, <2>12 DEF PlanInv
  <1>19. QED
    BY <1>17, <1>18

\* The walk is over: the node of the book covers every stage.
LEMMA BuildPlanKeepsInv ==
    ASSUME PlanInv, BuildPlan
    PROVE  PlanInv'
  <1>1. /\ step = "build" /\ Innermost.left = <<>> /\ Len(building) = 1
        /\ root' = IF Innermost.nodes = <<>> THEN 0 ELSE Head(Innermost.nodes)
        /\ targets' = IF Innermost.nodes = <<>> THEN <<>> ELSE targets
        /\ building' = <<>> /\ step' = "plan"
        /\ UNCHANGED <<toc, tree, covers, graph, standing, summing, view>>
    BY DEF BuildPlan
  <1>2. PICK top : top = Innermost
    OBVIOUS
  <1>3. PICK have \in Nat : have = Len(targets)
    BY <1>1, BuildFacts
  <1>4. PICK size \in Nat : size = Len(tree)
    BY <1>1, BuildFacts
  <1>5. /\ top = building[1] /\ top \in BuildCall /\ CallFits(top, have, covers)
        /\ top.from = 0 /\ Len(top.left) + Len(top.nodes) <= 1
        /\ targets \in Seq(StageTarget)
        /\ DOMAIN tree = 1 .. size /\ DOMAIN covers = 1 .. size
        /\ covers \in Seq([from : Nat, until : Nat])
    <2>1. top = building[1]
      BY <1>1, <1>2 DEF Innermost
    <2>2. building[1] \in BuildCall
      BY <1>1, BuildFacts
    <2>3. building[1].from = 0 /\ Len(building[1].left) + Len(building[1].nodes) <= 1
      BY <1>1 DEF PlanInv, BuildInv
    <2>4. QED
      BY <1>1, <1>2, <1>3, <1>4, <2>1, <2>2, <2>3, BuildFacts
  <1>6. top.nodes \in Seq(Nat)
    BY <1>5, BuildCallFields
  <1>7. targets' = targets
    <2>1. CASE top.nodes = <<>>
      <3>1. have = 0
        BY <1>5, <2>1 DEF CallFits, InARow
      <3>2. targets = <<>>
        <4>1. PICK S : S = StageTarget
          OBVIOUS
        <4>2. targets \in Seq(S) /\ Len(targets) = 0
          BY <1>3, <1>5, <3>1, <4>1
        <4>3. QED
          BY <4>2
      <3>3. QED
        BY <1>1, <3>2
    <2>2. CASE top.nodes # <<>>
      BY <1>1, <1>2, <2>2
    <2>3. QED
      BY <2>1, <2>2
  <1>8. /\ root' \in 0 .. size
        /\ IF root' = 0 THEN targets = <<>> ELSE covers[root'] = [from |-> 0, until |-> have]
    <2>1. CASE top.nodes = <<>>
      <3>1. root' = 0 /\ targets' = <<>>
        BY <1>1, <1>2, <2>1
      <3>2. QED
        BY <1>7, <3>1
    <2>2. CASE top.nodes # <<>>
      <3>1. PICK k : k = Head(top.nodes)
        OBVIOUS
      <3>2. root' = k
        BY <1>1, <1>2, <2>2, <3>1
      <3>3. k \in 1 .. size
        BY <1>5, <1>6, <2>2, <3>1, SetOfTail DEF CallFits
      <3>4. Len(top.nodes) = 1 /\ top.nodes[1] = k
        <4>1. PICK n \in Nat : n = Len(top.nodes)
          BY <1>6
        <4>2. Len(top.left) = 0
          BY <1>1, <1>2
        <4>3. n <= 1 /\ n # 0
          BY <1>5, <1>6, <2>2, <4>1, <4>2
        <4>4. n = 1
          BY <4>3
        <4>5. QED
          BY <1>6, <3>1, <4>1, <4>4
      <3>5. covers[k].from = 0 /\ covers[k].until = have
        BY <1>5, <2>2, <3>4 DEF CallFits, InARow
      <3>6. PICK D : D = [from : Nat, until : Nat]
        OBVIOUS
      <3>7. covers[k] \in D
        <4>1. covers \in Seq(D) /\ k \in DOMAIN covers
          BY <1>5, <3>3, <3>6
        <4>2. QED
          BY <4>1
      <3>8. covers[k] = [from |-> 0, until |-> have]
        BY <3>5, <3>6, <3>7
      <3>9. k # 0
        BY <3>3
      <3>10. QED
        BY <3>2, <3>3, <3>8, <3>9
    <2>3. QED
      BY <2>1, <2>2
  <1>9. PlanTypeOK'
    <2>1. building' \in Seq(BuildCall) /\ \A c \in DOMAIN building' : ToSet(building'[c].left) \subseteq DOMAIN toc
      BY <1>1
    <2>2. root' \in 0 .. Len(tree)
      BY <1>4, <1>8
    <2>3. QED
      BY <1>1, <1>7, <2>1, <2>2 DEF PlanInv, PlanTypeOK
  <1>10. TreeInv'
    <2>1. \A n \in DOMAIN tree' : NodeFits(n)'
      BY <1>1, <1>7 DEF PlanInv, TreeInv, NodeFits
    <2>2. \A i \in DOMAIN targets' : targets'[i].index = i - 1
      BY <1>7 DEF PlanInv, TreeInv
    <2>3. QED
      BY <1>1, <1>3, <1>7, <1>8, <2>1, <2>2 DEF TreeInv
  <1>11. BuildInv' /\ PrerequisitesComeFirst' /\ SumInv'
    BY <1>1 DEF BuildInv, PrerequisitesComeFirst, SumInv
  <1>12. QED
    BY <1>9, <1>10, <1>11 DEF PlanInv

-----------------------------------------------------------------------------
(* The prerequisites of a stage.                                           *)

\* The first of some places are all of them or as many as a stage may have, and
\* come before the others.
LEMMA FirstPlacesFields ==
    ASSUME NEW len \in Nat, NEW places, places \subseteq 1 .. len
    PROVE  /\ FirstPlaces(places) \subseteq places
           /\ Cardinality(FirstPlaces(places)) =
                  IF Cardinality(places) < MaxPrerequisites
                  THEN Cardinality(places) ELSE MaxPrerequisites
           /\ \A n \in FirstPlaces(places), m \in places \ FirstPlaces(places) : n < m
  <1> DEFINE UpTo(n) == {m \in places : m <= n}
  <1>1. IsFiniteSet(places) /\ Cardinality(places) \in Nat
    <2>1. IsFiniteSet(1 .. len)
      BY FS_Interval
    <2>2. QED
      BY <2>1, FS_Subset, FS_CardinalityType
  <1>2. \A n : /\ IsFiniteSet(UpTo(n)) /\ Cardinality(UpTo(n)) \in Nat
               /\ Cardinality(UpTo(n)) <= Cardinality(places)
    <2>1. \A n : UpTo(n) \subseteq places
      OBVIOUS
    <2>2. QED
      BY <1>1, <2>1, FS_Subset, FS_CardinalityType
  <1>3. FirstPlaces(places) = {n \in places : Cardinality(UpTo(n)) <= 3}
    BY DEF FirstPlaces, MaxPrerequisites
  <1>4. PICK c \in Nat : c = Cardinality(places)
    BY <1>1
  <1>5. CASE c < 3
    <2>1. \A n \in places : Cardinality(UpTo(n)) <= 3
      <3>1. SUFFICES ASSUME NEW n \in places
                     PROVE  Cardinality(UpTo(n)) <= 3
        OBVIOUS
      <3>2. PICK k \in Nat : k = Cardinality(UpTo(n))
        BY <1>2
      <3>3. k <= c
        BY <1>2, <1>4, <3>2
      <3>4. QED
        BY <1>5, <3>2, <3>3
    <2>2. FirstPlaces(places) = places
      BY <1>3, <2>1
    <2>3. QED
      BY <1>4, <1>5, <2>2 DEF MaxPrerequisites
  <1>6. CASE ~(c < 3)
    <2>1. 3 \in 1 .. Cardinality(places)
      BY <1>4, <1>6
    <2>2. PICK k \in places : Cardinality(UpTo(k)) = 3
      BY <2>1, NthIsOne
    <2>3. \A n \in places : n \in Nat
      <3>1. \A n \in places : n \in 1 .. len
        OBVIOUS
      <3>2. QED
        BY <3>1
    <2>4. \A n \in places : n <= k => Cardinality(UpTo(n)) <= 3
      <3>1. SUFFICES ASSUME NEW n \in places, n <= k
                     PROVE  Cardinality(UpTo(n)) <= 3
        OBVIOUS
      <3>2. UpTo(n) \subseteq UpTo(k)
        <4>1. \A m \in places : m <= n => m <= k
          BY <2>3, <3>1
        <4>2. QED
          BY <4>1
      <3>3. Cardinality(UpTo(n)) <= Cardinality(UpTo(k))
        BY <1>2, <3>2, FS_Subset
      <3>4. QED
        BY <2>2, <3>3
    <2>5. \A n \in places : Cardinality(UpTo(n)) <= 3 => n <= k
      <3>1. SUFFICES ASSUME NEW n \in places, ~(n <= k)
                     PROVE  ~(Cardinality(UpTo(n)) <= 3)
        OBVIOUS
      <3>2. UpTo(k) \cup {n} \subseteq UpTo(n)
        <4>1. \A m \in places : m <= k => m <= n
          BY <2>3, <3>1
        <4>2. n <= n
          BY <2>3
        <4>3. QED
          BY <4>1, <4>2
      <3>3. n \notin UpTo(k)
        BY <3>1
      <3>4. Cardinality(UpTo(k) \cup {n}) = Cardinality(UpTo(k)) + 1
        BY <1>2, <3>3, FS_AddElement
      <3>5. Cardinality(UpTo(k) \cup {n}) = 4
        BY <2>2, <3>4
      <3>6. 4 <= Cardinality(UpTo(n))
        BY <1>2, <3>2, <3>5, FS_Subset
      <3>7. PICK h \in Nat : h = Cardinality(UpTo(n))
        BY <1>2
      <3>8. QED
        BY <3>6, <3>7
    <2>6. FirstPlaces(places) = UpTo(k)
      BY <1>3, <2>4, <2>5
    <2>7. Cardinality(FirstPlaces(places)) = 3
      BY <2>2, <2>6
    <2>8. FirstPlaces(places) \subseteq places
      BY <2>6
    <2>9. \A n \in UpTo(k), m \in places \ UpTo(k) : n < m
      BY <2>3
    <2>10. QED
      BY <1>4, <1>6, <2>6, <2>7, <2>8, <2>9 DEF MaxPrerequisites
  <1>7. QED
    BY <1>5, <1>6

\* Stages in order, and no section twice.
Numbered(stages) == \A i \in DOMAIN stages : stages[i].index = i - 1
NoneTwice(stages) == \A i, j \in DOMAIN stages : stages[i].section = stages[j].section => i = j
Earlier(stages, i) == {stages[j].section : j \in 1 .. i - 1}

\* The requirements of a stage that count are the sections of earlier stages
\* in its list, each at one place.
LEMMA RequirementsFields ==
    ASSUME NEW stages \in Seq(StageTarget), Numbered(stages), NoneTwice(stages),
           NEW list \in Seq(Names), NEW i \in DOMAIN stages
    PROVE  LET places == Requirements(stages, list, stages[i].section)
           IN  /\ places \subseteq DOMAIN list
               /\ {list[n] : n \in places} = Earlier(stages, i) \cap ToSet(list)
               /\ \A n, m \in places : list[n] = list[m] => n = m
               /\ Cardinality(places) = Cardinality(Earlier(stages, i) \cap ToSet(list))
  <1> DEFINE places == Requirements(stages, list, stages[i].section)
             valid  == Earlier(stages, i) \cap ToSet(list)
  <1>1. PICK have \in Nat : have = Len(stages)
    OBVIOUS
  <1>2. DOMAIN stages = 1 .. have
    BY <1>1
  <1>3. PICK len \in Nat : len = Len(list)
    OBVIOUS
  <1>4. DOMAIN list = 1 .. len
    BY <1>3
  <1>5. \A j \in 1 .. have : IndexOf(stages, stages[j].section) = j - 1
    <2>1. SUFFICES ASSUME NEW j \in 1 .. have
                   PROVE  IndexOf(stages, stages[j].section) = j - 1
      OBVIOUS
    <2> DEFINE P(k) == /\ stages[k].section = stages[j].section
                       /\ \A h \in DOMAIN stages : stages[h].section = stages[j].section => h <= k
    <2>2. \A h \in DOMAIN stages : stages[h].section = stages[j].section => h <= j
      <3>1. \A h \in DOMAIN stages : stages[h].section = stages[j].section => h = j
        BY <1>2 DEF NoneTwice
      <3>2. j <= j
        OBVIOUS
      <3>3. QED
        BY <3>1, <3>2
    <2>3. j \in DOMAIN stages /\ P(j)
      BY <1>2, <2>2
    <2>4. (CHOOSE k \in DOMAIN stages : P(k)) \in DOMAIN stages /\ P(CHOOSE k \in DOMAIN stages : P(k))
      BY <2>3
    <2>5. (CHOOSE k \in DOMAIN stages : P(k)) = j
      BY <1>2, <2>4 DEF NoneTwice
    <2>6. IndexOf(stages, stages[j].section) = stages[j].index
      BY <2>5 DEF IndexOf
    <2>7. QED
      BY <1>2, <2>6 DEF Numbered
  <1>6. places = {n \in 1 .. len : /\ list[n] \in PlanSections(stages)
                                   /\ IndexOf(stages, list[n]) < IndexOf(stages, stages[i].section)
                                   /\ \A m \in 1 .. n - 1 : list[m] # list[n]}
    BY <1>4 DEF Requirements
  <1>7. IndexOf(stages, stages[i].section) = i - 1 /\ i \in 1 .. have
    BY <1>2, <1>5
  <1>8. \A s : s \in PlanSections(stages) /\ IndexOf(stages, s) < i - 1 <=> s \in Earlier(stages, i)
    <2>1. SUFFICES ASSUME NEW s
                   PROVE  s \in PlanSections(stages) /\ IndexOf(stages, s) < i - 1 <=> s \in Earlier(stages, i)
      OBVIOUS
    <2>2. ASSUME s \in PlanSections(stages), IndexOf(stages, s) < i - 1
          PROVE  s \in Earlier(stages, i)
      <3>1. PICK j \in 1 .. have : s = stages[j].section
        BY <1>2, <2>2 DEF PlanSections
      <3>2. j - 1 < i - 1
        BY <1>5, <2>2, <3>1
      <3>3. j \in 1 .. i - 1
        BY <1>7, <3>2
      <3>4. QED
        BY <3>1, <3>3 DEF Earlier
    <2>3. ASSUME s \in Earlier(stages, i)
          PROVE  s \in PlanSections(stages) /\ IndexOf(stages, s) < i - 1
      <3>1. PICK j \in 1 .. i - 1 : s = stages[j].section
        BY <2>3 DEF Earlier
      <3>2. j \in 1 .. have /\ j - 1 < i - 1
        BY <1>7
      <3>3. QED
        BY <1>2, <1>5, <3>1, <3>2 DEF PlanSections
    <2>4. QED
      BY <2>2, <2>3
  <1>9. places = {n \in 1 .. len : list[n] \in Earlier(stages, i) /\ \A m \in 1 .. n - 1 : list[m] # list[n]}
    BY <1>6, <1>7, <1>8
  <1>10. ToSet(list) = {list[n] : n \in 1 .. len}
    BY <1>4 DEF ToSet
  <1> HIDE DEF places
  <1>11. \A n, m \in places : list[n] = list[m] => n = m
    <2>1. SUFFICES ASSUME NEW n \in places, NEW m \in places, list[n] = list[m], n # m
                   PROVE  FALSE
      OBVIOUS
    <2>2. n \in 1 .. len /\ m \in 1 .. len
      BY <1>9
    <2>3. n \in 1 .. m - 1 \/ m \in 1 .. n - 1
      BY <2>1, <2>2
    <2>4. QED
      BY <1>9, <2>1, <2>3
  <1>12. \A x \in valid : \E n \in places : list[n] = x
    <2>1. SUFFICES ASSUME NEW x \in valid
                   PROVE  \E n \in places : list[n] = x
      OBVIOUS
    <2> DEFINE at == {n \in 1 .. len : list[n] = x}
    <2>2. at \subseteq Nat /\ at # {}
      <3>1. PICK n \in 1 .. len : x = list[n]
        BY <1>10
      <3>2. n \in at
        BY <3>1
      <3>3. QED
        BY <3>2
    <2>3. PICK n \in at : \A m \in at : n <= m
      BY <2>2, LeastNumber
    <2>4. n \in 1 .. len /\ list[n] = x
      BY <2>3
    <2>5. \A m \in 1 .. n - 1 : list[m] # list[n]
      <3>1. SUFFICES ASSUME NEW m \in 1 .. n - 1, list[m] = x
                     PROVE  FALSE
        BY <2>4
      <3>2. m \in 1 .. len /\ ~(n <= m)
        BY <2>4
      <3>3. QED
        BY <2>3, <3>1, <3>2
    <2>6. n \in places
      BY <1>9, <2>4, <2>5
    <2>7. QED
      BY <2>4, <2>6
  <1>13. \A n \in places : list[n] \in valid
    BY <1>9, <1>10
  <1>14. {list[n] : n \in places} = valid
    BY <1>12, <1>13
  <1>15. places \subseteq 1 .. len
    BY <1>9
  <1>16. Cardinality(places) = Cardinality(valid)
    <2>1. IsFiniteSet(places)
      <3>1. IsFiniteSet(1 .. len)
        BY FS_Interval
      <3>2. QED
        BY <1>15, <3>1, FS_Subset
    <2> DEFINE f == [n \in places |-> list[n]]
    <2> HIDE DEF valid
    <2>2. f \in Bijection(places, valid)
      <3>1. f \in [places -> valid]
        BY <1>13
      <3>2. \A a, b \in places : f[a] = f[b] => a = b
        BY <1>11
      <3>3. \A x \in valid : \E a \in places : f[a] = x
        BY <1>12
      <3>4. QED
        BY <3>1, <3>2, <3>3 DEF Bijection, Injection, Surjection, IsInjective
    <2>3. ExistsBijection(places, valid)
      BY <2>2 DEF ExistsBijection
    <2>4. QED
      BY <2>1, <2>3, FS_Bijection
  <1>17. QED
    BY <1>4, <1>11, <1>14, <1>15, <1>16 DEF places

\* What a graph gives for a section, and how that is cleaned.
Given(raw, s) == IF s \in DOMAIN raw THEN raw[s] ELSE <<>>
CleanOf(clean, earlier, given) ==
    LET valid == earlier \cap ToSet(given)
    IN  /\ ToSet(clean) \subseteq valid
        /\ IsInjective(clean)
        /\ Len(clean) = IF Cardinality(valid) < MaxPrerequisites
                        THEN Cardinality(valid) ELSE MaxPrerequisites
        /\ \A n \in DOMAIN given :
              given[n] \in valid \ ToSet(clean) =>
                  ToSet(clean) \subseteq {given[m] : m \in 1 .. n - 1}

\* What the clean graph holds for a stage.
LEMMA CleanFields ==
    ASSUME NEW stages \in Seq(StageTarget), NEW raw \in RawGraphs, NEW i \in DOMAIN stages
    PROVE  /\ NormalizePrerequisiteGraph(stages, raw)[stages[i].section] \in Seq(Names)
           /\ Numbered(stages) /\ NoneTwice(stages) =>
                 CleanOf(NormalizePrerequisiteGraph(stages, raw)[stages[i].section],
                         Earlier(stages, i), Given(raw, stages[i].section))
  <1>7. PICK given : given = Given(raw, stages[i].section)
    OBVIOUS
  <1>8. PICK clean : clean = NormalizePrerequisiteGraph(stages, raw)[stages[i].section]
    OBVIOUS
  <1> DEFINE valid == Earlier(stages, i) \cap ToSet(given)
  <1>1. PICK s : s = stages[i].section
    OBVIOUS
  <1>2. s \in PlanSections(stages)
    BY <1>1 DEF PlanSections
  <1>3. clean = IF s \in DOMAIN raw
                THEN Kept(raw[s], FirstPlaces(Requirements(stages, raw[s], s))) ELSE <<>>
    BY <1>1, <1>2, <1>8 DEF NormalizePrerequisiteGraph
  <1>4. CASE s \notin DOMAIN raw
    <2>1. clean = <<>> /\ given = <<>>
      BY <1>1, <1>3, <1>4, <1>7 DEF Given
    <2>2. valid = {} /\ DOMAIN given = {}
      BY <2>1 DEF ToSet
    <2>3. Cardinality(valid) = 0
      BY <2>2, FS_EmptySet, Zenon
    <2>4. ToSet(clean) = {} /\ IsInjective(clean) /\ Len(clean) = 0
      BY <2>1 DEF ToSet, IsInjective
    <2>5. clean \in Seq(Names)
      BY <2>1
    <2>6. CleanOf(clean, Earlier(stages, i), given)
      BY <2>2, <2>3, <2>4 DEF CleanOf, MaxPrerequisites
    <2>7. QED
      BY <1>7, <1>8, <2>5, <2>6
  <1>5. CASE s \in DOMAIN raw
    <2>1. PICK list \in Seq(Names) : list = raw[s]
      BY <1>5, PlanAssumption
    <2>2. PICK len \in Nat : len = Len(list)
      OBVIOUS
    <2>3. DOMAIN list = 1 .. len
      BY <2>2
    <2>4. PICK R : R = Requirements(stages, list, s)
      OBVIOUS
    <2>5. R \subseteq 1 .. len
      BY <2>3, <2>4 DEF Requirements
    <2>6. PICK F : F = FirstPlaces(R)
      OBVIOUS
    <2>7. /\ F \subseteq R
          /\ Cardinality(F) = IF Cardinality(R) < MaxPrerequisites
                              THEN Cardinality(R) ELSE MaxPrerequisites
          /\ \A n \in F, m \in R \ F : n < m
      BY <2>5, <2>6, FirstPlacesFields
    <2>8. clean = Kept(list, F) /\ F \subseteq DOMAIN list
      BY <1>3, <1>5, <2>1, <2>3, <2>4, <2>5, <2>6, <2>7
    <2>9. /\ clean \in Seq(Names) /\ ToSet(clean) = {list[n] : n \in F}
          /\ \A a, b \in DOMAIN clean :
                \E n, m \in F : /\ clean[a] = list[n] /\ clean[b] = list[m]
                                /\ (n = m => a = b)
      BY <2>8, KeptFields
    <2>10. ASSUME Numbered(stages), NoneTwice(stages)
           PROVE  CleanOf(clean, Earlier(stages, i), given)
      <3>1. given = list
        BY <1>1, <1>5, <1>7, <2>1 DEF Given
      <3>2. /\ {list[n] : n \in R} = Earlier(stages, i) \cap ToSet(list)
            /\ \A n, m \in R : list[n] = list[m] => n = m
            /\ Cardinality(R) = Cardinality(Earlier(stages, i) \cap ToSet(list))
        BY <1>1, <2>4, <2>10, RequirementsFields, Zenon
      <3>3. ToSet(clean) \subseteq valid
        <4>1. {list[n] : n \in F} \subseteq {list[n] : n \in R}
          BY <2>7
        <4>2. {list[n] : n \in R} = valid
          BY <3>1, <3>2
        <4>3. QED
          BY <2>9, <4>1, <4>2, Zenon
      <3>4. IsInjective(clean)
        <4>1. SUFFICES ASSUME NEW a \in DOMAIN clean, NEW b \in DOMAIN clean, clean[a] = clean[b]
                       PROVE  a = b
          BY DEF IsInjective
        <4>2. PICK n \in F, m \in F : clean[a] = list[n] /\ clean[b] = list[m] /\ (n = m => a = b)
          BY <2>9
        <4>3. n \in R /\ m \in R /\ list[n] = list[m]
          BY <2>7, <4>1, <4>2
        <4>4. QED
          BY <3>2, <4>2, <4>3
      <3>5. Cardinality(R) = Cardinality(valid)
        BY <3>1, <3>2
      <3>6. Cardinality(F) \in Nat
        <4>1. IsFiniteSet(1 .. len)
          BY FS_Interval
        <4>2. F \subseteq 1 .. len
          BY <2>5, <2>7
        <4>3. QED
          BY <4>1, <4>2, FS_Subset, FS_CardinalityType
      <3>7. Len(clean) = Cardinality(F)
        <4>1. clean = [n \in 1 .. Cardinality(F) |-> list[Nth(F, n)]]
          BY <2>8 DEF Kept
        <4>2. PICK c \in Nat : c = Cardinality(F)
          BY <3>6
        <4>3. DOMAIN clean = 1 .. c
          BY <4>1, <4>2
        <4>4. Len(clean) = c
          BY <2>9, <4>3
        <4>5. QED
          BY <4>2, <4>4
      <3>8. ASSUME NEW n \in 1 .. len, list[n] \in valid \ ToSet(clean)
            PROVE  ToSet(clean) \subseteq {list[m] : m \in 1 .. n - 1}
        <4>1. PICK q \in R : list[q] = list[n]
          BY <3>1, <3>2, <3>8
        <4>2. q \in R \ F
          BY <2>9, <3>8, <4>1
        <4>3. \A m \in 1 .. q - 1 : list[m] # list[q]
          BY <2>4 DEF Requirements
        <4>4. q \in 1 .. len /\ q <= n
          BY <2>5, <4>1, <4>3
        <4>5. \A p \in F : p \in 1 .. n - 1
          BY <2>5, <2>7, <4>2, <4>4
        <4>6. QED
          BY <2>9, <4>5
      <3>9. QED
        BY <2>3, <2>7, <3>1, <3>3, <3>4, <3>5, <3>7, <3>8 DEF CleanOf
    <2>11. QED
      BY <1>7, <1>8, <2>9, <2>10
  <1>6. QED
    BY <1>4, <1>5

\* The prerequisites of the list and of the tree come from one clean graph.
LEMMA ApplyGraphKeepsInv ==
    ASSUME PlanInv, ApplyGraph
    PROVE  PlanInv'
  <1>1. PICK raw \in RawGraphs :
            LET clean == NormalizePrerequisiteGraph(targets, raw)
            IN  /\ graph' = raw
                /\ targets' = [i \in DOMAIN targets |->
                                  [targets[i] EXCEPT !.prerequisites = clean[targets[i].section]]]
                /\ tree' = [n \in DOMAIN tree |->
                                  IF tree[n].type = "stage"
                                  THEN [tree[n] EXCEPT !.prerequisites = clean[tree[n].section]]
                                  ELSE tree[n]]
    BY DEF ApplyGraph
  <1>20. raw \in RawGraphs /\ targets \in Seq(StageTarget)
    BY <1>1 DEF PlanInv, PlanTypeOK
  <1>2. /\ step = "plan" /\ step' = "graph"
        /\ UNCHANGED <<toc, building, root, covers, standing, summing, view>>
    BY DEF ApplyGraph
  <1>3. PICK clean : clean = NormalizePrerequisiteGraph(targets, raw)
    OBVIOUS
  <1>4. /\ graph' = raw
        /\ targets' = [i \in DOMAIN targets |->
                          [targets[i] EXCEPT !.prerequisites = clean[targets[i].section]]]
        /\ tree' = [n \in DOMAIN tree |->
                          IF tree[n].type = "stage"
                          THEN [tree[n] EXCEPT !.prerequisites = clean[tree[n].section]]
                          ELSE tree[n]]
    BY <1>1, <1>3
  <1>5. /\ targets \in Seq(StageTarget) /\ tree \in Seq(PlanNode)
        /\ covers \in Seq([from : Nat, until : Nat]) /\ Len(covers) = Len(tree)
        /\ root \in 0 .. Len(tree)
    BY DEF PlanInv, PlanTypeOK
  <1>6. PICK have \in Nat : have = Len(targets)
    BY <1>5
  <1>7. PICK size \in Nat : size = Len(tree)
    BY <1>5
  <1>8. DOMAIN targets = 1 .. have /\ DOMAIN tree = 1 .. size
    BY <1>5, <1>6, <1>7
  <1>9. /\ \A i \in 1 .. have : targets[i].index = i - 1
        /\ \A n \in 1 .. size : NodeFits(n)
        /\ IF root = 0 THEN targets = <<>> ELSE covers[root] = [from |-> 0, until |-> have]
    BY <1>2, <1>6, <1>8 DEF PlanInv, TreeInv
  <1>10. \A i \in 1 .. have : targets[i] \in StageTarget /\ clean[targets[i].section] \in Seq(Names)
    <2>1. \A i \in 1 .. have : targets[i] \in StageTarget
      <3>1. PICK S : S = StageTarget
        OBVIOUS
      <3>2. targets \in Seq(S) /\ DOMAIN targets = 1 .. have
        BY <1>5, <1>8, <3>1
      <3>3. QED
        BY <3>1, <3>2
    <2>2. SUFFICES ASSUME NEW i \in 1 .. have
                   PROVE  clean[targets[i].section] \in Seq(Names)
      BY <2>1
    <2>3. i \in DOMAIN targets
      BY <1>8
    <2>4. QED
      BY <1>3, <1>20, <2>3, CleanFields
  <1>11. /\ targets' \in Seq(StageTarget) /\ Len(targets') = have
         /\ DOMAIN targets' = 1 .. have
         /\ \A i \in 1 .. have : /\ targets'[i].index = targets[i].index
                                 /\ targets'[i].section = targets[i].section
                                 /\ targets'[i].module = targets[i].module
                                 /\ targets'[i].prerequisites = clean[targets[i].section]
    <2>1. \A i \in 1 .. have : [targets[i] EXCEPT !.prerequisites = clean[targets[i].section]] \in StageTarget
      BY <1>10 DEF StageTarget
    <2>2. PICK S : S = StageTarget
      OBVIOUS
    <2>3. targets' \in Seq(S) /\ Len(targets') = have
      BY <1>4, <1>8, <2>1, <2>2
    <2>4. DOMAIN targets' = 1 .. have
      BY <1>4, <1>8
    <2>5. \A i \in 1 .. have : targets'[i] = [targets[i] EXCEPT !.prerequisites = clean[targets[i].section]]
      BY <1>4, <1>8
    <2>6. \A i \in 1 .. have : /\ targets'[i].index = targets[i].index
                               /\ targets'[i].section = targets[i].section
                               /\ targets'[i].module = targets[i].module
                               /\ targets'[i].prerequisites = clean[targets[i].section]
      <3>1. SUFFICES ASSUME NEW i \in 1 .. have
                     PROVE  /\ targets'[i].index = targets[i].index
                            /\ targets'[i].section = targets[i].section
                            /\ targets'[i].module = targets[i].module
                            /\ targets'[i].prerequisites = clean[targets[i].section]
        OBVIOUS
      <3>2. PICK target \in StageTarget : target = targets[i]
        BY <1>10
      <3>3. PICK required : required = clean[targets[i].section]
        OBVIOUS
      <3>4. targets'[i] = [target EXCEPT !.prerequisites = required]
        BY <2>5, <3>2, <3>3
      <3>5. QED
        BY <3>2, <3>3, <3>4 DEF StageTarget
    <2>7. QED
      BY <2>2, <2>3, <2>4, <2>6
  <1>12. \A n \in 1 .. size :
            /\ covers[n].from \in Nat /\ covers[n].until \in Nat
            /\ tree[n] \in PlanNode
    <2>1. PICK C : C = [from : Nat, until : Nat]
      OBVIOUS
    <2>2. \A n \in 1 .. size : covers[n] \in C /\ tree[n] \in PlanNode
      <3>1. PICK N : N = PlanNode
        OBVIOUS
      <3>2. covers \in Seq(C) /\ tree \in Seq(N) /\ Len(covers) = size /\ Len(tree) = size
        BY <1>5, <1>7, <2>1, <3>1
      <3>3. \A n \in 1 .. size : covers[n] \in C /\ tree[n] \in N
        BY <3>2
      <3>4. QED
        BY <3>1, <3>3
    <2>3. QED
      BY <2>1, <2>2
  <1>13. \A n \in 1 .. size : tree[n].type = "stage" =>
            /\ tree[n].index + 1 \in 1 .. have
            /\ covers[n] = [from |-> tree[n].index, until |-> tree[n].index + 1]
            /\ tree[n].section = targets[tree[n].index + 1].section
            /\ tree[n].module = targets[tree[n].index + 1].module
            /\ tree[n].children = <<>>
    <2>1. SUFFICES ASSUME NEW n \in 1 .. size, tree[n].type = "stage"
                   PROVE  /\ tree[n].index + 1 \in 1 .. have
                          /\ covers[n] = [from |-> tree[n].index, until |-> tree[n].index + 1]
                          /\ tree[n].section = targets[tree[n].index + 1].section
                          /\ tree[n].module = targets[tree[n].index + 1].module
                          /\ tree[n].children = <<>>
      OBVIOUS
    <2>2. /\ covers[n] = [from |-> tree[n].index, until |-> tree[n].index + 1]
          /\ tree[n].section = targets[tree[n].index + 1].section
          /\ tree[n].module = targets[tree[n].index + 1].module
          /\ tree[n].children = <<>> /\ covers[n].until <= have
      BY <1>6, <1>9, <2>1 DEF NodeFits
    <2>3. covers[n].from = tree[n].index /\ covers[n].until = tree[n].index + 1
      BY <2>2
    <2>4. tree[n].index \in Nat /\ tree[n].index + 1 <= have
      BY <1>12, <2>2, <2>3
    <2>5. QED
      BY <2>2, <2>4
  <1>14. /\ tree' \in Seq(PlanNode) /\ Len(tree') = size /\ DOMAIN tree' = 1 .. size
         /\ \A n \in 1 .. size : /\ tree'[n].type = tree[n].type
                                 /\ tree'[n].children = tree[n].children
                                 /\ tree'[n].index = tree[n].index
                                 /\ tree'[n].section = tree[n].section
                                 /\ tree'[n].module = tree[n].module
                                 /\ tree[n].type = "stage" =>
                                       tree'[n].prerequisites = clean[tree[n].section]
    <2>1. \A n \in 1 .. size : tree[n].type = "stage" => clean[tree[n].section] \in Seq(Names)
      BY <1>10, <1>13
    <2>2. \A n \in 1 .. size :
             tree'[n] = IF tree[n].type = "stage"
                        THEN [tree[n] EXCEPT !.prerequisites = clean[tree[n].section]] ELSE tree[n]
      BY <1>4, <1>8
    <2>3. \A n \in 1 .. size : /\ tree'[n] \in PlanNode
                               /\ tree'[n].type = tree[n].type
                               /\ tree'[n].children = tree[n].children
                               /\ tree'[n].index = tree[n].index
                               /\ tree'[n].section = tree[n].section
                               /\ tree'[n].module = tree[n].module
                               /\ tree[n].type = "stage" =>
                                     tree'[n].prerequisites = clean[tree[n].section]
      <3>1. SUFFICES ASSUME NEW n \in 1 .. size
                     PROVE  /\ tree'[n] \in PlanNode
                            /\ tree'[n].type = tree[n].type
                            /\ tree'[n].children = tree[n].children
                            /\ tree'[n].index = tree[n].index
                            /\ tree'[n].section = tree[n].section
                            /\ tree'[n].module = tree[n].module
                            /\ tree[n].type = "stage" =>
                                  tree'[n].prerequisites = clean[tree[n].section]
        OBVIOUS
      <3>2. PICK node \in PlanNode : node = tree[n]
        BY <1>12
      <3>3. CASE node.type = "stage"
        <4>1. PICK required \in Seq(Names) : required = clean[node.section]
          BY <2>1, <3>2, <3>3
        <4>2. tree'[n] = [node EXCEPT !.prerequisites = required]
          BY <2>2, <3>2, <3>3, <4>1
        <4>3. QED
          BY <3>2, <4>1, <4>2 DEF PlanNode
      <3>4. CASE node.type # "stage"
        BY <2>2, <3>2, <3>4
      <3>5. QED
        BY <3>3, <3>4
    <2>4. PICK N : N = PlanNode
      OBVIOUS
    <2>5. tree' = [n \in 1 .. size |-> tree'[n]]
      BY <1>4, <1>8
    <2>6. \A n \in 1 .. size : tree'[n] \in N
      BY <2>3, <2>4
    <2>7. tree' \in Seq(N) /\ Len(tree') = size /\ DOMAIN tree' = 1 .. size
      BY <2>5, <2>6
    <2>8. QED
      BY <2>3, <2>4, <2>7
  <1>15. PlanTypeOK'
    <2>1. \A s \in DOMAIN graph' : graph'[s] \in Seq(Names)
      BY <1>4, PlanAssumption
    <2>2. \A c \in DOMAIN summing : ToSet(summing[c].left) \subseteq DOMAIN tree'
      BY <1>8, <1>14 DEF PlanInv, PlanTypeOK
    <2>3. root \in 0 .. Len(tree') /\ Len(covers) = Len(tree')
      BY <1>5, <1>7, <1>14
    <2>4. QED
      BY <1>2, <1>5, <1>11, <1>14, <2>1, <2>2, <2>3 DEF PlanInv, PlanTypeOK
  <1>16. TreeInv'
    <2>1. \A i \in DOMAIN targets' : targets'[i].index = i - 1
      BY <1>9, <1>11
    <2>2. \A n \in 1 .. size : NodeFits(n)'
      <3>1. SUFFICES ASSUME NEW n \in 1 .. size
                     PROVE  NodeFits(n)'
        OBVIOUS
      <3>2. covers[n].from < covers[n].until /\ covers[n].until <= have
        BY <1>6, <1>9 DEF NodeFits
      <3>3. CASE tree[n].type = "stage"
        <4>1. PICK i \in 1 .. have : i = tree[n].index + 1
          BY <1>13, <3>3
        <4>2. /\ covers[n] = [from |-> tree[n].index, until |-> i]
              /\ tree[n].section = targets[i].section /\ tree[n].module = targets[i].module
              /\ tree[n].children = <<>>
          BY <1>13, <3>3, <4>1
        <4>3. /\ tree'[n].section = targets'[i].section /\ tree'[n].module = targets'[i].module
              /\ tree'[n].prerequisites = targets'[i].prerequisites
              /\ tree'[n].index + 1 = i /\ tree'[n].type = "stage" /\ tree'[n].children = <<>>
              /\ covers'[n] = [from |-> tree'[n].index, until |-> tree'[n].index + 1]
          BY <1>2, <1>11, <1>14, <3>3, <4>1, <4>2
        <4>4. covers'[n].from < covers'[n].until /\ covers'[n].until <= Len(targets')
          BY <1>2, <1>11, <3>2
        <4>5. QED
          BY <4>3, <4>4 DEF NodeFits
      <3>4. CASE tree[n].type # "stage"
        <4>1. /\ tree[n].children # <<>> /\ ToSet(tree[n].children) \subseteq 1 .. n - 1
              /\ InARow(tree[n].children, covers[n].from, covers[n].until, covers)
          BY <1>9, <3>4 DEF NodeFits
        <4>2. covers'[n].from < covers'[n].until /\ covers'[n].until <= Len(targets')
          BY <1>2, <1>11, <3>2
        <4>3. /\ tree'[n].type # "stage" /\ tree'[n].children # <<>>
              /\ ToSet(tree'[n].children) \subseteq 1 .. n - 1
              /\ InARow(tree'[n].children, covers'[n].from, covers'[n].until, covers')
          BY <1>2, <1>14, <3>4, <4>1
        <4>4. QED
          BY <4>2, <4>3 DEF NodeFits
      <3>5. QED
        BY <3>3, <3>4
    <2>3. IF root = 0 THEN targets' = <<>> ELSE covers[root] = [from |-> 0, until |-> Len(targets')]
      <3>1. CASE root = 0
        <4>1. targets = <<>>
          BY <1>9, <3>1
        <4>2. have = 0
          BY <1>6, <4>1
        <4>3. PICK S : S = StageTarget
          OBVIOUS
        <4>4. targets' \in Seq(S) /\ Len(targets') = 0
          BY <1>11, <4>2, <4>3
        <4>5. targets' = <<>>
          BY <4>4
        <4>6. QED
          BY <3>1, <4>5
      <3>2. CASE root # 0
        BY <1>9, <1>11, <3>2
      <3>3. QED
        BY <3>1, <3>2
    <2>4. QED
      BY <1>2, <1>14, <2>1, <2>2, <2>3 DEF TreeInv
  <1>17. PrerequisitesComeFirst'
    <2> DEFINE given(i) == IF targets'[i].section \in DOMAIN graph'
                           THEN graph'[targets'[i].section] ELSE <<>>
    <2>1. (DistinctSections' => \A i \in DOMAIN targets' :
              CleanOf(targets'[i].prerequisites, {targets'[j].section : j \in 1 .. i - 1}, given(i)))
          => PrerequisitesComeFirst'
      BY Zenon DEF PrerequisitesComeFirst, CleanOf
    <2>2. SUFFICES ASSUME DistinctSections', NEW i \in 1 .. have
                   PROVE  CleanOf(targets'[i].prerequisites, {targets'[j].section : j \in 1 .. i - 1}, given(i))
      BY <1>11, <2>1
    <2>3. NoneTwice(targets) /\ Numbered(targets)
      BY <1>8, <1>9, <1>11, <2>2 DEF NoneTwice, Numbered, DistinctSections
    <2>4. {targets'[j].section : j \in 1 .. i - 1} = Earlier(targets, i)
      <3>1. \A j \in 1 .. i - 1 : targets'[j].section = targets[j].section
        BY <1>11
      <3>2. QED
        BY <3>1 DEF Earlier
    <2>5. Given(raw, targets[i].section) = given(i)
      BY <1>4, <1>11 DEF Given
    <2>6. i \in DOMAIN targets
      BY <1>8
    <2>7. CleanOf(clean[targets[i].section], Earlier(targets, i), Given(raw, targets[i].section))
      BY <1>3, <1>20, <2>3, <2>6, CleanFields
    <2>8. targets'[i].prerequisites = clean[targets[i].section]
      BY <1>11
    <2>9. QED
      BY <2>4, <2>5, <2>7, <2>8
  <1>18. BuildInv' /\ SumInv'
    BY <1>2 DEF BuildInv, SumInv
  <1>19. QED
    BY <1>15, <1>16, <1>17, <1>18 DEF PlanInv

-----------------------------------------------------------------------------
(* The walk that annotates the plan.                                       *)

\* The fields of a call of it.
LEMMA SumCallFields ==
    ASSUME NEW call \in SumCall
    PROVE  /\ call.node \in Nat /\ call.left \in Seq(Nat) /\ call.total \in Nat
           /\ call.completed \in Nat /\ call.branch \in {0, 1}
           /\ \A left \in Seq(Nat) :
                 /\ [call EXCEPT !.left = left] \in SumCall
                 /\ [call EXCEPT !.left = left].left = left
                 /\ [call EXCEPT !.left = left].node = call.node
                 /\ [call EXCEPT !.left = left].total = call.total
                 /\ [call EXCEPT !.left = left].completed = call.completed
                 /\ [call EXCEPT !.left = left].branch = call.branch
  BY DEF SumCall

\* The fields of a call to which a child was added.
LEMMA AddedFields ==
    ASSUME NEW call \in SumCall, NEW total \in Nat, NEW completed \in Nat, NEW branch \in {0, 1}
    PROVE  /\ Added(call, total, completed, branch) \in SumCall
           /\ Added(call, total, completed, branch).node = call.node
           /\ Added(call, total, completed, branch).left = call.left
           /\ Added(call, total, completed, branch).total = call.total + total
           /\ Added(call, total, completed, branch).completed = call.completed + completed
           /\ Added(call, total, completed, branch).branch = 1 <=> call.branch = 1 \/ branch = 1
  <1>1. PICK b \in {0, 1} : b = IF branch = 1 THEN 1 ELSE call.branch
    BY SumCallFields
  <1>2. Added(call, total, completed, branch) =
          [node |-> call.node, left |-> call.left, total |-> call.total + total,
           completed |-> call.completed + completed, branch |-> b]
    BY <1>1 DEF Added
  <1>3. call.total + total \in Nat /\ call.completed + completed \in Nat
    BY SumCallFields
  <1>4. b = 1 <=> call.branch = 1 \/ branch = 1
    BY <1>1
  <1>5. QED
    BY <1>2, <1>3, <1>4, SumCallFields DEF SumCall

\* The entry of a node changes.
LEMMA EntryChanges ==
    ASSUME NEW B, NEW s \in Seq(B), NEW k \in DOMAIN s, NEW e \in B,
           NEW after, after = [s EXCEPT ![k] = e]
    PROVE  /\ after \in Seq(B) /\ Len(after) = Len(s) /\ after[k] = e
           /\ \A n \in DOMAIN s : n # k => after[n] = s[n]
  <1>1. PICK len \in Nat : len = Len(s)
    OBVIOUS
  <1>2. DOMAIN s = 1 .. len
    BY <1>1
  <1>3. after = [i \in 1 .. len |-> IF i = k THEN e ELSE s[i]]
    BY <1>2
  <1>4. \A i \in 1 .. len : (IF i = k THEN e ELSE s[i]) \in B
    BY <1>1
  <1>5. after \in Seq(B) /\ Len(after) = len
    BY <1>3, <1>4
  <1>6. QED
    BY <1>1, <1>2, <1>3, <1>5

\* Of a stretch of stages, those completed.
LEMMA DoneOfStretch ==
    ASSUME standing.count \in Nat, NEW from \in Nat, NEW until \in Nat, from < until
    PROVE  /\ DoneBefore(from) \in Nat /\ DoneBefore(until) \in Nat
           /\ DoneBefore(until) - DoneBefore(from) \in Nat
           /\ DoneBefore(until) - DoneBefore(from) = until - from <=> standing.count >= until
           /\ until = from + 1 =>
                 DoneBefore(until) - DoneBefore(from) = IF from < standing.count THEN 1 ELSE 0
  BY DEF DoneBefore

\* What PrerequisitesComeFirst says of a list of stages and a graph.
Prerequired(stages, raw) ==
    NoneTwice(stages) =>
        \A i \in DOMAIN stages :
            CleanOf(stages[i].prerequisites, Earlier(stages, i), Given(raw, stages[i].section))

\* What does not change while a plan is annotated.
LEMMA RestStays ==
    ASSUME PlanInv, step \in {"graph", "annotate"}, step' \in {"annotate", "view"},
           UNCHANGED <<toc, building, targets, tree, root, covers, graph>>
    PROVE  BuildInv' /\ TreeInv' /\ PrerequisitesComeFirst'
  <1>1. BuildInv'
    BY DEF BuildInv
  <1>2. TreeInv'
    <2>1. \A i \in DOMAIN targets' : targets'[i].index = i - 1
      BY DEF PlanInv, TreeInv
    <2>2. \A n \in DOMAIN tree' : NodeFits(n)'
      BY DEF PlanInv, TreeInv, NodeFits
    <2>3. IF root = 0 THEN targets = <<>> ELSE covers[root] = [from |-> 0, until |-> Len(targets)]
      BY DEF PlanInv, TreeInv
    <2>4. QED
      BY <2>1, <2>2, <2>3 DEF TreeInv
  <1>3. PrerequisitesComeFirst'
    <2>1. (step = "graph" \/ step = "annotate") => step \in {"graph", "annotate", "view"}
      OBVIOUS
    <2>2. targets' = targets /\ graph' = graph
      OBVIOUS
    <2>3. PrerequisitesComeFirst
      BY DEF PlanInv
    <2>4. Prerequired(targets, graph)
      BY <2>1, <2>3, Zenon DEF PrerequisitesComeFirst, DistinctSections, Prerequired,
        NoneTwice, CleanOf, Earlier, Given
    <2>5. Prerequired(targets', graph')
      BY <2>2, <2>4
    <2>6. QED
      BY <2>5, Zenon DEF PrerequisitesComeFirst, DistinctSections, Prerequired,
        NoneTwice, CleanOf, Earlier, Given
  <1>4. QED
    BY <1>1, <1>2, <1>3

\* What the plan is once it is built.
LEMMA TreeFacts ==
    ASSUME PlanInv
    PROVE  /\ tree \in Seq(PlanNode) /\ Len(tree) \in Nat /\ DOMAIN tree = 1 .. Len(tree)
           /\ Len(targets) \in Nat
           /\ \A n \in DOMAIN tree :
                 /\ covers[n].from \in Nat /\ covers[n].until \in Nat
                 /\ covers[n].from < covers[n].until
                 /\ covers[n].until <= Len(targets)
                 /\ tree[n].children \in Seq(Nat) /\ ToSet(tree[n].children) \subseteq DOMAIN tree
                 /\ tree[n].type = "stage" =>
                       /\ covers[n].from = tree[n].index /\ covers[n].until = tree[n].index + 1
                       /\ tree[n].children = <<>>
                 /\ tree[n].type # "stage" =>
                       InARow(tree[n].children, covers[n].from, covers[n].until, covers)
           /\ step # "build" /\ root # 0 =>
                 /\ root \in DOMAIN tree
                 /\ covers[root].from = 0 /\ covers[root].until = Len(targets)
  <1>1. /\ tree \in Seq(PlanNode) /\ targets \in Seq(StageTarget)
        /\ covers \in Seq([from : Nat, until : Nat]) /\ Len(covers) = Len(tree)
        /\ root \in 0 .. Len(tree)
    BY DEF PlanInv, PlanTypeOK
  <1>2. PICK size \in Nat : size = Len(tree)
    BY <1>1
  <1>3. PICK have \in Nat : have = Len(targets)
    BY <1>1
  <1>4. DOMAIN tree = 1 .. size
    BY <1>1, <1>2
  <1>5. \A n \in 1 .. size : covers[n].from \in Nat /\ covers[n].until \in Nat
    <2>1. PICK C : C = [from : Nat, until : Nat]
      OBVIOUS
    <2>2. covers \in Seq(C) /\ Len(covers) = size
      BY <1>1, <1>2, <2>1
    <2>3. \A n \in 1 .. size : covers[n] \in C
      BY <2>2
    <2>4. QED
      BY <2>1, <2>3
  <1>6. \A n \in 1 .. size : tree[n].children \in Seq(Nat)
    <2>1. PICK N : N = PlanNode
      OBVIOUS
    <2>2. tree \in Seq(N)
      BY <1>1, <2>1
    <2>3. \A n \in 1 .. size : tree[n] \in N
      BY <1>2, <2>2
    <2>4. QED
      BY <2>1, <2>3 DEF PlanNode
  <1>7. \A n \in 1 .. size : NodeFits(n)
    BY <1>4 DEF PlanInv, TreeInv
  <1>8. \A n \in 1 .. size :
           /\ covers[n].from < covers[n].until /\ covers[n].until <= have
           /\ tree[n].type = "stage" =>
                 /\ covers[n].from = tree[n].index /\ covers[n].until = tree[n].index + 1
                 /\ tree[n].children = <<>>
           /\ tree[n].type # "stage" =>
                 /\ ToSet(tree[n].children) \subseteq 1 .. n - 1
                 /\ InARow(tree[n].children, covers[n].from, covers[n].until, covers)
    <2>1. SUFFICES ASSUME NEW n \in 1 .. size
                   PROVE  /\ covers[n].from < covers[n].until /\ covers[n].until <= have
                          /\ tree[n].type = "stage" =>
                                /\ covers[n].from = tree[n].index /\ covers[n].until = tree[n].index + 1
                                /\ tree[n].children = <<>>
                          /\ tree[n].type # "stage" =>
                                /\ ToSet(tree[n].children) \subseteq 1 .. n - 1
                                /\ InARow(tree[n].children, covers[n].from, covers[n].until, covers)
      OBVIOUS
    <2>2. covers[n].from < covers[n].until /\ covers[n].until <= have
      BY <1>3, <1>7 DEF NodeFits
    <2>3. CASE tree[n].type = "stage"
      <3>1. /\ covers[n] = [from |-> tree[n].index, until |-> tree[n].index + 1]
            /\ tree[n].children = <<>>
        BY <1>7, <2>3 DEF NodeFits
      <3>2. QED
        BY <2>2, <2>3, <3>1
    <2>4. CASE tree[n].type # "stage"
      BY <1>7, <2>2, <2>4 DEF NodeFits
    <2>5. QED
      BY <2>3, <2>4
  <1>9. \A n \in 1 .. size : ToSet(tree[n].children) \subseteq 1 .. size
    <2>1. SUFFICES ASSUME NEW n \in 1 .. size
                   PROVE  ToSet(tree[n].children) \subseteq 1 .. size
      OBVIOUS
    <2>2. CASE tree[n].type = "stage"
      <3>1. tree[n].children = <<>>
        BY <1>8, <2>2
      <3>2. QED
        BY <3>1 DEF ToSet
    <2>3. CASE tree[n].type # "stage"
      <3>1. \A k \in 1 .. n - 1 : k \in 1 .. size
        OBVIOUS
      <3>2. QED
        BY <1>8, <2>3, <3>1
    <2>4. QED
      BY <2>2, <2>3
  <1>10. step # "build" /\ root # 0 =>
            /\ root \in 1 .. size
            /\ covers[root].from = 0 /\ covers[root].until = have
    <2>1. SUFFICES ASSUME step # "build", root # 0
                   PROVE  /\ root \in 1 .. size
                          /\ covers[root].from = 0 /\ covers[root].until = have
      OBVIOUS
    <2>2. covers[root] = [from |-> 0, until |-> have]
      BY <1>3, <2>1 DEF PlanInv, TreeInv
    <2>3. QED
      BY <1>1, <1>2, <2>1, <2>2
  <1>11. QED
    BY <1>1, <1>2, <1>3, <1>4, <1>5, <1>6, <1>8, <1>9, <1>10

\* Where the calls of the walk stand, and the stretch one of them covers.
LEMMA SumFacts ==
    ASSUME PlanInv, step = "annotate"
    PROVE  /\ summing \in Seq(SumCall) /\ Len(summing) \in Nat \ {0}
           /\ Sums = summing[Len(summing)]
           /\ summing[1].node = 0 /\ root # 0
           /\ view \in Seq(ShownNode) /\ Len(view) = Len(tree) /\ DOMAIN view = DOMAIN tree
           /\ standing.count \in Nat
           /\ \A n \in DOMAIN tree : ShownFits(n)
           /\ \A i \in 1 .. Len(summing) :
                 /\ summing[i] \in SumCall
                 /\ ToSet(summing[i].left) \subseteq DOMAIN tree
                 /\ i # 1 => /\ summing[i].node \in DOMAIN tree
                             /\ tree[summing[i].node].type # "stage"
                 /\ SumFits(summing[i]) /\ LeftFits(summing, i) /\ ChildrenShown(summing, i, view)
                 /\ CoversFrom(summing[i]) \in Nat /\ CoversUntil(summing[i]) \in Nat
                 /\ CoversFrom(summing[i]) <= CoversUntil(summing[i])
                 /\ Children(summing[i]) \subseteq DOMAIN tree
  <1>1. PICK S : S = SumCall
    OBVIOUS
  <1>2. summing \in Seq(S) /\ summing # <<>>
    BY <1>1 DEF PlanInv, PlanTypeOK, SumInv
  <1>3. PICK len \in Nat : len = Len(summing)
    BY <1>2
  <1>4. len # 0 /\ DOMAIN summing = 1 .. len /\ \A i \in 1 .. len : summing[i] \in S
    BY <1>2, <1>3
  <1>5. /\ summing[1].node = 0 /\ root # 0 /\ Len(view) = Len(tree)
        /\ \A n \in DOMAIN tree : ShownFits(n)
        /\ \A i \in 2 .. len : /\ summing[i].node \in DOMAIN tree
                               /\ tree[summing[i].node].type # "stage"
        /\ \A i \in 1 .. len : /\ SumFits(summing[i])
                               /\ LeftFits(summing, i)
                               /\ ChildrenShown(summing, i, view)
    BY <1>3, <1>4 DEF PlanInv, SumInv
  <1>6. \A i \in 1 .. len : ToSet(summing[i].left) \subseteq DOMAIN tree
    BY <1>4 DEF PlanInv, PlanTypeOK
  <1>7. /\ view \in Seq(ShownNode) /\ standing.count \in Nat
        /\ tree \in Seq(PlanNode) /\ Len(tree) \in Nat
    BY DEF PlanInv, PlanTypeOK
  <1>8. DOMAIN view = DOMAIN tree
    BY <1>5, <1>7
  <1>9. Sums = summing[len]
    BY <1>3 DEF Sums
  <1>10. \A i \in 1 .. len : i # 1 => i \in 2 .. len
    OBVIOUS
  <1>11. \A i \in 1 .. len :
            /\ CoversFrom(summing[i]) \in Nat /\ CoversUntil(summing[i]) \in Nat
            /\ CoversFrom(summing[i]) <= CoversUntil(summing[i])
            /\ Children(summing[i]) \subseteq DOMAIN tree
    <2>1. SUFFICES ASSUME NEW i \in 1 .. len
                   PROVE  /\ CoversFrom(summing[i]) \in Nat /\ CoversUntil(summing[i]) \in Nat
                          /\ CoversFrom(summing[i]) <= CoversUntil(summing[i])
                          /\ Children(summing[i]) \subseteq DOMAIN tree
      OBVIOUS
    <2>2. CASE summing[i].node = 0
      BY <1>5, <2>2, TreeFacts DEF CoversFrom, CoversUntil, Children
    <2>3. CASE summing[i].node # 0
      <3>1. PICK n \in DOMAIN tree : n = summing[i].node
        BY <1>5, <1>10, <2>3
      <3>2. /\ covers[n].from \in Nat /\ covers[n].until \in Nat /\ covers[n].from < covers[n].until
            /\ ToSet(tree[n].children) \subseteq DOMAIN tree
        BY TreeFacts
      <3>3. QED
        BY <2>3, <3>1, <3>2 DEF CoversFrom, CoversUntil, Children
    <2>4. QED
      BY <2>2, <2>3
  <1>12. QED
    BY <1>1, <1>2, <1>3, <1>4, <1>5, <1>6, <1>7, <1>8, <1>9, <1>10, <1>11

\* What remains to be shown of a step of the walk.
LEMMA SumsStand ==
    ASSUME PlanInv, step \in {"graph", "annotate"}, step' = "annotate", root # 0,
           UNCHANGED <<toc, building, targets, tree, root, covers, graph>>,
           standing' \in [count : Nat, current : Nat, done : BOOLEAN],
           summing' \in Seq(SumCall), summing' # <<>>, summing'[1].node = 0,
           view' \in Seq(ShownNode), Len(view') = Len(tree),
           \A i \in 1 .. Len(summing') :
              /\ ToSet(summing'[i].left) \subseteq DOMAIN tree
              /\ i # 1 => /\ summing'[i].node \in DOMAIN tree
                          /\ tree[summing'[i].node].type # "stage"
              /\ SumFits(summing[i])' /\ LeftFits(summing, i)' /\ ChildrenShown(summing, i, view)',
           \A n \in DOMAIN tree : ShownFits(n)'
    PROVE  PlanInv'
  <1>1. PICK len \in Nat : len = Len(summing')
    OBVIOUS
  <1>2. DOMAIN summing' = 1 .. len
    BY <1>1
  <1>3. PlanTypeOK'
    <2>1. \A c \in DOMAIN summing' : ToSet(summing'[c].left) \subseteq DOMAIN tree'
      BY <1>1, <1>2
    <2>2. step' \in {"build", "plan", "graph", "annotate", "view"}
      OBVIOUS
    <2>3. QED
      BY <2>1, <2>2 DEF PlanInv, PlanTypeOK
  <1>4. SumInv'
    <2>1. \A i \in 2 .. len : i \in 1 .. len /\ i # 1
      OBVIOUS
    <2>2. \A i \in 2 .. Len(summing') : /\ summing'[i].node \in DOMAIN tree'
                                        /\ tree'[summing'[i].node].type # "stage"
      BY <1>1, <2>1
    <2>3. \A i \in DOMAIN summing' : /\ SumFits(summing[i])'
                                     /\ LeftFits(summing, i)'
                                     /\ ChildrenShown(summing, i, view)'
      BY <1>1, <1>2
    <2>4. \A n \in DOMAIN tree' : ShownFits(n)'
      OBVIOUS
    <2>5. QED
      BY <2>2, <2>3, <2>4 DEF SumInv
  <1>5. QED
    BY <1>3, <1>4, RestStays DEF PlanInv

\* The walk that annotates begins: nothing is shown or summed up yet.
LEMMA ShowProgressKeepsInv ==
    ASSUME PlanInv, ShowProgress
    PROVE  PlanInv'
  <1>1. /\ step = "graph" /\ root # 0 /\ standing' \in Standings
        /\ summing' = <<[node |-> 0, left |-> <<root>>, total |-> 0, completed |-> 0, branch |-> 0]>>
        /\ view' = [n \in DOMAIN tree |-> NotSeen]
        /\ step' = "annotate"
        /\ UNCHANGED <<toc, building, targets, tree, root, covers, graph>>
    BY DEF ShowProgress
  <1>2. PICK call : call = [node |-> 0, left |-> <<root>>, total |-> 0, completed |-> 0, branch |-> 0]
    OBVIOUS
  <1>3. summing' = <<call>> /\ Len(summing') = 1 /\ summing'[1] = call /\ summing' # <<>>
    BY <1>1, <1>2
  <1>4. PICK size \in Nat : size = Len(tree)
    BY TreeFacts
  <1>5. /\ root \in 1 .. size /\ DOMAIN tree = 1 .. size
        /\ covers[root].from = 0 /\ covers[root].until = Len(targets) /\ Len(targets) \in Nat
    BY <1>1, <1>4, TreeFacts
  <1>6. /\ call.node = 0 /\ call.left = <<root>> /\ call.total = 0 /\ call.completed = 0
        /\ call.branch = 0 /\ call \in SumCall
    <2>1. <<root>> \in Seq(Nat)
      BY <1>5
    <2>2. QED
      BY <1>2, <2>1 DEF SumCall
  <1>7. ToSet(call.left) = {root}
    BY <1>6 DEF ToSet
  <1>8. standing' \in [count : Nat, current : Nat, done : BOOLEAN] /\ standing'.count \in Nat
    <2>1. standing' \in [count : Nat, current : Nat, done : BOOLEAN]
      BY <1>1, PlanAssumption
    <2>2. QED
      BY <2>1
  <1>9. NotSeen \in ShownNode
    BY DEF NotSeen, ShownNode
  <1>10. view' \in Seq(ShownNode) /\ Len(view') = size /\ \A n \in 1 .. size : view'[n] = NotSeen
    BY <1>1, <1>4, <1>5, <1>9
  <1>11. SumFits(summing[1])'
    <2>1. DoneBefore(0)' = 0
      BY <1>8 DEF DoneBefore
    <2>2. ~(\E index \in 0 .. 0 - 1 : IsCurrent(index)')
      OBVIOUS
    <2>3. 0 = DoneBefore(0 + 0)' - DoneBefore(0)'
      BY <2>1
    <2>4. 0 = 1 <=> \E index \in 0 .. (0 + 0) - 1 : IsCurrent(index)'
      BY <2>2
    <2>5. summing'[1].node = 0 /\ summing'[1].total = 0 /\ summing'[1].completed = 0 /\ summing'[1].branch = 0
      BY <1>3, <1>6
    <2>6. QED
      BY <2>3, <2>4, <2>5 DEF SumFits, CoversFrom
  <1>12. LeftFits(summing, 1)'
    <2>1. InARow(<<root>>, 0, Len(targets), covers)
      BY <1>5 DEF InARow
    <2>2. QED
      BY <1>1, <1>3, <1>6, <2>1 DEF LeftFits, CoversFrom, CoversUntil
  <1>13. ChildrenShown(summing, 1, view)'
    BY <1>1, <1>3, <1>6, <1>7 DEF ChildrenShown, Children
  <1>14. \A n \in DOMAIN tree : ShownFits(n)'
    BY <1>5, <1>10 DEF ShownFits
  <1>15. \A i \in 1 .. Len(summing') :
            /\ ToSet(summing'[i].left) \subseteq DOMAIN tree
            /\ i # 1 => /\ summing'[i].node \in DOMAIN tree
                        /\ tree[summing'[i].node].type # "stage"
            /\ SumFits(summing[i])' /\ LeftFits(summing, i)' /\ ChildrenShown(summing, i, view)'
    <2>1. \A i \in 1 .. Len(summing') : i = 1
      BY <1>3
    <2>2. ToSet(summing'[1].left) \subseteq DOMAIN tree
      BY <1>3, <1>5, <1>6, <1>7
    <2>3. QED
      BY <1>11, <1>12, <1>13, <2>1, <2>2
  <1>16. summing' \in Seq(SumCall)
    BY <1>3, <1>6
  <1>17. QED
    BY <1>1, <1>3, <1>4, <1>6, <1>8, <1>10, <1>14, <1>15, <1>16, SumsStand

\* A call inside which another one is, or on which nothing was done, fits as
\* before: what it saw of its children is still shown.
LEMMA OuterCallStays ==
    ASSUME PlanInv, step = "annotate", UNCHANGED <<tree, targets, root, covers, standing>>,
           NEW i \in 1 .. Len(summing) - 1, i < Len(summing'),
           summing'[i] = summing[i], summing'[i + 1].node = summing[i + 1].node,
           \A n \in DOMAIN tree : view[n] # NotSeen => view'[n] # NotSeen
    PROVE  SumFits(summing[i])' /\ LeftFits(summing, i)' /\ ChildrenShown(summing, i, view)'
  <1>1. PICK len \in Nat : len = Len(summing)
    BY SumFacts
  <1>2. i \in 1 .. len /\ i # Len(summing) /\ i < Len(summing) /\ i # Len(summing')
    BY <1>1
  <1>3. /\ SumFits(summing[i]) /\ LeftFits(summing, i) /\ ChildrenShown(summing, i, view)
        /\ Children(summing[i]) \subseteq DOMAIN tree
    BY <1>1, <1>2, SumFacts
  <1>4. PICK call : call = summing[i]
    OBVIOUS
  <1>5. /\ CoversFrom(summing[i])' = CoversFrom(call) /\ CoversUntil(summing[i])' = CoversUntil(call)
        /\ Children(summing[i])' = Children(call)
    BY <1>4 DEF CoversFrom, CoversUntil, Children
  <1>6. SumFits(summing[i])'
    <2>1. \A n : DoneBefore(n)' = DoneBefore(n)
      BY DEF DoneBefore
    <2>2. \A n : IsCurrent(n)' <=> IsCurrent(n)
      BY DEF IsCurrent
    <2>3. PICK reached : reached = CoversFrom(call) + call.total
      OBVIOUS
    <2>4. /\ call.completed = DoneBefore(reached) - DoneBefore(CoversFrom(call))
          /\ call.branch = 1 <=> \E index \in CoversFrom(call) .. reached - 1 : IsCurrent(index)
      BY <1>3, <1>4, <2>3 DEF SumFits
    <2>5. /\ call.completed = DoneBefore(reached)' - DoneBefore(CoversFrom(call))'
          /\ call.branch = 1 <=> \E index \in CoversFrom(call) .. reached - 1 : IsCurrent(index)'
      <3>1. DoneBefore(reached)' = DoneBefore(reached) /\ DoneBefore(CoversFrom(call))' = DoneBefore(CoversFrom(call))
        BY DEF DoneBefore, CoversFrom
      <3>2. QED
        BY <2>2, <2>4, <3>1
    <2>6. QED
      BY <1>4, <1>5, <2>3, <2>5 DEF SumFits
  <1>7. LeftFits(summing, i)'
    BY <1>2, <1>3, <1>4, <1>5 DEF LeftFits
  <1>8. ChildrenShown(summing, i, view)'
    <2>1. SUFFICES ASSUME NEW child \in Children(call)
                   PROVE  \/ child \in ToSet(summing'[i].left)
                          \/ i < Len(summing') /\ child = summing'[i + 1].node
                          \/ view'[child] # NotSeen
      BY <1>5 DEF ChildrenShown
    <2>2. \/ child \in ToSet(summing[i].left)
          \/ child = summing[i + 1].node
          \/ view[child] # NotSeen
      BY <1>3, <1>4 DEF ChildrenShown
    <2>3. child \in DOMAIN tree
      BY <1>3, <1>4
    <2>4. QED
      BY <2>2, <2>3
  <1>9. QED
    BY <1>6, <1>7, <1>8

\* What is shown of a node that did not change is still right.
LEMMA ShownStays ==
    ASSUME PlanInv, step = "annotate", UNCHANGED <<tree, covers, standing>>,
           NEW n \in DOMAIN tree, view'[n] = view[n],
           \A k \in DOMAIN tree : view[k] # NotSeen => view'[k] # NotSeen
    PROVE  ShownFits(n)'
  <1>1. SUFFICES ASSUME view[n] # NotSeen
                 PROVE  /\ SaysOf(n)'
                        /\ \A child \in ToSet(tree[n].children) : view'[child] # NotSeen
    BY DEF ShownFits
  <1>2. SaysOf(n) /\ \A child \in ToSet(tree[n].children) : view[child] # NotSeen
    BY <1>1, SumFacts DEF ShownFits
  <1>3. ToSet(tree[n].children) \subseteq DOMAIN tree
    BY TreeFacts
  <1>4. SaysOf(n)'
    <2>1. PICK from : from = covers[n].from
      OBVIOUS
    <2>2. PICK until : until = covers[n].until
      OBVIOUS
    <2>3. /\ view[n].total = until - from
          /\ view[n].completed = DoneBefore(until) - DoneBefore(from)
          /\ view[n].all = 1 <=> standing.count >= until
          /\ view[n].branch = 1 <=> \E index \in from .. until - 1 : IsCurrent(index)
      BY <1>2, <2>1, <2>2 DEF SaysOf
    <2>4. /\ DoneBefore(until)' = DoneBefore(until) /\ DoneBefore(from)' = DoneBefore(from)
          /\ \A index : IsCurrent(index)' <=> IsCurrent(index)
      BY DEF DoneBefore, IsCurrent
    <2>5. covers'[n].from = from /\ covers'[n].until = until
      BY <2>1, <2>2
    <2>6. /\ view'[n].total = until - from
          /\ view'[n].completed = DoneBefore(until)' - DoneBefore(from)'
          /\ view'[n].all = 1 <=> standing'.count >= until
          /\ view'[n].branch = 1 <=> \E index \in from .. until - 1 : IsCurrent(index)'
      BY <2>3, <2>4
    <2>7. QED
      BY <2>5, <2>6 DEF SaysOf
  <1>5. QED
    BY <1>2, <1>3, <1>4

\* A shown node says of the stages it covers what it must.
LEMMA SaysWhatItCovers ==
    ASSUME UNCHANGED <<covers, standing>>, NEW n,
           NEW from, NEW until, covers[n].from = from, covers[n].until = until,
           view'[n].total = until - from,
           view'[n].completed = DoneBefore(until) - DoneBefore(from),
           view'[n].all = 1 <=> standing.count >= until,
           view'[n].branch = 1 <=> \E index \in from .. until - 1 : IsCurrent(index)
    PROVE  SaysOf(n)'
  <1>1. /\ DoneBefore(until)' = DoneBefore(until) /\ DoneBefore(from)' = DoneBefore(from)
        /\ \A index : IsCurrent(index)' <=> IsCurrent(index)
    BY DEF DoneBefore, IsCurrent
  <1>2. covers'[n].from = from /\ covers'[n].until = until
    OBVIOUS
  <1>3. /\ view'[n].total = until - from
        /\ view'[n].completed = DoneBefore(until)' - DoneBefore(from)'
        /\ view'[n].all = 1 <=> standing'.count >= until
        /\ view'[n].branch = 1 <=> \E index \in from .. until - 1 : IsCurrent(index)'
    BY <1>1
  <1>4. QED
    BY <1>2, <1>3 DEF SaysOf

\* A call with the sums of one more stretch of stages: those before from are
\* in it, and those from there to until are added.
StretchAdded(call, added, from, until) ==
    /\ CoversFrom(call) + call.total = from
    /\ added.node = call.node
    /\ added.total = call.total + (until - from)
    /\ added.completed = call.completed + (DoneBefore(until) - DoneBefore(from))
    /\ added.branch = 1 <=>
          call.branch = 1 \/ \E index \in from .. until - 1 : IsCurrent(index)

\* A call that has added a stretch of stages to its sums still fits.
LEMMA SumGrows ==
    ASSUME PlanInv, step = "annotate", UNCHANGED <<tree, targets, root, covers, standing>>,
           NEW i \in 1 .. Len(summing),
           NEW from \in Nat, NEW until \in Nat, from < until,
           StretchAdded(summing[i], summing'[i], from, until)
    PROVE  /\ SumFits(summing[i])'
           /\ CoversFrom(summing[i])' + summing'[i].total = until
           /\ CoversFrom(summing[i])' = CoversFrom(summing[i]) /\ CoversUntil(summing[i])' = CoversUntil(summing[i])
           /\ Children(summing[i])' = Children(summing[i])
  <1>0. /\ CoversFrom(summing[i]) + summing[i].total = from
        /\ summing'[i].node = summing[i].node
        /\ summing'[i].total = summing[i].total + (until - from)
        /\ summing'[i].completed = summing[i].completed + (DoneBefore(until) - DoneBefore(from))
        /\ summing'[i].branch = 1 <=>
              summing[i].branch = 1 \/ \E index \in from .. until - 1 : IsCurrent(index)
    BY DEF StretchAdded
  <1>1. /\ summing[i] \in SumCall /\ SumFits(summing[i]) /\ standing.count \in Nat
        /\ CoversFrom(summing[i]) \in Nat
    BY SumFacts
  <1>2. PICK b \in Nat : b = CoversFrom(summing[i])
    BY <1>1
  <1>3. PICK t \in Nat : t = summing[i].total
    BY <1>1, SumCallFields
  <1>4. PICK c \in Nat : c = summing[i].completed
    BY <1>1, SumCallFields
  <1>5. /\ CoversFrom(summing[i])' = b /\ CoversUntil(summing[i])' = CoversUntil(summing[i])
        /\ Children(summing[i])' = Children(summing[i])
    BY <1>0, <1>2 DEF CoversFrom, CoversUntil, Children
  <1>6. b + t = from
    BY <1>0, <1>2, <1>3
  <1>7. /\ c = DoneBefore(from) - DoneBefore(b)
        /\ summing[i].branch = 1 <=> \E index \in b .. from - 1 : IsCurrent(index)
    BY <1>1, <1>2, <1>3, <1>4, <1>6 DEF SumFits
  <1>8. summing'[i].total = t + (until - from) /\ b + (t + (until - from)) = until
    BY <1>0, <1>3, <1>6
  <1>9. summing'[i].completed = DoneBefore(until) - DoneBefore(b)
    <2>1. PICK du \in Nat : du = DoneBefore(until)
      BY <1>1 DEF DoneBefore
    <2>2. PICK df \in Nat : df = DoneBefore(from)
      BY <1>1 DEF DoneBefore
    <2>3. PICK db \in Nat : db = DoneBefore(b)
      BY <1>1 DEF DoneBefore
    <2>4. summing'[i].completed = c + (du - df) /\ c = df - db
      BY <1>0, <1>4, <1>7, <2>1, <2>2, <2>3
    <2>5. QED
      BY <2>1, <2>3, <2>4
  <1>10. summing'[i].branch = 1 <=> \E index \in b .. until - 1 : IsCurrent(index)
    <2>1. \A index \in b .. until - 1 : index \in b .. from - 1 \/ index \in from .. until - 1
      BY <1>6
    <2>2. /\ \A index \in b .. from - 1 : index \in b .. until - 1
          /\ \A index \in from .. until - 1 : index \in b .. until - 1
      BY <1>6
    <2>3. QED
      BY <1>0, <1>7, <2>1, <2>2
  <1>11. /\ DoneBefore(until)' = DoneBefore(until) /\ DoneBefore(b)' = DoneBefore(b)
         /\ \A index : IsCurrent(index)' <=> IsCurrent(index)
    BY DEF DoneBefore, IsCurrent
  <1>12. SumFits(summing[i])'
    <2>1. PICK total : total = summing'[i].total
      OBVIOUS
    <2>2. b + total = until
      BY <1>8, <2>1
    <2>3. /\ summing'[i].completed = DoneBefore(until)' - DoneBefore(b)'
          /\ summing'[i].branch = 1 <=> \E index \in b .. until - 1 : IsCurrent(index)'
      BY <1>9, <1>10, <1>11
    <2>4. QED
      BY <1>5, <2>1, <2>2, <2>3 DEF SumFits
  <1>13. QED
    BY <1>2, <1>5, <1>8, <1>12

\* A stage is shown and its caller goes on with its sums.
LEMMA AnnotateStageKeepsInv ==
    ASSUME PlanInv, AnnotateStage
    PROVE  PlanInv'
  <1>1. PICK completed \in {0, 1} :
            completed = IF tree[Child].index >= 0 /\ tree[Child].index < standing.count THEN 1 ELSE 0
    OBVIOUS
  <1>2. PICK current \in {0, 1} : current = IF IsCurrent(tree[Child].index) THEN 1 ELSE 0
    OBVIOUS
  <1>3. /\ step = "annotate" /\ Sums.left # <<>> /\ tree[Child].type = "stage"
        /\ view' = [view EXCEPT ![Child] = [completed |-> completed, total |-> 1,
                                            all |-> completed, branch |-> current]]
        /\ summing' = [summing EXCEPT ![Len(summing)] =
                          Added([Sums EXCEPT !.left = Tail(@)], 1, completed, current)]
        /\ UNCHANGED <<toc, building, targets, tree, root, covers, graph, standing, step>>
    BY <1>1, <1>2 DEF AnnotateStage
  <1>4. PICK len \in Nat \ {0} : len = Len(summing)
    BY <1>3, SumFacts
  <1>5. len \in 1 .. len /\ \A i \in 1 .. len : i = len \/ (i \in 1 .. len - 1 /\ i # len)
    OBVIOUS
  <1>6. PICK top : top = summing[len]
    OBVIOUS
  <1>7. /\ Sums = top /\ top \in SumCall /\ summing \in Seq(SumCall)
        /\ SumFits(top) /\ LeftFits(summing, len) /\ ChildrenShown(summing, len, view)
        /\ CoversFrom(top) \in Nat /\ CoversUntil(top) \in Nat /\ ToSet(top.left) \subseteq DOMAIN tree
        /\ view \in Seq(ShownNode) /\ Len(view) = Len(tree) /\ DOMAIN view = DOMAIN tree
        /\ standing.count \in Nat /\ root # 0 /\ summing[1].node = 0
    BY <1>3, <1>4, <1>5, <1>6, SumFacts
  <1>8. top.left \in Seq(Nat) /\ top.total \in Nat /\ top.completed \in Nat
    BY <1>7, SumCallFields
  <1>9. PICK child : child = Child
    OBVIOUS
  <1>10. child = Head(top.left) /\ child \in DOMAIN tree
    BY <1>3, <1>7, <1>8, <1>9, SetOfTail DEF Child
  <1>11. PICK from \in Nat : from = covers[child].from
    BY <1>10, TreeFacts
  <1>12. /\ covers[child].until = from + 1 /\ tree[child].index = from
         /\ tree[child].children = <<>>
    BY <1>3, <1>9, <1>10, <1>11, TreeFacts
  <1>13. /\ CoversFrom(top) + top.total = from
         /\ InARow(Tail(top.left), from + 1, CoversUntil(top), covers)
    <2>1. InARow(top.left, CoversFrom(top) + top.total, CoversUntil(top), covers)
      BY <1>4, <1>6, <1>7 DEF LeftFits
    <2>2. /\ covers[Head(top.left)].from = CoversFrom(top) + top.total
          /\ InARow(Tail(top.left), covers[Head(top.left)].until, CoversUntil(top), covers)
      BY <1>3, <1>7, <1>8, <2>1, RowBegins
    <2>3. QED
      BY <1>10, <1>11, <1>12, <2>2
  <1>14. /\ completed = DoneBefore(from + 1) - DoneBefore(from)
         /\ completed = 1 <=> standing.count >= from + 1
         /\ current = 1 <=> \E index \in from .. (from + 1) - 1 : IsCurrent(index)
    <2>1. completed = IF from < standing.count THEN 1 ELSE 0
      BY <1>1, <1>9, <1>11, <1>12
    <2>2. DoneBefore(from + 1) - DoneBefore(from) = IF from < standing.count THEN 1 ELSE 0
      <3>1. from + 1 \in Nat /\ from < from + 1
        OBVIOUS
      <3>2. QED
        BY <1>7, <3>1, DoneOfStretch
    <2>3. current = 1 <=> IsCurrent(from)
      BY <1>2, <1>9, <1>12
    <2>4. \A index \in from .. (from + 1) - 1 : index = from
      OBVIOUS
    <2>5. from \in from .. (from + 1) - 1
      OBVIOUS
    <2>6. QED
      BY <1>7, <2>1, <2>2, <2>3, <2>4, <2>5
  <1>15. PICK rest : rest = [top EXCEPT !.left = Tail(top.left)]
    OBVIOUS
  <1>16. PICK call : call = Added(rest, 1, completed, current)
    OBVIOUS
  <1>17. /\ rest \in SumCall /\ rest.node = top.node /\ rest.left = Tail(top.left)
         /\ rest.total = top.total /\ rest.completed = top.completed /\ rest.branch = top.branch
    <2>1. Tail(top.left) \in Seq(Nat)
      BY <1>3, <1>7, <1>8
    <2>2. top \in SumCall
      BY <1>7
    <2>3. PICK left \in Seq(Nat) : left = Tail(top.left)
      BY <2>1
    <2>4. rest = [top EXCEPT !.left = left]
      BY <1>15, <2>3
    <2>5. QED
      BY <2>2, <2>3, <2>4 DEF SumCall
  <1>18. /\ call \in SumCall /\ call.left = Tail(top.left) /\ call.node = top.node
         /\ call.total = top.total + 1 /\ call.completed = top.completed + completed
         /\ call.branch = 1 <=> top.branch = 1 \/ current = 1
    <2>1. completed \in Nat /\ current \in {0, 1} /\ 1 \in Nat
      BY <1>1, <1>2
    <2>2. \A total, done \in Nat : \A branch \in {0, 1} :
             /\ Added(rest, total, done, branch) \in SumCall
             /\ Added(rest, total, done, branch).node = rest.node
             /\ Added(rest, total, done, branch).left = rest.left
             /\ Added(rest, total, done, branch).total = rest.total + total
             /\ Added(rest, total, done, branch).completed = rest.completed + done
             /\ Added(rest, total, done, branch).branch = 1 <=> rest.branch = 1 \/ branch = 1
      BY <1>17, AddedFields
    <2>3. QED
      BY <1>16, <1>17, <2>1, <2>2
  <1>19. /\ summing' \in Seq(SumCall) /\ Len(summing') = len /\ summing'[len] = call
         /\ \A i \in 1 .. len - 1 : summing'[i] = summing[i]
    <2>1. summing' = [summing EXCEPT ![Len(summing)] = call]
      <3>1. Sums = top
        BY <1>7
      <3>2. [Sums EXCEPT !.left = Tail(@)] = rest
        BY <1>15, <3>1
      <3>3. QED
        BY <1>3, <1>16, <3>2
    <2>2. PICK S : S = SumCall
      OBVIOUS
    <2>3. summing \in Seq(S) /\ summing # <<>> /\ call \in S
      BY <1>4, <1>7, <1>18, <2>2
    <2>4. QED
      BY <1>4, <2>1, <2>2, <2>3, InnermostChanges
  <1>20. PICK entry : entry = [completed |-> completed, total |-> 1, all |-> completed, branch |-> current]
    OBVIOUS
  <1>21. entry \in ShownNode /\ entry # NotSeen
    BY <1>20 DEF ShownNode, NotSeen
  <1>22. /\ view' \in Seq(ShownNode) /\ Len(view') = Len(tree) /\ view'[child] = entry
         /\ \A n \in DOMAIN tree : n # child => view'[n] = view[n]
    <2>1. PICK V : V = ShownNode
      OBVIOUS
    <2>2. view \in Seq(V) /\ child \in DOMAIN view /\ entry \in V /\ view' = [view EXCEPT ![child] = entry]
      BY <1>3, <1>7, <1>9, <1>10, <1>20, <1>21, <2>1
    <2>3. /\ view' \in Seq(V) /\ Len(view') = Len(view) /\ view'[child] = entry
          /\ \A n \in DOMAIN view : n # child => view'[n] = view[n]
      BY <2>2, EntryChanges
    <2>4. QED
      BY <1>7, <2>1, <2>3
  <1>23. \A n \in DOMAIN tree : view[n] # NotSeen => view'[n] # NotSeen
    BY <1>21, <1>22
  <1>24. \A n \in DOMAIN tree : ShownFits(n)'
    <2>1. SUFFICES ASSUME NEW n \in DOMAIN tree
                   PROVE  ShownFits(n)'
      OBVIOUS
    <2>2. CASE n = child
      <3>1. /\ view'[n].total = (from + 1) - from
            /\ view'[n].completed = completed /\ view'[n].all = completed /\ view'[n].branch = current
        BY <1>20, <1>22, <2>2
      <3>2. /\ covers[n].from = from /\ covers[n].until = from + 1
            /\ view'[n].completed = DoneBefore(from + 1) - DoneBefore(from)
            /\ view'[n].all = 1 <=> standing.count >= from + 1
            /\ view'[n].branch = 1 <=> \E index \in from .. (from + 1) - 1 : IsCurrent(index)
        BY <1>11, <1>12, <1>14, <2>2, <3>1
      <3>3. SaysOf(n)'
        BY <1>3, <3>1, <3>2, SaysWhatItCovers
      <3>4. ToSet(tree'[n].children) = {}
        BY <1>3, <1>12, <2>2 DEF ToSet
      <3>5. QED
        BY <3>3, <3>4 DEF ShownFits
    <2>3. CASE n # child
      BY <1>3, <1>22, <1>23, <2>3, ShownStays
    <2>4. QED
      BY <2>2, <2>3
  <1>25. /\ SumFits(summing[len])' /\ LeftFits(summing, len)' /\ ChildrenShown(summing, len, view)'
    <2>1. /\ SumFits(summing[len])'
          /\ CoversFrom(summing[len])' + summing'[len].total = from + 1
          /\ CoversFrom(summing[len])' = CoversFrom(summing[len]) /\ CoversUntil(summing[len])' = CoversUntil(summing[len])
          /\ Children(summing[len])' = Children(summing[len])
      <3>1. PICK until \in Nat : until = from + 1
        OBVIOUS
      <3>2. /\ summing'[len].node = summing[len].node
            /\ summing'[len].total = summing[len].total + (until - from)
            /\ summing'[len].completed = summing[len].completed + (DoneBefore(until) - DoneBefore(from))
            /\ summing'[len].branch = 1 <=>
                  summing[len].branch = 1 \/ \E index \in from .. until - 1 : IsCurrent(index)
        BY <1>6, <1>14, <1>18, <1>19, <3>1
      <3>3. StretchAdded(summing[len], summing'[len], from, until)
        BY <1>6, <1>13, <3>2 DEF StretchAdded
      <3>4. len \in 1 .. Len(summing) /\ from < until
        BY <1>4, <3>1
      <3>5. UNCHANGED <<tree, targets, root, covers, standing>>
        BY <1>3
      <3>6. /\ SumFits(summing[len])'
            /\ CoversFrom(summing[len])' + summing'[len].total = until
            /\ CoversFrom(summing[len])' = CoversFrom(summing[len]) /\ CoversUntil(summing[len])' = CoversUntil(summing[len])
            /\ Children(summing[len])' = Children(summing[len])
        BY <1>3, <3>3, <3>4, <3>5, SumGrows
      <3>7. QED
        BY <3>1, <3>6
    <2>2. LeftFits(summing, len)'
      <3>1. summing'[len].left = Tail(top.left) /\ len = Len(summing') /\ covers' = covers
        BY <1>3, <1>18, <1>19
      <3>2. InARow(summing'[len].left, CoversFrom(summing[len])' + summing'[len].total, CoversUntil(summing[len])', covers')
        BY <1>6, <1>13, <2>1, <3>1
      <3>3. QED
        BY <3>1, <3>2 DEF LeftFits
    <2>3. ChildrenShown(summing, len, view)'
      <3>1. SUFFICES ASSUME NEW c \in Children(summing[len])
                     PROVE  c \in ToSet(summing'[len].left) \/ view'[c] # NotSeen
        BY <2>1 DEF ChildrenShown
      <3>2. c \in ToSet(top.left) \/ view[c] # NotSeen
        BY <1>4, <1>6, <1>7, <3>1 DEF ChildrenShown
      <3>3. ToSet(top.left) = {child} \cup ToSet(Tail(top.left))
        BY <1>3, <1>7, <1>8, <1>10, SetOfTail
      <3>4. c \in DOMAIN tree
        BY <1>3, <1>4, <1>5, <3>1, SumFacts
      <3>5. QED
        BY <1>18, <1>19, <1>21, <1>22, <1>23, <3>2, <3>3, <3>4
    <2>4. QED
      BY <2>1, <2>2, <2>3
  <1>26. \A i \in 1 .. Len(summing') :
            /\ ToSet(summing'[i].left) \subseteq DOMAIN tree
            /\ i # 1 => /\ summing'[i].node \in DOMAIN tree
                        /\ tree[summing'[i].node].type # "stage"
            /\ SumFits(summing[i])' /\ LeftFits(summing, i)' /\ ChildrenShown(summing, i, view)'
    <2>1. SUFFICES ASSUME NEW i \in 1 .. len
                   PROVE  /\ ToSet(summing'[i].left) \subseteq DOMAIN tree
                          /\ i # 1 => /\ summing'[i].node \in DOMAIN tree
                                      /\ tree[summing'[i].node].type # "stage"
                          /\ SumFits(summing[i])' /\ LeftFits(summing, i)'
                          /\ ChildrenShown(summing, i, view)'
      BY <1>19
    <2>2. /\ ToSet(summing[i].left) \subseteq DOMAIN tree
          /\ i # 1 => summing[i].node \in DOMAIN tree /\ tree[summing[i].node].type # "stage"
      BY <1>3, <1>4, SumFacts
    <2>3. CASE i = len
      <3>1. ToSet(Tail(top.left)) \subseteq DOMAIN tree
        BY <1>3, <1>7, <1>8, SetOfTail
      <3>2. ToSet(summing'[i].left) \subseteq DOMAIN tree /\ summing'[i].node = summing[i].node
        BY <1>6, <1>18, <1>19, <2>3, <3>1
      <3>3. QED
        BY <1>25, <2>2, <2>3, <3>2
    <2>4. CASE i # len
      <3>1. i \in 1 .. len - 1 /\ i < len /\ (i + 1 \in 1 .. len - 1 \/ i + 1 = len)
        BY <2>4
      <3>2. summing'[i] = summing[i] /\ summing'[i + 1].node = summing[i + 1].node
        BY <1>6, <1>18, <1>19, <3>1
      <3>3. UNCHANGED <<tree, targets, root, covers, standing>>
        BY <1>3
      <3>4. SumFits(summing[i])' /\ LeftFits(summing, i)' /\ ChildrenShown(summing, i, view)'
        BY <1>3, <1>4, <1>19, <1>23, <3>1, <3>2, <3>3, OuterCallStays
      <3>5. QED
        BY <2>2, <3>2, <3>4
    <2>5. QED
      BY <2>3, <2>4
  <1>27. summing' # <<>> /\ summing'[1].node = 0
    <2>1. 1 = len \/ 1 \in 1 .. len - 1
      OBVIOUS
    <2>2. summing'[1].node = summing[1].node
      BY <1>6, <1>18, <1>19, <2>1
    <2>3. QED
      BY <1>7, <1>19, <2>2
  <1>28. standing' \in [count : Nat, current : Nat, done : BOOLEAN]
    BY <1>3 DEF PlanInv, PlanTypeOK
  <1>29. QED
    BY <1>3, <1>7, <1>19, <1>22, <1>24, <1>26, <1>27, <1>28, SumsStand

\* A group whose children are about to be summed up.
LEMMA OpenGroupKeepsInv ==
    ASSUME PlanInv, OpenGroup
    PROVE  PlanInv'
  <1>1. PICK call : call = [node |-> Child, left |-> tree[Child].children,
                            total |-> 0, completed |-> 0, branch |-> 0]
    OBVIOUS
  <1>2. /\ step = "annotate" /\ Sums.left # <<>> /\ tree[Child].type # "stage"
        /\ summing' = Append([summing EXCEPT ![Len(summing)].left = Tail(@)], call)
        /\ UNCHANGED <<toc, building, targets, tree, root, covers, graph, standing, view, step>>
    BY <1>1 DEF OpenGroup
  <1>3. PICK len \in Nat \ {0} : len = Len(summing)
    BY <1>2, SumFacts
  <1>4. /\ len \in 1 .. len /\ len + 1 # len
        /\ \A i \in 1 .. len + 1 : i = len + 1 \/ i = len \/ (i \in 1 .. len - 1 /\ i # len /\ i # len + 1)
    OBVIOUS
  <1>5. PICK top : top = summing[len]
    OBVIOUS
  <1>6. /\ Sums = top /\ top \in SumCall /\ summing \in Seq(SumCall)
        /\ SumFits(top) /\ LeftFits(summing, len) /\ ChildrenShown(summing, len, view)
        /\ CoversFrom(top) \in Nat /\ CoversUntil(top) \in Nat /\ ToSet(top.left) \subseteq DOMAIN tree
        /\ view \in Seq(ShownNode) /\ Len(view) = Len(tree)
        /\ standing.count \in Nat /\ root # 0 /\ summing[1].node = 0
    BY <1>2, <1>3, <1>4, <1>5, SumFacts
  <1>7. top.left \in Seq(Nat) /\ top.total \in Nat
    BY <1>6, SumCallFields
  <1>8. PICK child : child = Child
    OBVIOUS
  <1>9. child = Head(top.left) /\ child \in DOMAIN tree
    BY <1>2, <1>6, <1>7, <1>8, SetOfTail DEF Child
  <1>10. child \in Nat \ {0}
    BY <1>9, TreeFacts
  <1>11. /\ tree[child].children \in Seq(Nat) /\ ToSet(tree[child].children) \subseteq DOMAIN tree
         /\ InARow(tree[child].children, covers[child].from, covers[child].until, covers)
         /\ covers[child].from \in Nat
    BY <1>2, <1>8, <1>9, TreeFacts
  <1>12. /\ covers[child].from = CoversFrom(top) + top.total
         /\ InARow(Tail(top.left), covers[child].until, CoversUntil(top), covers)
    <2>1. InARow(top.left, CoversFrom(top) + top.total, CoversUntil(top), covers)
      BY <1>3, <1>5, <1>6 DEF LeftFits
    <2>2. PICK nodes \in Seq(Nat) : nodes = top.left
      BY <1>7
    <2>3. PICK from, until : from = CoversFrom(top) + top.total /\ until = CoversUntil(top)
      OBVIOUS
    <2>4. nodes # <<>> /\ child = Head(nodes)
      BY <1>2, <1>6, <1>9, <2>2
    <2>5. InARow(nodes, from, until, covers)
      BY <2>1, <2>2, <2>3
    <2>6. covers[child].from = from /\ InARow(Tail(nodes), covers[child].until, until, covers)
      BY <2>4, <2>5, RowBegins
    <2>7. QED
      BY <2>2, <2>3, <2>6
  <1>13. /\ call \in SumCall /\ call.node = child /\ call.left = tree[child].children
         /\ call.total = 0 /\ call.completed = 0 /\ call.branch = 0
    BY <1>1, <1>8, <1>10, <1>11 DEF SumCall
  <1>14. PICK caller : caller = [top EXCEPT !.left = Tail(top.left)]
    OBVIOUS
  <1>15. /\ caller \in SumCall /\ caller.left = Tail(top.left) /\ caller.node = top.node
         /\ caller.total = top.total /\ caller.completed = top.completed /\ caller.branch = top.branch
    <2>1. Tail(top.left) \in Seq(Nat)
      BY <1>2, <1>6, <1>7
    <2>2. PICK left \in Seq(Nat) : left = Tail(top.left)
      BY <2>1
    <2>3. caller = [top EXCEPT !.left = left]
      BY <1>14, <2>2
    <2>4. QED
      BY <1>6, <2>2, <2>3 DEF SumCall
  <1>16. /\ summing' \in Seq(SumCall) /\ Len(summing') = len + 1
         /\ summing'[len + 1] = call /\ summing'[len] = caller
         /\ \A i \in 1 .. len - 1 : summing'[i] = summing[i]
    <2>1. PICK S : S = SumCall
      OBVIOUS
    <2>2. PICK before : before = [summing EXCEPT ![Len(summing)].left = Tail(@)]
      OBVIOUS
    <2>3. before = [summing EXCEPT ![Len(summing)] = caller]
      BY <1>3, <1>5, <1>14, <2>2
    <2>4. summing \in Seq(S) /\ summing # <<>> /\ caller \in S /\ call \in S
      BY <1>3, <1>6, <1>13, <1>15, <2>1
    <2>5. /\ before \in Seq(S) /\ Len(before) = len /\ before[len] = caller
          /\ \A i \in 1 .. len - 1 : before[i] = summing[i]
      BY <1>3, <2>3, <2>4, InnermostChanges
    <2>6. summing' = Append(before, call)
      BY <1>2, <2>2
    <2>7. /\ summing' \in Seq(S) /\ Len(summing') = len + 1 /\ summing'[len + 1] = call
          /\ \A i \in 1 .. len : summing'[i] = before[i]
      BY <2>4, <2>5, <2>6, CallBegins
    <2>8. \A i \in 1 .. len - 1 : i \in 1 .. len
      OBVIOUS
    <2>9. QED
      BY <1>4, <2>1, <2>5, <2>7, <2>8
  <1>17. UNCHANGED <<tree, targets, root, covers, standing>>
    BY <1>2
  <1>18. \A n \in DOMAIN tree : ShownFits(n)'
    BY <1>2, ShownStays
  <1>19. \A index : IsCurrent(index)' <=> IsCurrent(index)
    BY <1>2 DEF IsCurrent
  <1>20. SumFits(summing[len + 1])' /\ LeftFits(summing, len + 1)' /\ ChildrenShown(summing, len + 1, view)'
    <2>1. PICK b \in Nat : b = covers[child].from
      BY <1>11
    <2>2. /\ CoversFrom(summing[len + 1])' = b /\ CoversUntil(summing[len + 1])' = covers[child].until
          /\ Children(summing[len + 1])' = ToSet(tree[child].children)
      BY <1>2, <1>10, <1>13, <1>16, <2>1 DEF CoversFrom, CoversUntil, Children
    <2>3. b + 0 = b /\ b .. b - 1 = {}
      OBVIOUS
    <2>4. PICK d \in Nat : d = DoneBefore(b)'
      BY <1>2, <1>6 DEF DoneBefore
    <2>5. d - d = 0
      OBVIOUS
    <2>6. SumFits(summing[len + 1])'
      BY <1>13, <1>16, <2>2, <2>3, <2>4, <2>5 DEF SumFits
    <2>7. LeftFits(summing, len + 1)'
      BY <1>2, <1>11, <1>13, <1>16, <2>1, <2>2, <2>3 DEF LeftFits
    <2>8. ChildrenShown(summing, len + 1, view)'
      BY <1>13, <1>16, <2>2 DEF ChildrenShown
    <2>9. QED
      BY <2>6, <2>7, <2>8
  <1>21. SumFits(summing[len])' /\ LeftFits(summing, len)' /\ ChildrenShown(summing, len, view)'
    <2>1. /\ CoversFrom(summing[len])' = CoversFrom(top) /\ CoversUntil(summing[len])' = CoversUntil(top)
          /\ Children(summing[len])' = Children(top)
      BY <1>2, <1>15, <1>16 DEF CoversFrom, CoversUntil, Children
    <2>2. SumFits(summing[len])'
      <3>1. PICK reached : reached = CoversFrom(top) + top.total
        OBVIOUS
      <3>2. /\ top.completed = DoneBefore(reached) - DoneBefore(CoversFrom(top))
            /\ top.branch = 1 <=> \E index \in CoversFrom(top) .. reached - 1 : IsCurrent(index)
        BY <1>6, <3>1 DEF SumFits
      <3>3. PICK b : b = CoversFrom(top)
        OBVIOUS
      <3>4. DoneBefore(reached)' = DoneBefore(reached) /\ DoneBefore(b)' = DoneBefore(b)
        BY <1>2 DEF DoneBefore
      <3>5. /\ summing'[len].completed = DoneBefore(reached)' - DoneBefore(b)'
            /\ summing'[len].branch = 1 <=> \E index \in b .. reached - 1 : IsCurrent(index)'
        BY <1>15, <1>16, <1>19, <3>2, <3>3, <3>4
      <3>6. b + summing'[len].total = reached
        BY <1>15, <1>16, <3>1, <3>3
      <3>7. QED
        BY <2>1, <3>3, <3>5, <3>6 DEF SumFits
    <2>3. LeftFits(summing, len)'
      BY <1>2, <1>4, <1>12, <1>13, <1>15, <1>16, <2>1 DEF LeftFits
    <2>4. ChildrenShown(summing, len, view)'
      <3>1. SUFFICES ASSUME NEW c \in Children(top)
                     PROVE  \/ c \in ToSet(summing'[len].left)
                            \/ c = summing'[len + 1].node
                            \/ view'[c] # NotSeen
        BY <1>16, <2>1 DEF ChildrenShown
      <3>2. c \in ToSet(top.left) \/ view[c] # NotSeen
        BY <1>3, <1>5, <1>6, <3>1 DEF ChildrenShown
      <3>3. ToSet(top.left) = {child} \cup ToSet(Tail(top.left))
        BY <1>2, <1>6, <1>7, <1>9, SetOfTail
      <3>4. QED
        BY <1>2, <1>13, <1>15, <1>16, <3>2, <3>3
    <2>5. QED
      BY <2>2, <2>3, <2>4
  <1>22. \A i \in 1 .. Len(summing') :
            /\ ToSet(summing'[i].left) \subseteq DOMAIN tree
            /\ i # 1 => /\ summing'[i].node \in DOMAIN tree
                        /\ tree[summing'[i].node].type # "stage"
            /\ SumFits(summing[i])' /\ LeftFits(summing, i)' /\ ChildrenShown(summing, i, view)'
    <2>1. SUFFICES ASSUME NEW i \in 1 .. len + 1
                   PROVE  /\ ToSet(summing'[i].left) \subseteq DOMAIN tree
                          /\ i # 1 => /\ summing'[i].node \in DOMAIN tree
                                      /\ tree[summing'[i].node].type # "stage"
                          /\ SumFits(summing[i])' /\ LeftFits(summing, i)'
                          /\ ChildrenShown(summing, i, view)'
      BY <1>16
    <2>2. CASE i = len + 1
      <3>1. /\ ToSet(summing'[i].left) \subseteq DOMAIN tree /\ summing'[i].node \in DOMAIN tree
            /\ tree[summing'[i].node].type # "stage"
        BY <1>2, <1>8, <1>9, <1>11, <1>13, <1>16, <2>2
      <3>2. QED
        BY <1>20, <2>2, <3>1
    <2>3. CASE i = len
      <3>1. i # 1 => summing[i].node \in DOMAIN tree /\ tree[summing[i].node].type # "stage"
        BY <1>2, <1>3, <1>4, <2>3, SumFacts
      <3>2. ToSet(Tail(top.left)) \subseteq DOMAIN tree
        BY <1>2, <1>6, <1>7, SetOfTail
      <3>3. ToSet(summing'[i].left) \subseteq DOMAIN tree /\ summing'[i].node = summing[i].node
        BY <1>5, <1>15, <1>16, <2>3, <3>2
      <3>4. QED
        BY <1>21, <2>3, <3>1, <3>3
    <2>4. CASE i # len + 1 /\ i # len
      <3>1. i \in 1 .. len - 1 /\ i < len /\ i \in 1 .. len /\ (i + 1 \in 1 .. len - 1 \/ i + 1 = len)
        BY <1>4, <2>4
      <3>2. /\ ToSet(summing[i].left) \subseteq DOMAIN tree
            /\ i # 1 => summing[i].node \in DOMAIN tree /\ tree[summing[i].node].type # "stage"
        BY <1>2, <1>3, <3>1, SumFacts
      <3>3. summing'[i] = summing[i] /\ summing'[i + 1].node = summing[i + 1].node
        BY <1>5, <1>15, <1>16, <3>1
      <3>4. i \in 1 .. Len(summing) - 1 /\ i < Len(summing')
        BY <1>3, <1>16, <3>1
      <3>5. \A n \in DOMAIN tree : view[n] # NotSeen => view'[n] # NotSeen
        BY <1>2
      <3>6. SumFits(summing[i])' /\ LeftFits(summing, i)' /\ ChildrenShown(summing, i, view)'
        BY <1>2, <1>17, <3>3, <3>4, <3>5, OuterCallStays
      <3>7. QED
        BY <3>2, <3>3, <3>6
    <2>5. QED
      BY <2>2, <2>3, <2>4
  <1>23. summing' # <<>> /\ summing'[1].node = 0
    <2>1. 1 = len \/ 1 \in 1 .. len - 1
      OBVIOUS
    <2>2. summing'[1].node = summing[1].node
      BY <1>5, <1>15, <1>16, <2>1
    <2>3. QED
      BY <1>6, <1>16, <2>2
  <1>24. standing' \in [count : Nat, current : Nat, done : BOOLEAN]
    BY <1>2 DEF PlanInv, PlanTypeOK
  <1>25. view' \in Seq(ShownNode) /\ Len(view') = Len(tree)
    BY <1>2, <1>6
  <1>26. QED
    BY <1>2, <1>6, <1>16, <1>18, <1>22, <1>23, <1>24, <1>25, SumsStand

\* A group whose children are summed up: it is shown, and its caller goes on
\* with the sums.
LEMMA CloseGroupKeepsInv ==
    ASSUME PlanInv, CloseGroup
    PROVE  PlanInv'
  <1>1. PICK top : top = summing[Len(summing)]
    OBVIOUS
  <1>2. /\ step = "annotate" /\ top.left = <<>> /\ Len(summing) > 1
        /\ view' = [view EXCEPT ![top.node] =
                       [completed |-> top.completed, total |-> top.total,
                        all |-> IF top.total > 0 /\ top.completed = top.total THEN 1 ELSE 0,
                        branch |-> top.branch]]
        /\ summing' = [SubSeq(summing, 1, Len(summing) - 1) EXCEPT
                          ![Len(summing) - 1] =
                              Added(summing[Len(summing) - 1], top.total, top.completed, top.branch)]
        /\ UNCHANGED <<toc, building, targets, tree, root, covers, graph, standing, step>>
    BY <1>1 DEF CloseGroup, Sums
  <1>3. PICK len \in Nat \ {0} : len = Len(summing)
    BY <1>2, SumFacts
  <1>4. PICK m \in Nat \ {0} : m = len - 1
    BY <1>2, <1>3
  <1>5. /\ len = m + 1 /\ len # 1 /\ m # len /\ m \in 1 .. len /\ len \in 1 .. len /\ m \in 1 .. m
        /\ \A i \in 1 .. m : i = m \/ (i \in 1 .. m - 1 /\ i # m)
        /\ \A i \in 1 .. m : i \in 1 .. len
    BY <1>4
  <1>6. PICK caller : caller = summing[m]
    OBVIOUS
  <1>7. /\ top \in SumCall /\ SumFits(top) /\ LeftFits(summing, len) /\ ChildrenShown(summing, len, view)
        /\ top.node \in DOMAIN tree /\ tree[top.node].type # "stage"
    BY <1>1, <1>2, <1>3, <1>5, SumFacts
  <1>8. /\ caller \in SumCall /\ summing \in Seq(SumCall) /\ SumFits(caller)
        /\ LeftFits(summing, m) /\ ChildrenShown(summing, m, view)
        /\ Children(caller) \subseteq DOMAIN tree
        /\ view \in Seq(ShownNode) /\ Len(view) = Len(tree) /\ DOMAIN view = DOMAIN tree
        /\ standing.count \in Nat /\ root # 0 /\ summing[1].node = 0
    BY <1>2, <1>3, <1>5, <1>6, SumFacts
  <1>9. /\ top.total \in Nat /\ top.completed \in Nat /\ top.branch \in {0, 1}
        /\ caller.left \in Seq(Nat)
    BY <1>7, <1>8, SumCallFields
  <1>10. PICK node \in DOMAIN tree : node = top.node
    BY <1>7
  <1>11. PICK from \in Nat : from = covers[node].from
    BY <1>10, TreeFacts
  <1>12. PICK until \in Nat : until = covers[node].until
    BY <1>10, TreeFacts
  <1>13. from < until /\ node # 0
    BY <1>10, <1>11, <1>12, TreeFacts
  <1>14. /\ CoversFrom(top) = from /\ CoversUntil(top) = until /\ Children(top) = ToSet(tree[node].children)
    BY <1>10, <1>11, <1>12, <1>13 DEF CoversFrom, CoversUntil, Children
  <1>15. top.total = until - from /\ from + top.total = until
    <2>1. InARow(<<>>, CoversFrom(top) + top.total, CoversUntil(top), covers)
      BY <1>1, <1>2, <1>3, <1>7 DEF LeftFits
    <2>2. CoversFrom(top) + top.total = CoversUntil(top)
      BY <2>1, EmptyRow
    <2>3. QED
      BY <1>9, <1>11, <1>12, <1>14, <2>2
  <1>16. /\ top.completed = DoneBefore(until) - DoneBefore(from)
         /\ top.branch = 1 <=> \E index \in from .. until - 1 : IsCurrent(index)
    BY <1>7, <1>14, <1>15 DEF SumFits
  <1>17. /\ CoversFrom(caller) + caller.total = from
         /\ InARow(caller.left, until, CoversUntil(caller), covers)
    <2>1. summing[m + 1] = top
      BY <1>1, <1>3, <1>5
    <2>2. /\ covers[node].from = CoversFrom(caller) + caller.total
          /\ InARow(caller.left, covers[node].until, CoversUntil(caller), covers)
      BY <1>3, <1>5, <1>6, <1>8, <1>10, <2>1 DEF LeftFits
    <2>3. QED
      BY <1>11, <1>12, <2>2
  <1>18. PICK call : call = Added(caller, top.total, top.completed, top.branch)
    OBVIOUS
  <1>19. /\ call \in SumCall /\ call.node = caller.node /\ call.left = caller.left
         /\ call.total = caller.total + top.total
         /\ call.completed = caller.completed + top.completed
         /\ call.branch = 1 <=> caller.branch = 1 \/ top.branch = 1
    <2>1. \A total, done \in Nat : \A branch \in {0, 1} :
             /\ Added(caller, total, done, branch) \in SumCall
             /\ Added(caller, total, done, branch).node = caller.node
             /\ Added(caller, total, done, branch).left = caller.left
             /\ Added(caller, total, done, branch).total = caller.total + total
             /\ Added(caller, total, done, branch).completed = caller.completed + done
             /\ Added(caller, total, done, branch).branch = 1 <=> caller.branch = 1 \/ branch = 1
      BY <1>8, AddedFields
    <2>2. QED
      BY <1>9, <1>18, <2>1
  <1>20. /\ summing' \in Seq(SumCall) /\ Len(summing') = m /\ summing'[m] = call
         /\ \A i \in 1 .. m - 1 : summing'[i] = summing[i]
    <2>1. PICK S : S = SumCall
      OBVIOUS
    <2>2. PICK before : before = SubSeq(summing, 1, Len(summing) - 1)
      OBVIOUS
    <2>3. summing \in Seq(S) /\ summing # <<>> /\ call \in S
      BY <1>3, <1>8, <1>19, <2>1
    <2>4. /\ before \in Seq(S) /\ Len(before) = m
          /\ \A i \in 1 .. m : before[i] = summing[i]
      BY <1>3, <1>4, <2>2, <2>3, CallReturns
    <2>5. summing' = [before EXCEPT ![Len(before)] = call]
      BY <1>2, <1>3, <1>4, <1>6, <1>18, <2>2, <2>4
    <2>6. before # <<>>
      BY <2>4
    <2>7. /\ summing' \in Seq(S) /\ Len(summing') = Len(before) /\ summing'[Len(before)] = call
          /\ \A i \in 1 .. Len(before) - 1 : summing'[i] = before[i]
      BY <2>3, <2>4, <2>5, <2>6, InnermostChanges
    <2>8. \A i \in 1 .. m - 1 : i \in 1 .. m
      OBVIOUS
    <2>9. QED
      BY <2>1, <2>4, <2>7, <2>8
  <1>21. PICK entry : entry = [completed |-> top.completed, total |-> top.total,
                               all |-> IF top.total > 0 /\ top.completed = top.total THEN 1 ELSE 0,
                               branch |-> top.branch]
    OBVIOUS
  <1>22. /\ entry \in ShownNode /\ entry # NotSeen
         /\ entry.total = top.total /\ entry.completed = top.completed /\ entry.branch = top.branch
         /\ entry.all = 1 <=> standing.count >= until
    <2>1. top.total > 0
      BY <1>13, <1>15
    <2>2. PICK all \in {0, 1} : all = IF top.total > 0 /\ top.completed = top.total THEN 1 ELSE 0
      OBVIOUS
    <2>3. entry = [completed |-> top.completed, total |-> top.total, all |-> all, branch |-> top.branch]
      BY <1>21, <2>2
    <2>4. top.completed = top.total <=> standing.count >= until
      BY <1>8, <1>13, <1>15, <1>16, DoneOfStretch
    <2>5. all = 1 <=> standing.count >= until
      BY <2>1, <2>2, <2>4
    <2>6. /\ entry.total = top.total /\ entry.completed = top.completed /\ entry.branch = top.branch
          /\ entry.all = all
      BY <2>3
    <2>7. entry \in ShownNode
      BY <1>9, <2>3 DEF ShownNode
    <2>8. entry # NotSeen
      <3>1. entry.total # 0
        BY <2>1, <2>6
      <3>2. QED
        BY <3>1 DEF NotSeen
    <2>9. QED
      BY <2>5, <2>6, <2>7, <2>8
  <1>23. /\ view' \in Seq(ShownNode) /\ Len(view') = Len(tree) /\ view'[node] = entry
         /\ \A n \in DOMAIN tree : n # node => view'[n] = view[n]
    <2>1. PICK V : V = ShownNode
      OBVIOUS
    <2>2. view \in Seq(V) /\ node \in DOMAIN view /\ entry \in V /\ view' = [view EXCEPT ![node] = entry]
      BY <1>2, <1>8, <1>10, <1>21, <1>22, <2>1
    <2>3. /\ view' \in Seq(V) /\ Len(view') = Len(view) /\ view'[node] = entry
          /\ \A n \in DOMAIN view : n # node => view'[n] = view[n]
      BY <2>2, EntryChanges
    <2>4. QED
      BY <1>8, <2>1, <2>3
  <1>24. \A n \in DOMAIN tree : view[n] # NotSeen => view'[n] # NotSeen
    BY <1>22, <1>23
  <1>25. UNCHANGED <<tree, targets, root, covers, standing>>
    BY <1>2
  <1>26. \A n \in DOMAIN tree : ShownFits(n)'
    <2>1. SUFFICES ASSUME NEW n \in DOMAIN tree
                   PROVE  ShownFits(n)'
      OBVIOUS
    <2>2. CASE n = node
      <3>1. /\ covers[n].from = from /\ covers[n].until = until
            /\ view'[n].total = until - from
            /\ view'[n].completed = DoneBefore(until) - DoneBefore(from)
            /\ view'[n].all = 1 <=> standing.count >= until
            /\ view'[n].branch = 1 <=> \E index \in from .. until - 1 : IsCurrent(index)
        BY <1>11, <1>12, <1>15, <1>16, <1>22, <1>23, <2>2
      <3>2. SaysOf(n)'
        BY <1>2, <3>1, SaysWhatItCovers
      <3>3. \A child \in ToSet(tree[node].children) : view[child] # NotSeen
        <4>1. SUFFICES ASSUME NEW child \in Children(top)
                       PROVE  view[child] # NotSeen
          BY <1>14
        <4>2. \/ child \in ToSet(top.left)
              \/ view[child] # NotSeen
          BY <1>1, <1>3, <1>7, <4>1 DEF ChildrenShown
        <4>3. ToSet(top.left) = {}
          BY <1>2 DEF ToSet
        <4>4. QED
          BY <4>2, <4>3
      <3>4. ToSet(tree[node].children) \subseteq DOMAIN tree
        BY TreeFacts
      <3>5. \A child \in ToSet(tree'[n].children) : view'[child] # NotSeen
        BY <1>2, <1>24, <2>2, <3>3, <3>4
      <3>6. QED
        BY <3>2, <3>5 DEF ShownFits
    <2>3. CASE n # node
      BY <1>2, <1>23, <1>24, <2>3, ShownStays
    <2>4. QED
      BY <2>2, <2>3
  <1>27. SumFits(summing[m])' /\ LeftFits(summing, m)' /\ ChildrenShown(summing, m, view)'
    <2>1. /\ SumFits(summing[m])'
          /\ CoversFrom(summing[m])' + summing'[m].total = until
          /\ CoversFrom(summing[m])' = CoversFrom(summing[m]) /\ CoversUntil(summing[m])' = CoversUntil(summing[m])
          /\ Children(summing[m])' = Children(summing[m])
      <3>1. /\ summing'[m].node = summing[m].node
            /\ summing'[m].total = summing[m].total + (until - from)
            /\ summing'[m].completed = summing[m].completed + (DoneBefore(until) - DoneBefore(from))
            /\ summing'[m].branch = 1 <=>
                  summing[m].branch = 1 \/ \E index \in from .. until - 1 : IsCurrent(index)
        BY <1>6, <1>15, <1>16, <1>19, <1>20
      <3>2. StretchAdded(summing[m], summing'[m], from, until)
        BY <1>6, <1>17, <3>1 DEF StretchAdded
      <3>3. m \in 1 .. Len(summing)
        BY <1>3, <1>5
      <3>4. QED
        BY <1>2, <1>13, <1>25, <3>2, <3>3, SumGrows
    <2>2. LeftFits(summing, m)'
      <3>1. summing'[m].left = caller.left /\ m = Len(summing') /\ covers' = covers
        BY <1>2, <1>19, <1>20
      <3>2. InARow(summing'[m].left, CoversFrom(summing[m])' + summing'[m].total, CoversUntil(summing[m])', covers')
        BY <1>6, <1>17, <2>1, <3>1
      <3>3. QED
        BY <3>1, <3>2 DEF LeftFits
    <2>3. ChildrenShown(summing, m, view)'
      <3>1. SUFFICES ASSUME NEW c \in Children(caller)
                     PROVE  c \in ToSet(summing'[m].left) \/ view'[c] # NotSeen
        BY <1>6, <2>1 DEF ChildrenShown
      <3>2. c \in ToSet(caller.left) \/ c = summing[m + 1].node \/ view[c] # NotSeen
        BY <1>6, <1>8, <3>1 DEF ChildrenShown
      <3>3. summing[m + 1].node = node
        BY <1>1, <1>3, <1>5, <1>10
      <3>4. c \in DOMAIN tree
        BY <1>8, <3>1
      <3>5. QED
        BY <1>19, <1>20, <1>22, <1>23, <1>24, <3>2, <3>3, <3>4
    <2>4. QED
      BY <2>1, <2>2, <2>3
  <1>28. \A i \in 1 .. Len(summing') :
            /\ ToSet(summing'[i].left) \subseteq DOMAIN tree
            /\ i # 1 => /\ summing'[i].node \in DOMAIN tree
                        /\ tree[summing'[i].node].type # "stage"
            /\ SumFits(summing[i])' /\ LeftFits(summing, i)' /\ ChildrenShown(summing, i, view)'
    <2>1. SUFFICES ASSUME NEW i \in 1 .. m
                   PROVE  /\ ToSet(summing'[i].left) \subseteq DOMAIN tree
                          /\ i # 1 => /\ summing'[i].node \in DOMAIN tree
                                      /\ tree[summing'[i].node].type # "stage"
                          /\ SumFits(summing[i])' /\ LeftFits(summing, i)'
                          /\ ChildrenShown(summing, i, view)'
      BY <1>20
    <2>2. /\ ToSet(summing[i].left) \subseteq DOMAIN tree
          /\ i # 1 => summing[i].node \in DOMAIN tree /\ tree[summing[i].node].type # "stage"
      BY <1>2, <1>3, <1>5, SumFacts
    <2>3. CASE i = m
      <3>1. summing'[i].left = summing[i].left /\ summing'[i].node = summing[i].node
        BY <1>6, <1>19, <1>20, <2>3
      <3>2. QED
        BY <1>27, <2>2, <2>3, <3>1
    <2>4. CASE i # m
      <3>1. i \in 1 .. m - 1 /\ i < m /\ (i + 1 \in 1 .. m - 1 \/ i + 1 = m)
        BY <2>4
      <3>2. summing'[i] = summing[i] /\ summing'[i + 1].node = summing[i + 1].node
        BY <1>6, <1>19, <1>20, <3>1
      <3>3. i \in 1 .. Len(summing) - 1 /\ i < Len(summing')
        BY <1>3, <1>4, <1>20, <3>1
      <3>4. SumFits(summing[i])' /\ LeftFits(summing, i)' /\ ChildrenShown(summing, i, view)'
        BY <1>2, <1>24, <1>25, <3>2, <3>3, OuterCallStays
      <3>5. QED
        BY <2>2, <3>2, <3>4
    <2>5. QED
      BY <2>3, <2>4
  <1>29. summing' # <<>> /\ summing'[1].node = 0
    <2>1. 1 = m \/ 1 \in 1 .. m - 1
      OBVIOUS
    <2>2. summing'[1].node = summing[1].node
      BY <1>6, <1>19, <1>20, <2>1
    <2>3. QED
      BY <1>8, <1>20, <2>2
  <1>30. standing' \in [count : Nat, current : Nat, done : BOOLEAN]
    BY <1>2 DEF PlanInv, PlanTypeOK
  <1>31. QED
    BY <1>2, <1>8, <1>20, <1>23, <1>26, <1>28, <1>29, <1>30, SumsStand

\* The tree is annotated.
LEMMA FinishViewKeepsInv ==
    ASSUME PlanInv, FinishView
    PROVE  PlanInv'
  <1>1. /\ step = "annotate" /\ summing[1].left = <<>> /\ Len(summing) = 1
        /\ summing' = <<>> /\ step' = "view"
        /\ UNCHANGED <<toc, building, targets, tree, root, covers, graph, standing, view>>
    BY DEF FinishView, Sums
  <1>2. /\ summing[1].node = 0 /\ ChildrenShown(summing, 1, view) /\ root # 0
        /\ Len(view) = Len(tree) /\ \A n \in DOMAIN tree : ShownFits(n)
    <2>1. 1 \in 1 .. Len(summing)
      BY <1>1
    <2>2. QED
      BY <1>1, <2>1, SumFacts
  <1>3. view[root] # NotSeen
    <2>1. ToSet(summing[1].left) = {}
      BY <1>1 DEF ToSet
    <2>2. QED
      BY <1>1, <1>2, <2>1 DEF ChildrenShown, Children
  <1>4. PlanTypeOK'
    <2>1. summing' \in Seq(SumCall)
      BY <1>1
    <2>2. \A c \in DOMAIN summing' : ToSet(summing'[c].left) \subseteq DOMAIN tree'
      BY <1>1
    <2>3. step' \in {"build", "plan", "graph", "annotate", "view"}
      BY <1>1
    <2>4. QED
      BY <1>1, <2>1, <2>2, <2>3 DEF PlanInv, PlanTypeOK
  <1>5. SumInv'
    <2>1. \A n \in DOMAIN tree : ShownFits(n)'
      <3>1. SUFFICES ASSUME NEW n \in DOMAIN tree
                     PROVE  ShownFits(n)'
        OBVIOUS
      <3>2. QED
        BY <1>1, ShownStays
    <2>2. QED
      BY <1>1, <1>2, <1>3, <2>1 DEF SumInv
  <1>6. QED
    BY <1>1, <1>4, <1>5, RestStays DEF PlanInv

-----------------------------------------------------------------------------
(* Every state of the plan.                                                *)

\* A book whose walk has not begun.
LEMMA PlanInitInv ==
    ASSUME InitPlan
    PROVE  PlanInv
  <1>1. PICK call : call = [left |-> <<1>>, module |-> "", nodes |-> <<>>, from |-> 0]
    OBVIOUS
  <1>2. /\ toc \in Contents /\ building = <<call>>
        /\ targets = <<>> /\ tree = <<>> /\ root = 0 /\ covers = <<>> /\ graph = <<>>
        /\ standing = [count |-> 0, current |-> 0, done |-> FALSE]
        /\ summing = <<>> /\ view = <<>> /\ step = "build"
    BY <1>1 DEF InitPlan
  <1>3. /\ call \in BuildCall /\ call.left = <<1>> /\ call.nodes = <<>> /\ call.from = 0
    <2>1. <<1>> \in Seq(Nat) /\ <<>> \in Seq(Nat) /\ 0 \in Nat
      OBVIOUS
    <2>2. "" \in Names
      BY PlanAssumption
    <2>3. PICK left : left = <<1>>
      OBVIOUS
    <2>4. call = [left |-> left, module |-> "", nodes |-> <<>>, from |-> 0]
      BY <1>1, <2>3
    <2>5. left \in Seq(Nat)
      BY <2>1, <2>3
    <2>6. QED
      BY <2>1, <2>2, <2>3, <2>4, <2>5 DEF BuildCall
  <1>4. /\ building \in Seq(BuildCall) /\ Len(building) = 1 /\ building[1] = call
        /\ DOMAIN building = {1} /\ building # <<>>
    BY <1>2, <1>3
  <1>5. ToSet(call.left) \subseteq DOMAIN toc
    <2>1. toc \in Seq(TocNode) /\ toc # <<>>
      BY <1>2, PlanAssumption DEF IsBook
    <2>2. 1 \in DOMAIN toc
      BY <2>1
    <2>3. ToSet(<<1>>) = {1}
      BY DEF ToSet
    <2>4. QED
      BY <1>3, <2>2, <2>3
  <1>6. PlanTypeOK
    <2>1. /\ targets \in Seq(StageTarget) /\ tree \in Seq(PlanNode) /\ root \in 0 .. Len(tree)
          /\ covers \in Seq([from : Nat, until : Nat]) /\ Len(covers) = Len(tree)
          /\ summing \in Seq(SumCall) /\ view \in Seq(ShownNode)
      BY <1>2
    <2>2. \A s \in DOMAIN graph : graph[s] \in Seq(Names)
      BY <1>2
    <2>3. standing \in [count : Nat, current : Nat, done : BOOLEAN]
      BY <1>2
    <2>4. \A c \in DOMAIN building : ToSet(building[c].left) \subseteq DOMAIN toc
      BY <1>4, <1>5
    <2>5. \A c \in DOMAIN summing : ToSet(summing[c].left) \subseteq DOMAIN tree
      BY <1>2
    <2>6. QED
      BY <1>2, <1>4, <2>1, <2>2, <2>3, <2>4, <2>5, PlanAssumption DEF PlanTypeOK
  <1>7. BuildInv
    <2>1. CallFits(call, 0, covers)
      <3>1. ToSet(call.nodes) = {}
        BY <1>3 DEF ToSet
      <3>2. InARow(call.nodes, call.from, 0, covers)
        BY <1>3, EmptyRow
      <3>3. QED
        BY <1>3, <3>1, <3>2 DEF CallFits
    <2>2. Upto(building, 1, Len(targets)) = 0
      BY <1>2, <1>4 DEF Upto
    <2>3. \A i \in DOMAIN building : CallFits(building[i], Upto(building, i, Len(targets)), covers)
      BY <1>4, <2>1, <2>2
    <2>4. Len(building[1].left) + Len(building[1].nodes) <= 1
      <3>1. Len(<<1>>) = 1 /\ Len(<<>>) = 0
        OBVIOUS
      <3>2. building[1].left = <<1>> /\ building[1].nodes = <<>>
        BY <1>3, <1>4
      <3>3. Len(building[1].left) = 1 /\ Len(building[1].nodes) = 0
        BY <3>1, <3>2
      <3>4. QED
        BY <3>3
    <2>5. QED
      BY <1>3, <1>4, <2>3, <2>4 DEF BuildInv
  <1>8. TreeInv
    BY <1>2 DEF TreeInv
  <1>9. PrerequisitesComeFirst /\ SumInv
    BY <1>2 DEF PrerequisitesComeFirst, SumInv
  <1>10. QED
    BY <1>6, <1>7, <1>8, <1>9 DEF PlanInv

\* PlanInv speaks of the variables of the plan only.
LEMMA PlanStutters ==
    ASSUME PlanInv, UNCHANGED planVars
    PROVE  PlanInv'
  <1>1. UNCHANGED <<toc, building, targets, tree, root, covers, graph, standing, summing, view, step>>
    BY DEF planVars
  <1>2. PlanTypeOK' /\ BuildInv'
    BY <1>1 DEF PlanInv, PlanTypeOK, BuildInv
  <1>3. TreeInv'
    BY <1>1 DEF PlanInv, TreeInv, NodeFits
  <1>4. PrerequisitesComeFirst'
    <2>1. step' = step /\ targets' = targets /\ graph' = graph
      BY <1>1
    <2>2. CASE step \in {"graph", "annotate", "view"}
      <3>1. PrerequisitesComeFirst
        BY DEF PlanInv
      <3>2. Prerequired(targets, graph)
        BY <2>2, <3>1, Zenon DEF PrerequisitesComeFirst, DistinctSections, Prerequired,
          NoneTwice, CleanOf, Earlier, Given
      <3>3. Prerequired(targets', graph')
        BY <2>1, <3>2
      <3>4. QED
        BY <3>3, Zenon DEF PrerequisitesComeFirst, DistinctSections, Prerequired,
          NoneTwice, CleanOf, Earlier, Given
    <2>3. CASE step \notin {"graph", "annotate", "view"}
      BY <2>1, <2>3 DEF PrerequisitesComeFirst
    <2>4. QED
      BY <2>2, <2>3
  <1>5. SumInv'
    BY <1>1 DEF PlanInv, SumInv, SumFits, LeftFits, ChildrenShown, ShownFits, SaysOf, CoversFrom, CoversUntil,
      Children, DoneBefore, IsCurrent
  <1>6. QED
    BY <1>2, <1>3, <1>4, <1>5 DEF PlanInv

\* Every step keeps the invariant.
LEMMA NextPlanKeepsInv ==
    ASSUME PlanInv, [NextPlan]_planVars
    PROVE  PlanInv'
  <1>1. CASE VisitStage \/ VisitNothing \/ VisitGroup \/ LeaveGroup \/ BuildPlan
    BY <1>1, VisitStageKeepsInv, VisitNothingKeepsInv, VisitGroupKeepsInv, LeaveGroupKeepsInv,
      BuildPlanKeepsInv
  <1>2. CASE ApplyGraph
    BY <1>2, ApplyGraphKeepsInv
  <1>3. CASE ShowProgress \/ AnnotateStage \/ OpenGroup \/ CloseGroup \/ FinishView
    BY <1>3, ShowProgressKeepsInv, AnnotateStageKeepsInv, OpenGroupKeepsInv, CloseGroupKeepsInv,
      FinishViewKeepsInv
  <1>4. CASE UNCHANGED planVars
    BY <1>4, PlanStutters
  <1>5. QED
    BY <1>1, <1>2, <1>3, <1>4 DEF NextPlan

\* The inductive invariant: the calls under way of either walk cover the
\* stages up to where the next one inside began, without gap.
THEOREM PlanInvariance == SpecPlan => []PlanInv
  <1>1. InitPlan => PlanInv
    BY PlanInitInv
  <1>2. PlanInv /\ [NextPlan]_planVars => PlanInv'
    BY NextPlanKeepsInv
  <1>3. QED
    BY <1>1, <1>2, PTL DEF SpecPlan

\* For any book, graph and standing: the type invariant of the plan.
THEOREM PlanAlwaysTyped == SpecPlan => []PlanTypeOK
  <1>1. PlanInv => PlanTypeOK
    BY DEF PlanInv
  <1>2. QED
    BY <1>1, PlanInvariance, PTL

\* For any table of contents, however deep, any generated graph and any
\* standing: list and tree are one order, a stage requires only earlier stages
\* and keeps the first valid requirements it was given, and every node shown
\* says of the stages below it what the counters say (build_hierarchical_plan,
\* normalize_prerequisite_graph, apply_prerequisite_graph, annotate_plan_tree).
THEOREM PlanAlwaysFitsBook == SpecPlan => []PlanFitsBook
  <1>1. PlanInv => StagesMatchTree
    BY DEF PlanInv, TreeInv, StagesMatchTree
  <1>2. PlanInv => PrerequisitesComeFirst
    BY DEF PlanInv
  <1>3. PlanInv => ProgressAddsUp
    <2>1. PlanInv /\ step = "view" => view[root] # NotSeen /\ \A n \in DOMAIN tree : ShownFits(n)
      BY DEF PlanInv, SumInv
    <2>2. QED
      BY <2>1 DEF ProgressAddsUp, ShownFits
  <1>4. PlanInv => PlanFitsBook
    BY <1>1, <1>2, <1>3 DEF PlanFitsBook
  <1>5. QED
    BY <1>4, PlanInvariance, PTL
==============================================================================
