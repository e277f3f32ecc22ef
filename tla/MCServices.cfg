CONSTANTS
    \* AuthSessions
    Requests = {a1, a2, a3}
    Emails = {e1}
    Passwords = {p1, p2}
    AttemptLimit = 1
    Window = 1
    SessionTtl = 2
    TokenTtl = 1
    MaxTime = 2
    MaxSwitches = 1
    None = None
    \* ContentChunks
    Elements <- MCElements
    MaxElements = 4
    TargetTokens = 4
    OverlapTokens = 2
    MinSignal = 2
    MathFloor = 1
    \* ContentIndex
    Indexers = {i1, i2}
    Flags <- MCFlags
    Docs = {1, 2}
    Revisions = {"r1", "r2"}
    Corpus <- MCCorpus
    NoRevision = "none"
    PointBatch = 2
    MaxEdits = 1
    MaxRuns = 2
    \* PlanTemplate
    Names <- MCNames
    Contents <- MCContents
    RawGraphs <- MCRawGraphs
    Standings <- MCStandings
    \* LearnerMemory
    HistoryLimit = 1
    SyncInterval = 1
    MaxTurns = 3
    NoMemory = NoMemory
    \* LearnerProjection: turns of two requests and an evaluation
    ModuleOf <- MCModuleOf
    Refreshers = {f1, f2}
    Evaluators = {v1}
    Scores = {18}
    Decisions = {"incorrect"}
    DecayEnabled = TRUE
    Grace = 0
    HalfLife = 1
    MaxTicks = 1
    NoRow = NoRow
    \* FrontendSession: one learner logs out and one in, a message and a second try
    Learners = {l1, l2}
    NoLearner = None
    StageSections = {"s1", "s2"}
    NoSection = None
    Messages = {"yes"}
    NoMessage = ""
    NoClosure = None
    MaxLogins = 3
    MaxClicks = 2
    MaxReadiness = 1
    \* SectionUnderstanding
    Turns = {t1, t2}
    Items = {x, y}
    Answers <- Understandings
    MaxVersion = 2
    NoArtifact = NoArtifact
    \* LessonCache
    LessonTurns = {t1, t2}
    Signals = {"needs_support", "ready"}
    Briefs = {"strong", "weak"}
    SectionSources <- MCSources
    NoLesson = NoLesson
    \* GroundedAnswer
    Questions = {q1, q2}
    Terms <- MCTerms
    ChunkIds = {"a", "b", "c"}
    Searches <- MCSearches
    Similar = {{"a", "b"}}
    FinalK = 2
    MinScore = 2
    MinChars = 2
    MinTerms = 2
    OfftopicCeiling = 5
    RewriteGain = 1
    MaxAttempts = 2
    \* Embedding
    TextIds = {"a", "b", "c", "d", "q"}
    Batches <- MCBatches
    Queries <- MCQueries
    ContextWords = 2
    BatchRetries = 1
    TextRetries = 1
    CacheSize = 1
    MaxRequests = 3
    \* the others
    q1 = q1
    q2 = q2
    f1 = f1
    f2 = f2
    t1 = t1
    t2 = t2
    x = x
    y = y
    l1 = l1
    l2 = l2
    a1 = a1
    a2 = a2
    a3 = a3
    p1 = p1
    p2 = p2
    i1 = i1
    i2 = i2
SPECIFICATION Spec
INVARIANTS
    TypeOK
    ChunksHoldDocument
    FingerprintIsEarned
    RecreateIsExact
    PlanFitsBook
    NothingTruncated
    GroundedInSources
    SessionsAreEarned
    AttemptsBounded
    MemoryForgetsOnlyByOverlap
    DeadlockNeedsNewEvidence
    ProgressBehindOnlyWhenRaced
    ContextConsistent
    UnderstandingHolds
    ServedLessonIsOfItsSource
    SessionShowsItsLearner
CHECK_DEADLOCK FALSE
