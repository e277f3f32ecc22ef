\* Safety and the abstract lifecycle with every kind of failure: one turn,
\* three submissions of it, two workers, one retry.
SPECIFICATION Spec
CONSTANTS
    Keys = {k1}
    Calls = {c1, c2, c3}
    Workers = {w1, w2}
    MaxRetries = 1
    Faults = {"api_crash", "worker_crash", "broker", "database", "engine"}
    NoKey = NoKey
SYMMETRY ProcessSymmetry
INVARIANTS RowsAgree OneWorkerPerTurn RepetitionFollowsFailure AnswersAgree IndInv
PROPERTIES ImplementsLifecycle
CHECK_DEADLOCK FALSE
