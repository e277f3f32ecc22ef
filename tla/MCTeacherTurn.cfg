SPECIFICATION Spec
CONSTANTS
    Executions = {e1, e2}
    Total = 2
    Requests <- MCRequests
    Tasks <- MCTasks
    Proposals <- MCProposals
    Verdicts = {"correct", "incorrect"}
    Confidences = {TRUE}
    Window = 1
    MaxTurns = 2
    MaxRaises = 1
SYMMETRY Symmetry
INVARIANTS
    TypeOK
    SnapshotMatchesEvidence
    MasteryIsEarned
    AnswersAccountedFor
    AnsweredStaysAnswered
    SkippedWorkIsOwed
PROPERTIES
    ImplementsPlanProgress
CHECK_DEADLOCK FALSE
