SPECIFICATION Spec
CONSTANTS
    Executions = {e1}
    Total = 2
    Requests <- MCRequests
    Tasks <- MCTasks
    Proposals <- MCProposals
    Verdicts = {"correct", "partial", "incorrect"}
    Confidences = {TRUE, FALSE}
    Window = 3
    MaxTurns = 3
    MaxRaises = 0
INVARIANTS
    PenaltyOnlyWhenCorrect
CHECK_DEADLOCK FALSE
