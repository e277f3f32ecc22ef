\* A worker restart while a task is being executed.
SPECIFICATION FairSpec
CONSTANTS
    Keys = {k1}
    Calls = {c1, c2}
    Workers = {w1}
    MaxRetries = 1
    Faults = {"worker_crash"}
    NoKey = NoKey
PROPERTIES TasksSurviveWorkerRestarts
CHECK_DEADLOCK FALSE
