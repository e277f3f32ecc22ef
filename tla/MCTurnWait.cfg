\* Both ways of waiting, with and without Redis, with faults.
SPECIFICATION FairSpec
CONSTANTS
    Deadline = 5
    Poll = 2
    MaxTime = 9
    MaxRetries = 1
    RedisFaults = TRUE
INVARIANTS StreamMissesOnlyLastPoll SyncPollsToTheEnd SyncHearsNotice
PROPERTIES EveryWaiterAnswers
CHECK_DEADLOCK FALSE
