\* A worker that finishes between the initial check and the subscription.
SPECIFICATION Spec
CONSTANTS
    Deadline = 3
    Poll = 1
    MaxTime = 5
    MaxRetries = 0
    RedisFaults = FALSE
INVARIANTS InitialCheckCoversRace
CHECK_DEADLOCK FALSE
