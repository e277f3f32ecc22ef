\* A duplicate submission that meets a failed attempt whose retry is pending.
SPECIFICATION Spec
CONSTANTS
    Keys = {k1}
    Calls = {c1, c2, c3}
    Workers = {w1}
    MaxRetries = 1
    Faults = {"engine"}
    NoKey = NoKey
INVARIANTS DuplicatesGetCachedResult
CHECK_DEADLOCK FALSE
