\* The API dies between the commit of the bundle and its publication.
SPECIFICATION FairSpec
CONSTANTS
    Keys = {k1}
    Calls = {c1, c2}
    Workers = {w1}
    MaxRetries = 1
    Faults = {"api_crash"}
    NoKey = NoKey
PROPERTIES OutboxDelivers
CHECK_DEADLOCK FALSE
