\* No task is lost and every published turn settles, while the broker, the
\* engine and the API may fail but workers and the database stay up.
SPECIFICATION FairSpec
CONSTANTS
    Keys = {k1}
    Calls = {c1, c2}
    Workers = {w1, w2}
    MaxRetries = 2
    Faults = {"api_crash", "broker", "engine"}
    NoKey = NoKey
INVARIANTS NoTaskLost
PROPERTIES PublishedTurnSettles
CHECK_DEADLOCK FALSE
