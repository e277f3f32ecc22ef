SPECIFICATION FairSpec
CONSTANTS
    Turns = {t1, t2}
    Totals = {2, 3}
    Cap = 3
INVARIANTS
    ContextInPlan
    CountFollowsPosition
    ProgressIsEarned
    IndInv
PROPERTIES
    MovingOnFinishes
CHECK_DEADLOCK FALSE
