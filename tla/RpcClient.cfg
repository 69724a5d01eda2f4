SPECIFICATION Spec
CONSTANTS
    Callers = {backfill, pager}
    Listers = {pager}
    Pages = {2, 3}
    N = 1
    Burst = 1
    Threshold = 2
    MaxCalls = 2
INVARIANTS
    TypeOK
    BucketIsBounded
    BreakerFollowsFailures
    SilentOnlyIfNobodyAsked
PROPERTIES
    CallsReturn
CHECK_DEADLOCK FALSE
