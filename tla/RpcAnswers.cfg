SPECIFICATION Spec
CONSTANTS
    Callers = {backfill, pager}
    Listers = {pager}
    Pages = {2}
    N = 2
    Burst = 1
    Threshold = 2
    MaxCalls = 4
INVARIANTS
    AnswersAreGiven
CHECK_DEADLOCK FALSE
