SPECIFICATION Spec
CONSTANTS
    Chains = {c1}
    Picked = {c1}
    Backfills = {b1, b2}
    Flags <- MCFlags
    Env <- MCEnv
    Refused = {2}
    MaxHead = 2
    MaxEdits = 2
    MaxFaults = 1
    None = None
INVARIANTS
    TypeOK
    BackfillsAreStoppable
    PassSkipsNothing
    ExitCodeIsTrue
PROPERTIES
    PassesRunDown
    GapsAreFilled
    StoppedBackfillsEnd
CHECK_DEADLOCK FALSE
