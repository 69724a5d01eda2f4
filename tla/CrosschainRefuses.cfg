SPECIFICATION Spec
CONSTANTS
    Chains <- OneChain
    Heights = {1, 2}
    Tables <- MCTables
    Content <- MCContent
    Processes = {"indexer", "backfill"}
    Rediscovering = {"indexer"}
    Writers = {"listener", "fetcher"}
    Home <- MCHome
    View <- MCView
    None = None
    Faults = FALSE
INVARIANTS
    TriggersRefuseNothing
CHECK_DEADLOCK FALSE
