SPECIFICATION Spec
CONSTANTS
    Chains <- OneChain
    Heights = {1, 2}
    Tables <- MCTables
    Content <- MCContent
    Processes = {"indexer", "backfill"}
    Rediscovering = {"indexer"}
    Writers = {"listener", "fetcher"}
    Home <- MCHome
    View <- MCView
    None = None
    Faults = TRUE
INVARIANTS
    TypeOK
    CopyTellsInsertedRows
    TriggersTogether
    NoOrphanCopies
PROPERTIES
    ActsSerially
CHECK_DEADLOCK FALSE
