\* Two epochs' listeners against a backfill goroutine over two heights.
CONSTANTS
    None = None
    Heights = {h1, h2}
    Refused = {}
    Processes = {"indexer", "backfill"}
    Publishing = {"indexer"}
    Removing = {"indexer"}
    Listeners = {l1, l2}
    Fetchers = {f1}
    Home <- MCHome
    MaxEpoch = 2
SYMMETRY MCSymmetry
SPECIFICATION Spec
INVARIANTS TypeOK SummaryCountsStoredRows TxHoldsItsPool
PROPERTY ImplementsLedger
