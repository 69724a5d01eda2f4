\* The calls return and the heights arrive, whatever fails on the way.
CONSTANTS
    None = None
    Heights = {h1}
    Refused = {}
    Processes = {"indexer", "backfill"}
    Publishing = {"indexer"}
    Removing = {"indexer"}
    Listeners = {l1, l2}
    Fetchers = {f1}
    Home <- MCHome
    MaxEpoch = 2
SPECIFICATION FairSpec
PROPERTY EveryHeightIsStored RemovalEnds
