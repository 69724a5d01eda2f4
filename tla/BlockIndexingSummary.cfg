\* A height whose summary failed, with every retry allowed.
CONSTANTS
    None = None
    Heights = {h1}
    Refused = {}
    Processes = {"indexer", "backfill"}
    Publishing = {"indexer"}
    Removing = {"indexer"}
    Listeners = {l1}
    Fetchers = {f1}
    Home <- MCHome
    MaxEpoch = 1
SPECIFICATION FairSpec
PROPERTY StoredGetsSummarised
