\* Blocks that were stored, but not compared with their predecessors.
CONSTANTS
    None = None
    Blobs <- MCBlobs
    MaxHeight = 3
SPECIFICATION Spec
INVARIANT ResetsAreSeenLive
