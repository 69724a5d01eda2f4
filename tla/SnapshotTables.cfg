\* Histories of three blocks, written in every order and in both ways.
CONSTANTS
    None = None
    Blobs <- MCBlobs
    MaxHeight = 3
SPECIFICATION Spec
INVARIANTS TypeOK HistoryIsExact ResetsAreSeen SeatsByValidatorRow DeltasAddUp
