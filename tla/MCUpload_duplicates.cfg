SPECIFICATION Spec
CONSTANTS
    Keys = {k1}
    Blobs <- Halves
    Sizes = {0, 2}
    FilesAtSameTime = 1
    None = None
    Drains = {d1, d2}
    Requests = {r1, r2}
    HighWaterMark = 1
    TruncateFile = FALSE
    MaxStreams = 1
    MaxBlobs = 2
    MaxReceived = 3
INVARIANTS
    CompletedMeansWhole
