SPECIFICATION Spec
CONSTANTS
    Keys = {k1, k2}
    Blobs <- Single
    Sizes = {1}
    FilesAtSameTime = 0
    None = None
    Drains = {d1, d2}
    Requests = {r1}
    HighWaterMark = 1
    TruncateFile = TRUE
    MaxStreams = 1
    MaxBlobs = 2
    MaxReceived = 2
SYMMETRY Symmetry
INVARIANTS
    WritingLimit
