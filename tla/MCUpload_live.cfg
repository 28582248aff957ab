SPECIFICATION FairSpec
CONSTANTS
    Keys = {k1}
    Blobs <- LargeSmallOrBefore
    Sizes <- NegativeOrTwo
    FilesAtSameTime = 0
    None = None
    Drains = {d1, d2}
    Requests = {r1}
    HighWaterMark = 2
    TruncateFile = FALSE
    MaxStreams = 1
    MaxBlobs = 2
    MaxReceived = 3
PROPERTIES
    FullyReceivedUploadEnds
