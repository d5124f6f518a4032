\* SIGINT while a file is extracted through a temporary file.
SPECIFICATION Spec
CONSTANTS
    Workers = {w1, w2}
    a = a
    b = b
    nul = nul
    ChunkIDs <- MCChunkIDs
    NullID = nul
    Junk = Junk
    NoData = NoData
    NSeeds = 1
    Options <- MCInterrupted
    Blobs = {}
    InitContents <- MCInitContents
    Limit = 0
    NullReflink = FALSE
    MayFail = FALSE
    MayCancel = TRUE
    MaxSeedChanges = 0
    MaxRuns = 1
INVARIANTS
    PublishedComplete
