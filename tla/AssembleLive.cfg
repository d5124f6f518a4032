\* Liveness: two seeds, stale or changed meanwhile, failures, interrupts.
SPECIFICATION Spec
CONSTANTS
    Workers = {w1, w2}
    a = a
    b = b
    nul = nul
    ChunkIDs <- MCChunkIDs
    NullID = nul
    Junk = Junk
    NoData = NoData
    NSeeds = 2
    Options <- MCTwoSeeds
    Blobs <- MCBlobs
    InitContents <- MCOldContents
    Limit = 2
    NullReflink = FALSE
    MayFail = TRUE
    MayCancel = TRUE
    MaxSeedChanges = 1
    MaxRuns = 1
PROPERTIES
    Terminates
