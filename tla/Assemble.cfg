\* Old data, stale and changing seeds, failures, an interrupt, a kill and a
\* second run.
SPECIFICATION Spec
CONSTANTS
    Workers = {w1, w2}
    a = a
    b = b
    nul = nul
    ChunkIDs <- MCChunkIDs
    NullID = nul
    Junk = Junk
    NoData = NoData
    NSeeds = 1
    Options <- MCOptions
    Blobs <- MCBlobs
    InitContents <- MCInitContents
    Limit = 0
    NullReflink = FALSE
    MayFail = TRUE
    MayCancel = TRUE
    MaxSeedChanges = 2
    MaxRuns = 2
SYMMETRY MCSymmetry
INVARIANTS
    TypeOK
    PlanCoversNonEmptyIndex
    SelfSeedSound
    NilMeansComplete
    SelfSeedDrained
    InvalidSeedsUnused
PROPERTIES
    CorrectChunksKept
    ImplementsExtract
