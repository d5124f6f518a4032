\* Two chunks, two writers, prune and verify of all kinds of stores, one kill
\* or failure, an interrupt.
SPECIFICATION Spec
CONSTANTS
    Ids = {1, 2}
    Writers = {1, 2}
    N = 2
    MaxFaults = 1
    Jobs <- MCJobs
    Contents <- MCContents
    ToStore <- MCToStore
INVARIANTS
    StoredStaysWhole
    SuccessMeansClean
PROPERTIES
    JobsReturn
    ImplementsChunkSet
