\* Three clients that get, test and store a chunk, with failures.
SPECIFICATION Spec
CONSTANTS
    Clients = {c1, c2, c3}
    IDs = {i1}
    MaxCalls = 3
    MayFail = TRUE
INVARIANTS
    OneUpstreamRequest
    OkMeansStored
    NoStaleAnswers
    QueuesDrained
PROPERTIES
    CallsReturn
