\* Archives of nested trees cut inside and between elements, up to six chunks,
\* two workers, one failure, an interrupt.
SPECIFICATION Spec
CONSTANTS
    N = 2
    MaxFaults = 1
    MaxItems = 17
    NameHash <- MCNameHash
    Jobs <- MCJobs
INVARIANTS
    NilMeansWholeTree
    GoodbyeLeadsToItems
PROPERTIES
    UntarReturns
