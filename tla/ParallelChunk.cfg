\* All small files, long runs of zeros, unreadable files; three goroutines.
SPECIFICATION Spec
CONSTANTS
    N = 3
    MinSize = 1
    MaxSize = 3
    Files <- MCFiles
    Faulty <- MCFaulty
    Interruptible <- MCInterruptible
INVARIANTS
    TypeOK
    PrefixOfSequential
    WholeUnlessPassedOver
    OneConsumer
    BucketsHoldAll
PROPERTIES
    Terminates
