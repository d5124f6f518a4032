\* Zeros and a short tail, and a goroutine that is late.
SPECIFICATION Spec
CONSTANTS
    N = 3
    MinSize = 1
    MaxSize = 3
    Files <- MCShortTail
    Faulty = {}
    Interruptible = {}
INVARIANTS
    OkMeansWholeFile
