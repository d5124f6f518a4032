\* All commands, two workers, failures and an interrupt.
SPECIFICATION Spec
CONSTANTS
    a = a
    b = b
    c = c
    Workers = {w1, w2}
    IDs <- MCIDs
    Commands = {"cache", "chop", "make", "tar", "verify-index"}
    Inputs <- MCInputs
    Bads <- MCBads
    BatchFactor = 1
    MayFail = TRUE
    MayCancel = TRUE
INVARIANTS
    TypeOK
    SuccessMeansDone
    OneWriterPerChunk
PROPERTIES
    Terminates
