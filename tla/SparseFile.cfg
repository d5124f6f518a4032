\* Two readers, a preloader, loads that fail, kills and three processes.
SPECIFICATION Spec
CONSTANTS
    a = a
    b = b
    nul = nul
    Readers = {r1, r2}
    Preloaders = {p1}
    Indexes <- MCIndex
    Sizes <- MCSizes
    NullID = nul
    Junk = Junk
    MaxLength = 2
    SaveState = TRUE
    InitChoices = {TRUE, FALSE}
    MayFail = TRUE
    MaxReads = 2
    MaxRuns = 3
INVARIANTS
    DoneMeansWritten
    WrongOnlyAfterFailure
PROPERTIES
    ReadsReturn
