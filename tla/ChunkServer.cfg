\* Two clients, one of them perhaps refused, two attempts, four configurations with
\* one reload, one failure.
SPECIFICATION Spec
CONSTANTS
    c1 = c1
    c2 = c2
    Clients = {c1, c2}
    Ids = {1}
    ErrorRetry = 2
    Sessions = 1
    MaxReloads = 1
    MaxFaults = 1
    Stores <- MCStores
    Kind <- MCKind
    Configs <- MCConfigs
    Options <- MCOptions
    Holdings <- MCHoldings
INVARIANTS
    NoUseAfterClose
PROPERTIES
    ImplementsChunkService
    RequestsAnswered
