\* Three clients, three stores of which one or none keeps working.
SPECIFICATION Spec
CONSTANTS
    N = 3
    Clients = {c1, c2, c3}
    Reliable <- MCReliable
INVARIANTS
    ReliableStoreServes
PROPERTIES
    StaysOnReliable
    RequestsReturn
