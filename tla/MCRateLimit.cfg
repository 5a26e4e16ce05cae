CONSTANTS
    Clients = {c1, c2}
    Requests = {r1, r2}
    Backends = {"redis", "memory"}
    Limit = 2
    Window = 3
    MaxLag = 1
    None = None
SPECIFICATION FairSpec
INVARIANTS
    TypeOK
    AdmissionsBounded
PROPERTIES
    WindowsEnd
