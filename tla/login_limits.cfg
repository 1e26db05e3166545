SPECIFICATION Spec
CONSTANTS
    Requests = {r1, r2}
    Clients = {c1}
    LoginLimit = 2
    SetupLimit = 1
    ResetLimit = 1
    Window = 2
    MaxDelay = 1
    MaxTime = 4
    NoRequest = NoRequest
INVARIANTS
    AttemptsBounded
PROPERTIES
    RefusalsJustified
SYMMETRY Symmetry
