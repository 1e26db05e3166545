SPECIFICATION Spec
CONSTANTS
    Requests = {r1, r2}
    Lifespan = lifespan
    Threads = {t1, t2}
    Mappings = {m1, m2}
    Devices = {d1}
    Ports = {p1, p2}
    Macs = {x1}
    NoThread = NoThread
    NoRow = NoRow
    MaxBusy = 0
    Ops = {"resume", "pause", "create_listener", "update_listener", "delete_listener", "update_device"}
    Exclusive = {}
    Faults = {"runtime"}
INVARIANTS
    TypeOK
    SocketsOwned
    OneListenerPerMapping
    PauseSectionSilent
PROPERTIES
    ActiveReportedAfterBind
    ImplementsService
SYMMETRY Symmetry
