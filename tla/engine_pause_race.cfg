SPECIFICATION Spec
CONSTANTS
    Requests = {r1, r2}
    Lifespan = lifespan
    Threads = {t1, t2}
    Mappings = {m1}
    Devices = {d1}
    Ports = {p1}
    Macs = {x1}
    NoThread = NoThread
    NoRow = NoRow
    MaxBusy = 1
    Ops = {"pause", "create_listener", "update_settings"}
    Exclusive = {}
    Faults = {}
INVARIANTS
    PauseClosesSockets
