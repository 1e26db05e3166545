SPECIFICATION FairSpec
CONSTANTS
    Requests = {r1, r2}
    Lifespan = lifespan
    Threads = {t1, t2}
    Mappings = {m1}
    Devices = {d1}
    Ports = {p1, p2}
    Macs = {x1}
    NoThread = NoThread
    NoRow = NoRow
    MaxBusy = 1
    Ops = {"create_listener", "update_listener", "delete_listener", "update_device", "update_settings", "cleanup", "resume", "pause"}
    Exclusive = {"resume", "pause"}
    Faults = {"thread"}
INVARIANTS
    Converged
    PauseClosesSockets
    ObservedTruthful
PROPERTIES
    LockReleased
