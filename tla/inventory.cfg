SPECIFICATION Spec
CONSTANTS
    Requests = {r1, r2}
    Mappings = {m1, m2}
    Devices = {d1, d2}
    NoRow = NoRow
    PublishedStart = 1
    PublishedEnd = 2
    HostBusy = {}
    MaxVersion = 2
    MaxEvents = 1
    Ops = {"create_listener", "update_listener", "delete_listener", "create_device", "update_device", "delete_device", "update_udp_range", "wake", "cleanup"}
INVARIANTS
    TypeOK
    NoLostUpdate
    UniquePorts
    ReferencesValid
    CreatedInRange
SYMMETRY Symmetry
