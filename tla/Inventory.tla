------------------------------ MODULE Inventory ------------------------------
(***************************************************************************)
(* Devices, listener mappings and the UDP range in the database, and the   *)
(* transactions that change them: DeviceService and ListenerService        *)
(* (app/application/operations_service.py), update_udp_range and the       *)
(* retention clean-up (app/application/observability_service.py).          *)
(*                                                                         *)
(* Requests run concurrently, each in a READ COMMITTED transaction of its  *)
(* own: a query sees what is committed when it runs, SELECT ... FOR UPDATE *)
(* waits for the row and reads its latest version, and uniqueness and      *)
(* foreign keys are enforced when the changes are flushed.  A transaction  *)
(* is a step that locks or reads, a step that validates, and a step that   *)
(* flushes and commits.                                                    *)
(*                                                                         *)
(* A request that the service refuses without having held a lock leaves no *)
(* trace and is not modelled; one that it refuses later ends by Refuse.    *)
(* What the engine does after a commit is in Engine.                       *)
(***************************************************************************)
EXTENDS Naturals, FiniteSets

CONSTANTS
    Requests,           \* workers that run route handlers
    Mappings,           \* ids of listener_mappings rows
    Devices,            \* ids of devices rows
    NoRow,              \* a mapping id that is not in the table
    PublishedStart,     \* the UDP range the container publishes
    PublishedEnd,
    HostBusy,           \* ports that other processes of the host have open
    MaxVersion,         \* bound: versions of a mapping that are explored
    MaxEvents,          \* bound: pairs with wake events that are explored
    Ops                 \* the route handlers that clients call

AllOps == {"create_listener", "update_listener", "delete_listener",
           "create_device", "update_device", "delete_device",
           "update_udp_range", "wake", "cleanup"}

ASSUME PublishedAssumption ==
    /\ PublishedStart \in Nat \ {0}
    /\ PublishedEnd \in Nat
    /\ PublishedStart <= PublishedEnd
ASSUME OpsKnown == Ops \subseteq AllOps
ASSUME BoundsAssumption == MaxVersion \in Nat /\ MaxEvents \in Nat
ASSUME TablesNonempty == Mappings # {} /\ Devices # {}

Ports == PublishedStart .. PublishedEnd
AutoPort == 0           \* no udp_port in the request: allocate one
RequestedPort == Ports \cup {AutoPort}

VARIABLES
    udpRange,           \* application_settings.udp_port_start and _end
    device,             \* table devices: "absent", "enabled" or "disabled"
    mapping,            \* table listener_mappings
    events,             \* the (mapping, device) pairs with rows in wake_events
    settingsLock,       \* owner of the row lock on application_settings
    rowLock,            \* owner of the row lock on each mapping
    pc,                 \* the step each request is at
    arg,                \* what each request asked for, or has read
    updates             \* history: updates committed per mapping

vars == <<udpRange, device, mapping, events, settingsLock, rowLock, pc, arg,
          updates>>

MappingRow == [device : Devices, port : Ports, enabled : BOOLEAN,
               version : Nat]
Range == [start : Ports, end : Ports]
Args == [m : Mappings, d : Devices, port : RequestedPort,
         enabled : BOOLEAN, version : Nat, range : Range]
Published == [start |-> PublishedStart, end |-> PublishedEnd]

ASSUME NoRowDistinct == NoRow \notin MappingRow

Existing == {m \in Mappings : mapping[m] # NoRow}
InRange(p, range) == range.start <= p /\ p <= range.end
NoArgs == [m |-> CHOOSE m \in Mappings : TRUE,
           d |-> CHOOSE d \in Devices : TRUE,
           port |-> AutoPort, enabled |-> FALSE, version |-> 0,
           range |-> Published]

Init ==
    /\ udpRange = Published
    /\ device \in [Devices -> {"absent", "enabled", "disabled"}]
    /\ mapping = [m \in Mappings |-> NoRow]
    /\ events = {}
    /\ settingsLock = {}
    /\ rowLock = [m \in Mappings |-> {}]
    /\ pc = [r \in Requests |-> "idle"]
    /\ arg = [r \in Requests |-> NoArgs]
    /\ updates = [m \in Mappings |-> 0]

-----------------------------------------------------------------------------
Arrive(r, o) == o \in Ops /\ pc[r] = "idle"

Continue(r, step, args) ==
    /\ pc' = [pc EXCEPT ![r] = step]
    /\ arg' = [arg EXCEPT ![r] = args]

\* The end of the transaction gives up its row locks.
End(r) ==
    /\ pc' = [pc EXCEPT ![r] = "idle"]
    /\ arg' = [arg EXCEPT ![r] = NoArgs]
    /\ settingsLock' = settingsLock \ {r}
    /\ rowLock' = [m \in Mappings |-> rowLock[m] \ {r}]

PortTaken(p, except) == \E m \in Existing \ {except} : mapping[m].port = p

\* The service raises, or the flush violates a constraint: roll back.
Refuse(r) ==
    /\ End(r)
    /\ UNCHANGED <<udpRange, device, mapping, events, updates>>

-----------------------------------------------------------------------------
(***************************************************************************)
(* ListenerService.create.                                                 *)
(***************************************************************************)
\* The steps of a request about one mapping.  Ids are UUIDs: one that a request
\* still refers to is not drawn again.
CreateSteps == {"createCheck", "createCommit"}
UpdateSteps == {"updateCheck", "updateCommit"}
MappingSteps == CreateSteps \cup UpdateSteps \cup {"deleteCommit"}

\* Mutant: the settings row is read without FOR UPDATE.
CreateUnlocked(r, m, d, p, e) ==
    /\ Arrive(r, "create_listener")
    /\ mapping[m] = NoRow
    /\ \A q \in Requests : pc[q] \in MappingSteps => arg[q].m # m
    /\ UNCHANGED settingsLock
    /\ Continue(r, "createCheck",
                [NoArgs EXCEPT !.m = m, !.d = d, !.port = p, !.enabled = e])
    /\ UNCHANGED <<udpRange, device, mapping, events, rowLock, updates>>

\* SELECT ... FROM application_settings FOR UPDATE.
CreateLock(r, m, d, p, e) ==
    /\ Arrive(r, "create_listener")
    /\ mapping[m] = NoRow
    /\ \A q \in Requests : pc[q] \in MappingSteps => arg[q].m # m
    /\ settingsLock = {}
    /\ settingsLock' = {r}
    /\ Continue(r, "createCheck",
                [NoArgs EXCEPT !.m = m, !.d = d, !.port = p, !.enabled = e])
    /\ UNCHANGED <<udpRange, device, mapping, events, rowLock, updates>>

\* _allocate_port: the lowest free port of the range.
Free == {p \in Ports : /\ InRange(p, udpRange)
                       /\ ~\E m \in Existing : mapping[m].port = p
                       /\ p \notin HostBusy}
IsLowestFree(p) == p \in Free /\ \A q \in Free : p <= q

CreateValid(r, p) ==
    /\ device[arg[r].d] # "absent"
    /\ arg[r].enabled => device[arg[r].d] = "enabled"
    /\ IF arg[r].port = AutoPort THEN IsLowestFree(p) ELSE p = arg[r].port
    /\ InRange(p, udpRange)
    /\ ~PortTaken(p, arg[r].m)
    /\ p \notin HostBusy

\* Mutant: the allocated port is dropped.
CreateCheckUnallocated(r) ==
    /\ pc[r] = "createCheck"
    /\ \/ \E p \in Ports :
            /\ CreateValid(r, p)
            /\ Continue(r, "createCommit", arg[r])
            /\ UNCHANGED <<udpRange, device, mapping, events, settingsLock,
                           rowLock, updates>>
       \/ (\A p \in Ports : ~CreateValid(r, p)) /\ Refuse(r)

CreateCheck(r) ==
    /\ pc[r] = "createCheck"
    /\ \/ \E p \in Ports :
            /\ CreateValid(r, p)
            /\ Continue(r, "createCommit", [arg[r] EXCEPT !.port = p])
            /\ UNCHANGED <<udpRange, device, mapping, events, settingsLock,
                           rowLock, updates>>
       \/ (\A p \in Ports : ~CreateValid(r, p)) /\ Refuse(r)

\* Mutant: udp_port has no unique constraint.
FlushableDuplicate(r) ==
    device[arg[r].d] # "absent"

\* The flush: the port is unique and the device exists, or IntegrityError.
Flushable(r) ==
    ~PortTaken(arg[r].port, arg[r].m) /\ device[arg[r].d] # "absent"

CreateCommit(r) ==
    /\ pc[r] = "createCommit"
    /\ \/ /\ Flushable(r)
          /\ mapping' = [mapping EXCEPT ![arg[r].m] =
                 [device |-> arg[r].d, port |-> arg[r].port,
                  enabled |-> arg[r].enabled, version |-> 1]]
          /\ End(r)
          /\ updates' = [updates EXCEPT ![arg[r].m] = 0]
          /\ UNCHANGED <<udpRange, device, events>>
       \/ ~Flushable(r) /\ Refuse(r)

-----------------------------------------------------------------------------
(***************************************************************************)
(* ListenerService.update.  The client sends the version it last saw; any  *)
(* version may arrive.                                                     *)
(***************************************************************************)
\* Mutant: the lock on the mapping does not exclude other editors.
UpdateShared(r, m, v, d, p, e) ==
    /\ Arrive(r, "update_listener")
    /\ mapping[m] # NoRow
    /\ mapping[m].version = v
    /\ v < MaxVersion
    /\ rowLock' = [rowLock EXCEPT ![m] = @ \cup {r}]
    /\ Continue(r, "updateCheck",
                [NoArgs EXCEPT !.m = m, !.d = d, !.port = p, !.enabled = e,
                               !.version = v])
    /\ UNCHANGED <<udpRange, device, mapping, events, settingsLock, updates>>

\* SELECT ... FROM listener_mappings FOR UPDATE, then the version check.
UpdateLock(r, m, v, d, p, e) ==
    /\ Arrive(r, "update_listener")
    /\ mapping[m] # NoRow
    /\ rowLock[m] = {}
    /\ mapping[m].version = v
    /\ v < MaxVersion
    /\ rowLock' = [rowLock EXCEPT ![m] = {r}]
    /\ Continue(r, "updateCheck",
                [NoArgs EXCEPT !.m = m, !.d = d, !.port = p, !.enabled = e,
                               !.version = v])
    /\ UNCHANGED <<udpRange, device, mapping, events, settingsLock, updates>>

\* The range and the device are read without a lock.
UpdateValid(r) ==
    /\ device[arg[r].d] # "absent"
    /\ arg[r].enabled => device[arg[r].d] = "enabled"
    /\ InRange(arg[r].port, udpRange)
    /\ ~PortTaken(arg[r].port, arg[r].m)
    /\ arg[r].port # mapping[arg[r].m].port => arg[r].port \notin HostBusy

UpdateCheck(r) ==
    /\ pc[r] = "updateCheck"
    /\ \/ /\ UpdateValid(r)
          /\ Continue(r, "updateCommit", arg[r])
          /\ UNCHANGED <<udpRange, device, mapping, events, settingsLock,
                         rowLock, updates>>
       \/ ~UpdateValid(r) /\ Refuse(r)

UpdateCommit(r) ==
    /\ pc[r] = "updateCommit"
    /\ \/ /\ Flushable(r)
          /\ mapping' = [mapping EXCEPT ![arg[r].m] =
                 [device |-> arg[r].d, port |-> arg[r].port,
                  enabled |-> arg[r].enabled, version |-> arg[r].version + 1]]
          /\ End(r)
          /\ updates' = [updates EXCEPT ![arg[r].m] = @ + 1]
          /\ UNCHANGED <<udpRange, device, events>>
       \/ ~Flushable(r) /\ Refuse(r)

-----------------------------------------------------------------------------
(***************************************************************************)
(* ListenerService.delete and DeviceService.delete: a check, and later a   *)
(* DELETE that waits for row locks and that the foreign keys may refuse.   *)
(***************************************************************************)
DeleteCheck(r, m) ==
    /\ Arrive(r, "delete_listener")
    /\ mapping[m] # NoRow
    /\ \A d \in Devices : <<m, d>> \notin events
    /\ Continue(r, "deleteCommit", [NoArgs EXCEPT !.m = m])
    /\ UNCHANGED <<udpRange, device, mapping, events, settingsLock, rowLock,
                   updates>>

DeleteCommit(r) ==
    /\ pc[r] = "deleteCommit"
    /\ rowLock[arg[r].m] = {}
    /\ \/ /\ \A d \in Devices : <<arg[r].m, d>> \notin events
          /\ mapping' = [mapping EXCEPT ![arg[r].m] = NoRow]
          /\ End(r)
          /\ updates' = [updates EXCEPT ![arg[r].m] = 0]
          /\ UNCHANGED <<udpRange, device, events>>
       \/ (\E d \in Devices : <<arg[r].m, d>> \in events) /\ Refuse(r)

\* Mutant: no foreign key of wake_events refers to devices.
DeviceInUseUnchecked(d) ==
    \E m \in Existing : mapping[m].device = d

DeviceInUse(d) ==
    \/ \E m \in Existing : mapping[m].device = d
    \/ \E m \in Mappings : <<m, d>> \in events

DeleteDeviceCheck(r, d) ==
    /\ Arrive(r, "delete_device")
    /\ device[d] # "absent"
    /\ \A m \in Existing : mapping[m].device # d
    /\ Continue(r, "deleteDeviceCommit", [NoArgs EXCEPT !.d = d])
    /\ UNCHANGED <<udpRange, device, mapping, events, settingsLock, rowLock,
                   updates>>

DeleteDeviceCommit(r) ==
    /\ pc[r] = "deleteDeviceCommit"
    /\ \/ /\ ~DeviceInUse(arg[r].d)
          /\ device' = [device EXCEPT ![arg[r].d] = "absent"]
          /\ End(r)
          /\ UNCHANGED <<udpRange, mapping, events, updates>>
       \/ DeviceInUse(arg[r].d) /\ Refuse(r)

CreateDevice(d, s) ==
    /\ "create_device" \in Ops
    /\ device[d] = "absent"
    /\ device' = [device EXCEPT ![d] = s]
    /\ UNCHANGED <<udpRange, mapping, events, settingsLock, rowLock, pc, arg,
                   updates>>

UpdateDevice(d, s) ==
    /\ "update_device" \in Ops
    /\ device[d] # "absent"
    /\ device' = [device EXCEPT ![d] = s]
    /\ UNCHANGED <<udpRange, mapping, events, settingsLock, rowLock, pc, arg,
                   updates>>

-----------------------------------------------------------------------------
(***************************************************************************)
(* ObservabilityService.update_udp_range.                                  *)
(***************************************************************************)
Excluded(range) == \E m \in Existing : ~InRange(mapping[m].port, range)

\* Mutant: the settings row is read without FOR UPDATE.
RangeUnlocked(r, range) ==
    /\ Arrive(r, "update_udp_range")
    /\ range.start <= range.end
    /\ ~Excluded(range)
    /\ UNCHANGED settingsLock
    /\ Continue(r, "rangeCommit", [NoArgs EXCEPT !.range = range])
    /\ UNCHANGED <<udpRange, device, mapping, events, rowLock, updates>>

\* The published check, FOR UPDATE on the settings and the count.
RangeLock(r, range) ==
    /\ Arrive(r, "update_udp_range")
    /\ range.start <= range.end
    /\ settingsLock = {}
    /\ ~Excluded(range)
    /\ settingsLock' = {r}
    /\ Continue(r, "rangeCommit", [NoArgs EXCEPT !.range = range])
    /\ UNCHANGED <<udpRange, device, mapping, events, rowLock, updates>>

RangeCommit(r) ==
    /\ pc[r] = "rangeCommit"
    /\ udpRange' = arg[r].range
    /\ End(r)
    /\ UNCHANGED <<device, mapping, events, updates>>

-----------------------------------------------------------------------------
(***************************************************************************)
(* wake_events: a listener thread records an event for the mapping and the *)
(* device of its snapshot, and RetentionService.cleanup removes old ones.  *)
(* The snapshot is as old as the thread: a thread that outlives its join   *)
(* records the device from which the mapping was moved away meanwhile, and *)
(* races with the deletion of both.                                        *)
(***************************************************************************)
\* The foreign keys decide; an insert that they refuse raises, and _run drops
\* the exception.
RecordEvent(m, d) ==
    /\ "wake" \in Ops
    /\ m \in Existing /\ device[d] # "absent"
    /\ Cardinality(events) < MaxEvents
    /\ events' = events \cup {<<m, d>>}
    /\ UNCHANGED <<udpRange, device, mapping, settingsLock, rowLock, pc, arg,
                   updates>>

RetentionCleanup(m, d) ==
    /\ "cleanup" \in Ops
    /\ <<m, d>> \in events
    /\ events' = events \ {<<m, d>>}
    /\ UNCHANGED <<udpRange, device, mapping, settingsLock, rowLock, pc, arg,
                   updates>>

-----------------------------------------------------------------------------
ListenerStep(r) ==
    \/ \E m \in Mappings, d \in Devices, p \in RequestedPort, e \in BOOLEAN :
           CreateLock(r, m, d, p, e)
    \/ \E m \in Mappings, v \in 1 .. MaxVersion, d \in Devices, p \in Ports,
          e \in BOOLEAN : UpdateLock(r, m, v, d, p, e)
    \/ \E m \in Mappings : DeleteCheck(r, m)
    \/ CreateCheck(r) \/ CreateCommit(r)
    \/ UpdateCheck(r) \/ UpdateCommit(r) \/ DeleteCommit(r)

DeviceStep(r) ==
    \/ \E d \in Devices : DeleteDeviceCheck(r, d)
    \/ DeleteDeviceCommit(r)

RangeStep(r) ==
    \/ \E range \in Range : RangeLock(r, range)
    \/ RangeCommit(r)

Next ==
    \/ \E r \in Requests : ListenerStep(r) \/ DeviceStep(r) \/ RangeStep(r)
    \/ \E d \in Devices, s \in {"enabled", "disabled"} :
           CreateDevice(d, s) \/ UpdateDevice(d, s)
    \/ \E m \in Mappings, d \in Devices :
           RecordEvent(m, d) \/ RetentionCleanup(m, d)

Spec == Init /\ [][Next]_vars

-----------------------------------------------------------------------------
(***************************************************************************)
(* Properties.                                                             *)
(***************************************************************************)
TypeOK ==
    /\ udpRange \in Range
    /\ device \in [Devices -> {"absent", "enabled", "disabled"}]
    /\ mapping \in [Mappings -> MappingRow \cup {NoRow}]
    /\ events \subseteq Mappings \X Devices
    /\ settingsLock \subseteq Requests
    /\ rowLock \in [Mappings -> SUBSET Requests]
    /\ pc \in [Requests -> MappingSteps \cup
                   {"idle", "deleteDeviceCommit", "rangeCommit"}]
    /\ arg \in [Requests -> Args]
    /\ \A r \in Requests :
           pc[r] \in {"createCommit"} \cup UpdateSteps => arg[r].port \in Ports
    /\ updates \in [Mappings -> Nat]

(* Optimistic versions lose no update: two clients that edit the version    *)
(* they both loaded cannot both succeed, so a mapping's version counts the  *)
(* updates that were accepted.                                              *)
NoLostUpdate ==
    \A m \in Existing : mapping[m].version = updates[m] + 1

(* docs/design/02: "A transaction and unique constraint prevent concurrent  *)
(* duplicates".                                                             *)
UniquePorts ==
    \A m, n \in Existing : m # n => mapping[m].port # mapping[n].port

(* No mapping refers to a deleted device and no event to a deleted mapping  *)
(* or device, although deletions check and delete in two steps and a        *)
(* listener thread records events for a device its mapping may have left.   *)
ReferencesValid ==
    /\ \A m \in Existing : device[mapping[m].device] # "absent"
    /\ \A m \in Mappings, d \in Devices :
           <<m, d>> \in events => m \in Existing /\ device[d] # "absent"

(* The row locks: a request between SELECT ... FOR UPDATE and its commit    *)
(* owns the settings row or the mapping row, and the version it has read is *)
(* still the committed one.                                                 *)
LocksHeld ==
    \A r \in Requests :
        /\ pc[r] \in CreateSteps \cup {"rangeCommit"} => settingsLock = {r}
        /\ pc[r] \in UpdateSteps =>
               /\ rowLock[arg[r].m] = {r}
               /\ arg[r].m \in Existing
               /\ mapping[arg[r].m].version = arg[r].version

\* A mapping under creation is not in the table yet.
CreatedFresh ==
    \A r \in Requests : pc[r] \in CreateSteps =>
        /\ arg[r].m \notin Existing
        /\ \A q \in Requests \ {r} :
               pc[q] \in MappingSteps => arg[q].m # arg[r].m

(* Creations and range changes lock application_settings, so a mapping that *)
(* has not been edited since its creation is in the active range: only       *)
(* update(), which reads the range without the lock, can leave one outside   *)
(* (operations_service.py, create and update; observability_service.py,      *)
(* update_udp_range).                                                        *)
CreatedInRange ==
    \A m \in Existing : updates[m] = 0 => InRange(mapping[m].port, udpRange)

\* What a request has validated under the lock on application_settings still
\* holds when it commits: the port it creates, the range it is going to set.
CheckedUnderLock ==
    \A r \in Requests :
        /\ pc[r] = "createCommit" => InRange(arg[r].port, udpRange)
        /\ pc[r] = "rangeCommit" =>
               \A m \in Existing :
                   updates[m] = 0 => InRange(mapping[m].port, arg[r].range)

(* The inductive invariant behind NoLostUpdate.                             *)
VersionInv == LocksHeld /\ CreatedFresh /\ NoLostUpdate
=============================================================================
