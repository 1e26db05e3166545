------------------------------- MODULE Engine -------------------------------
(***************************************************************************)
(* The UDP wake engine inside the web process: EngineRuntime and the       *)
(* ManagedUDPListener threads (app/application/engine_runtime.py), driven  *)
(* by the HTTP routes that pause, resume and reconfigure it                *)
(* (app/web/operations_routes.py, observability_routes.py) and by the      *)
(* application lifespan (app/web/application.py).                          *)
(*                                                                         *)
(* Actors.  Each member of Requests is a worker of the web server's thread *)
(* pool that runs one route handler at a time; Lifespan is the start-up    *)
(* and shut-down code; each member of Threads is the thread of one bound   *)
(* UDP listener.  The database outlives a crash of the process, everything *)
(* else does not.                                                          *)
(*                                                                         *)
(* Granularity.  A database transaction of a service method is one step    *)
(* (the row locks inside ListenerService are the subject of Inventory).    *)
(* The engine_state row is the exception: it is loaded and flushed in two  *)
(* steps, and the flush writes only the columns whose value changed since  *)
(* the load, as the ORM does.                                              *)
(*                                                                         *)
(* Abstractions.  A packet that fails the source check or the parser       *)
(* changes nothing and is not modelled.  allowed_source_ip and             *)
(* driver_parameters travel with udp_port in the snapshot a thread holds,  *)
(* so the port stands for all three.  Time is abstract: an interval of     *)
(* rate_limit_seconds ends by CooldownEnds.                                *)
(***************************************************************************)
EXTENDS Naturals, FiniteSets

CONSTANTS
    Requests,       \* workers that run route handlers
    Lifespan,       \* the lifespan context manager of the application
    Threads,        \* identities for listener threads, reused after exit
    Mappings,       \* ids of rows of listener_mappings
    Devices,        \* ids of rows of devices (deletion is in Inventory)
    Ports,          \* UDP ports of the allowed range
    Macs,           \* MAC addresses found in magic packets
    NoThread,       \* a thread identity that is not in use
    NoRow,          \* a mapping id that is not in the table
    MaxBusy,        \* bound: threads that handle a packet at the same time
    Ops,            \* the route handlers that clients call
    Exclusive,      \* handlers that clients call only while no other runs
    Faults          \* where a database call may raise: "runtime", "thread"

Actors == Requests \cup {Lifespan}

AllOps == {"resume", "pause", "create_listener", "update_listener",
           "delete_listener", "update_device", "update_settings", "cleanup"}

ASSUME ActorsDistinct == Lifespan \notin Requests
ASSUME OpsKnown == Ops \subseteq AllOps /\ Exclusive \subseteq AllOps
ASSUME FaultsKnown == Faults \subseteq {"runtime", "thread"}
ASSUME MacsNonempty == Macs # {}

VARIABLES
    \* The database.
    enabledDevs,    \* devices with devices.enabled
    mapping,        \* table listener_mappings
    engine,         \* the row of engine_state
    recorded,       \* mappings with rows in wake_events
    \* The process.
    phase,          \* "down", "boot", "up" or "stopping"
    pc,             \* what each actor does next
    op,             \* the handler each actor runs
    loaded,         \* the engine_state row in each actor's ORM session
    observed,       \* the observed state that resume() returned
    lock,           \* owner of EngineRuntime._lock, or {}
    listeners,      \* EngineRuntime._listeners, as the set of its threads
    thread,         \* the listener threads
    \* Locals of resume() and pause(), live only under the lock.
    rows,           \* rows resume() has still to start
    marking,        \* the row just tried and its status, as a set
    failed,         \* failures > 0
    joining         \* the thread close() waits for, as a set

dbVars == <<enabledDevs, mapping, engine, recorded>>
localVars == <<rows, marking, failed, joining>>
vars == <<enabledDevs, mapping, engine, recorded, phase, pc, op, loaded,
          observed, lock, listeners, thread, rows, marking, failed, joining>>

Status == {"inactive", "active", "error"}
MappingRow == [device : Devices, port : Ports, enabled : BOOLEAN,
               status : Status]
\* RuntimeMapping: the snapshot of a row that a listener keeps.
RuntimeMapping == [id : Mappings, device : Devices, port : Ports]
EngineState == [desired : {"active", "paused"},
                observed : {"starting", "active", "degraded", "paused"}]
Results == {"none", "rate_limited", "success", "failed"}
\* ManagedUDPListener.  recent is the part of RateLimiter._last_allowed with
\* this listener's port that is younger than the interval: keys are (port,
\* MAC) and a limiter never has two listeners with one port.
Listener == [id : Mappings, device : Devices, port : Ports,
             pc : {"recv", "got", "material", "wake", "record"},
             mac : Macs, recent : SUBSET Macs, open : BOOLEAN,
             result : Results]

Paused == [desired |-> "paused", observed |-> "paused"]
Existing == {m \in Mappings : mapping[m] # NoRow}
Serving == {t \in Threads : thread[t] # NoThread /\ thread[t].open}
Busy == {t \in Threads : thread[t] # NoThread /\ thread[t].pc # "recv"}

\* The statuses of the actors that hold the lock.
Critical == {"close", "join", "rows", "bind", "mark", "statuses",
             "hbLoad", "hbFlush"}

ASSUME SentinelsDistinct == NoThread \notin Listener /\ NoRow \notin MappingRow

Init ==
    /\ enabledDevs \in SUBSET Devices
    /\ mapping = [m \in Mappings |-> NoRow]
    /\ engine \in {[desired |-> "paused", observed |-> "starting"],
                  [desired |-> "active", observed |-> "active"]}
    /\ recorded = {}
    /\ phase = "down"
    /\ pc = [a \in Actors |-> "idle"]
    /\ op = [a \in Actors |-> "none"]
    /\ loaded = [a \in Actors |-> Paused]
    /\ observed = [a \in Actors |-> "paused"]
    /\ lock = {}
    /\ listeners = {}
    /\ thread = [t \in Threads |-> NoThread]
    /\ rows = {} /\ marking = {} /\ failed = FALSE /\ joining = {}

-----------------------------------------------------------------------------
(***************************************************************************)
(* Actors leave a handler by Finish, which forgets its locals.             *)
(***************************************************************************)
Goto(a, next) == pc' = [pc EXCEPT ![a] = next]

Finish(a) ==
    /\ pc' = [pc EXCEPT ![a] = "idle"]
    /\ op' = [op EXCEPT ![a] = "none"]
    /\ loaded' = [loaded EXCEPT ![a] = Paused]
    /\ observed' = [observed EXCEPT ![a] = "paused"]

Begin(a, o, next) ==
    /\ pc' = [pc EXCEPT ![a] = next]
    /\ op' = [op EXCEPT ![a] = o]
    /\ UNCHANGED <<loaded, observed>>

\* A handler is entered by an idle worker of a process that accepts requests.
Arrive(a, o) ==
    /\ phase = "up" /\ o \in Ops /\ pc[a] = "idle" /\ a \in Requests
    /\ \A b \in Requests :
           pc[b] # "idle" => o \notin Exclusive /\ op[b] \notin Exclusive

-----------------------------------------------------------------------------
(***************************************************************************)
(* Route handlers.  Each service call commits and then the route calls     *)
(* runtime.reconcile_if_active(), which starts at "desired".               *)
(***************************************************************************)
ResumeEngine(a) ==
    /\ Arrive(a, "resume")
    /\ Begin(a, "resume", "lock")
    /\ UNCHANGED <<dbVars, localVars, phase, lock, listeners, thread>>

\* Mutant: the route does not call runtime.pause().
PauseEngineForgets(a) ==
    /\ Arrive(a, "pause")
    /\ Begin(a, "pause", "trLoad")
    /\ UNCHANGED <<dbVars, localVars, phase, lock, listeners, thread>>

PauseEngine(a) ==
    /\ Arrive(a, "pause")
    /\ Begin(a, "pause", "lock")
    /\ UNCHANGED <<dbVars, localVars, phase, lock, listeners, thread>>

PortTaken(p, except) == \E m \in Existing \ {except} : mapping[m].port = p
\* _port_available: the probe bind fails while a listener of this process,
\* or another process of the host (not modelled here), has the port open.
PortAvailable(p) == \A t \in Serving : thread[t].port # p

\* Ids are UUIDs: one that anything still refers to is never drawn again.
FreshId(m) ==
    /\ mapping[m] = NoRow
    /\ \A t \in Threads : thread[t] # NoThread => thread[t].id # m
    /\ \A x \in rows \cup marking : x.id # m

CreateListener(a, m, d, p, e) ==
    /\ Arrive(a, "create_listener")
    /\ FreshId(m)
    /\ e => d \in enabledDevs
    /\ ~PortTaken(p, m) /\ PortAvailable(p)
    /\ mapping' = [mapping EXCEPT ![m] =
           [device |-> d, port |-> p, enabled |-> e, status |-> "inactive"]]
    /\ Begin(a, "reconcile", "desired")
    /\ UNCHANGED <<enabledDevs, engine, recorded, localVars, phase,
                   lock, listeners, thread>>

\* Mutant: the route does not reconcile the engine.
UpdateListenerForgets(a, m, d, p, e) ==
    /\ Arrive(a, "update_listener")
    /\ mapping[m] # NoRow
    /\ e => d \in enabledDevs
    /\ ~PortTaken(p, m)
    /\ p # mapping[m].port => PortAvailable(p)
    /\ mapping' = [mapping EXCEPT ![m] =
           [device |-> d, port |-> p, enabled |-> e, status |-> "inactive"]]
    /\ Finish(a)
    /\ UNCHANGED <<enabledDevs, engine, recorded, localVars, phase,
                   lock, listeners, thread>>

UpdateListener(a, m, d, p, e) ==
    /\ Arrive(a, "update_listener")
    /\ mapping[m] # NoRow
    /\ e => d \in enabledDevs
    /\ ~PortTaken(p, m)
    /\ p # mapping[m].port => PortAvailable(p)
    /\ mapping' = [mapping EXCEPT ![m] =
           [device |-> d, port |-> p, enabled |-> e, status |-> "inactive"]]
    /\ Begin(a, "reconcile", "desired")
    /\ UNCHANGED <<enabledDevs, engine, recorded, localVars, phase,
                   lock, listeners, thread>>

DeleteListener(a, m) ==
    /\ Arrive(a, "delete_listener")
    /\ mapping[m] # NoRow /\ m \notin recorded
    /\ mapping' = [mapping EXCEPT ![m] = NoRow]
    /\ Begin(a, "reconcile", "desired")
    /\ UNCHANGED <<enabledDevs, engine, recorded, localVars, phase,
                   lock, listeners, thread>>

UpdateDevice(a, d, e) ==
    /\ Arrive(a, "update_device")
    /\ enabledDevs' = IF e THEN enabledDevs \cup {d} ELSE enabledDevs \ {d}
    /\ Begin(a, "reconcile", "desired")
    /\ UNCHANGED <<mapping, engine, recorded, localVars, phase,
                   lock, listeners, thread>>

\* update_settings, update_udp_range and create_device: they change nothing
\* the engine keeps, but they reconcile it.
UpdateSettings(a) ==
    /\ Arrive(a, "update_settings")
    /\ Begin(a, "reconcile", "desired")
    /\ UNCHANGED <<dbVars, localVars, phase, lock, listeners, thread>>

\* RetentionService.cleanup: every event of some mappings is past retention.
RetentionCleanup(m) ==
    /\ "cleanup" \in Ops /\ phase = "up"
    /\ m \in recorded
    /\ recorded' = recorded \ {m}
    /\ UNCHANGED <<enabledDevs, mapping, engine, localVars, phase,
                   pc, op, loaded, observed, lock, listeners, thread>>

-----------------------------------------------------------------------------
(***************************************************************************)
(* reconcile_if_active and start_from_desired_state read desired_state     *)
(* before they take the lock.                                              *)
(***************************************************************************)
ReconcileIfActive(a) ==
    /\ pc[a] = "desired" /\ a \in Requests
    /\ IF engine.desired = "active"
       THEN Goto(a, "lock") /\ UNCHANGED <<op, loaded, observed>>
       ELSE Finish(a)
    /\ UNCHANGED <<dbVars, localVars, phase, lock, listeners, thread>>

StartFromDesiredState ==
    /\ phase = "down"
    /\ phase' = "boot"
    /\ Begin(Lifespan, IF engine.desired = "active" THEN "resume" ELSE "pause",
             "lock")
    /\ UNCHANGED <<dbVars, localVars, lock, listeners, thread>>

\* The server stops accepting requests, then the lifespan's finally clause
\* calls runtime.shutdown().
Shutdown ==
    /\ phase = "up"
    /\ \A a \in Actors : pc[a] = "idle"
    /\ phase' = "stopping"
    /\ Begin(Lifespan, "shutdown", "lock")
    /\ UNCHANGED <<dbVars, localVars, lock, listeners, thread>>

-----------------------------------------------------------------------------
(***************************************************************************)
(* EngineRuntime, under its lock.                                          *)
(***************************************************************************)
\* Mutant: resume() and pause() are not serialised.
AcquireUnlocked(a) ==
    /\ pc[a] = "lock"
    /\ lock' = {a}
    /\ Goto(a, "close")
    /\ UNCHANGED <<dbVars, localVars, phase, op, loaded, observed,
                   listeners, thread>>

Acquire(a) ==
    /\ pc[a] = "lock"
    /\ lock = {}
    /\ lock' = {a}
    /\ Goto(a, "close")
    /\ UNCHANGED <<dbVars, localVars, phase, op, loaded, observed,
                   listeners, thread>>

\* ManagedUDPListener.close: set the stop flag and close the socket ...
CloseListener(a, t) ==
    /\ pc[a] = "close"
    /\ t \in listeners \cap Serving
    /\ thread' = [thread EXCEPT ![t].open = FALSE]
    /\ joining' = {t}
    /\ Goto(a, "join")
    /\ UNCHANGED <<dbVars, phase, op, loaded, observed, lock,
                   listeners, rows, marking, failed>>

\* Mutant: the join has no timeout.
JoinListenerForever(a) ==
    /\ pc[a] = "join"
    /\ \A t \in joining : thread[t] = NoThread
    /\ joining' = {}
    /\ Goto(a, "close")
    /\ UNCHANGED <<dbVars, phase, op, loaded, observed, lock,
                   listeners, thread, rows, marking, failed>>

\* ... and join with a timeout of 2 s.  A thread in recvfrom is gone within
\* the socket timeout of 0.5 s; one that handles a packet may outlive the join.
JoinListener(a) ==
    /\ pc[a] = "join"
    /\ \A t \in joining : thread[t] # NoThread => thread[t].pc # "recv"
    /\ joining' = {}
    /\ Goto(a, "close")
    /\ UNCHANGED <<dbVars, phase, op, loaded, observed, lock,
                   listeners, thread, rows, marking, failed>>

\* Mutant: _close_all clears the dictionary without closing.
CloseAllForgets(a) ==
    /\ pc[a] = "close"
    /\ listeners' = {}
    /\ IF op[a] = "shutdown"
       THEN /\ Finish(a)
            /\ phase' = "down"
            /\ lock' = {}
            /\ thread' = [t \in Threads |-> NoThread]
       ELSE /\ Goto(a, IF op[a] = "pause" THEN "statuses" ELSE "rows")
            /\ UNCHANGED <<phase, lock, thread, op, loaded, observed>>
    /\ UNCHANGED <<dbVars, localVars>>

\* The end of _close_all.  Shutdown is over: the process exits, and the
\* daemon threads with it.
CloseAllDone(a) ==
    /\ pc[a] = "close"
    /\ listeners \cap Serving = {}
    /\ listeners' = {}
    /\ IF op[a] = "shutdown"
       THEN /\ Finish(a)
            /\ phase' = "down"
            /\ lock' = {}
            /\ thread' = [t \in Threads |-> NoThread]
       ELSE /\ Goto(a, IF op[a] = "pause" THEN "statuses" ELSE "rows")
            /\ UNCHANGED <<phase, lock, thread, op, loaded, observed>>
    /\ UNCHANGED <<dbVars, localVars>>

\* resume(): one SELECT of the enabled mappings of enabled devices.
Selected ==
    {m \in Existing : mapping[m].enabled /\ mapping[m].device \in enabledDevs}
Snapshot(m) ==
    [id |-> m, device |-> mapping[m].device, port |-> mapping[m].port]

ReadRows(a) ==
    /\ pc[a] = "rows"
    /\ rows' = {Snapshot(m) : m \in Selected}
    /\ failed' = FALSE
    /\ Goto(a, "bind")
    /\ UNCHANGED <<dbVars, phase, op, loaded, observed, lock,
                   listeners, thread, marking, joining>>

NewListener(row) ==
    [id |-> row.id, device |-> row.device, port |-> row.port, pc |-> "recv",
     mac |-> CHOOSE x \in Macs : TRUE, recent |-> {}, open |-> TRUE,
     result |-> "none"]

\* Mutant: the listener is not put into _listeners.
BindRowUnregistered(a, row, t) ==
    /\ pc[a] = "bind"
    /\ row \in rows
    /\ row.device \in enabledDevs
    /\ \A u \in Serving : thread[u].port # row.port
    /\ thread[t] = NoThread
    /\ thread' = [thread EXCEPT ![t] = NewListener(row)]
    /\ UNCHANGED listeners
    /\ rows' = rows \ {row}
    /\ marking' = {[id |-> row.id, status |-> "active"]}
    /\ Goto(a, "mark")
    /\ UNCHANGED <<dbVars, phase, op, loaded, observed, lock,
                   failed, joining>>

\* One row: runtime_material reads the device again, the driver checks the
\* parameters, the socket is bound and the thread started.
BindRow(a, row, t) ==
    /\ pc[a] = "bind"
    /\ row \in rows
    /\ row.device \in enabledDevs
    /\ \A u \in Serving : thread[u].port # row.port
    /\ thread[t] = NoThread
    /\ thread' = [thread EXCEPT ![t] = NewListener(row)]
    /\ listeners' = listeners \cup {t}
    /\ rows' = rows \ {row}
    /\ marking' = {[id |-> row.id, status |-> "active"]}
    /\ Goto(a, "mark")
    /\ UNCHANGED <<dbVars, phase, op, loaded, observed, lock,
                   failed, joining>>

\* Mutant: a failed bind is reported as active.
BindFailsUnseen(a, row) ==
    /\ pc[a] = "bind"
    /\ row \in rows
    /\ rows' = rows \ {row}
    /\ failed' = TRUE
    /\ marking' = {[id |-> row.id, status |-> "active"]}
    /\ Goto(a, "mark")
    /\ UNCHANGED <<dbVars, phase, op, loaded, observed, lock,
                   listeners, thread, joining>>

\* The except clause: the device went away or was disabled since ReadRows
\* (ResourceConflictError), its credentials cannot be decrypted, or another
\* process has the port.
BindFails(a, row) ==
    /\ pc[a] = "bind"
    /\ row \in rows
    /\ rows' = rows \ {row}
    /\ failed' = TRUE
    /\ marking' = {[id |-> row.id, status |-> "error"]}
    /\ Goto(a, "mark")
    /\ UNCHANGED <<dbVars, phase, op, loaded, observed, lock,
                   listeners, thread, joining>>

\* _set_mapping_status: an UPDATE, which changes no row when it is deleted.
SetMappingStatus(a) ==
    /\ pc[a] = "mark"
    /\ \E x \in marking :
           mapping' = IF x.id \in Existing
                      THEN [mapping EXCEPT ![x.id].status = x.status]
                      ELSE mapping
    /\ marking' = {}
    /\ Goto(a, "bind")
    /\ UNCHANGED <<enabledDevs, engine, recorded, phase, op, loaded,
                   observed, lock, listeners, thread, rows, failed, joining>>

\* Mutant: failures are not counted.
RowsDoneOptimist(a) ==
    /\ pc[a] = "bind"
    /\ rows = {}
    /\ observed' = [observed EXCEPT ![a] = "active"]
    /\ Goto(a, "hbLoad")
    /\ UNCHANGED <<dbVars, localVars, phase, op, loaded, lock,
                   listeners, thread>>

RowsDone(a) ==
    /\ pc[a] = "bind"
    /\ rows = {}
    /\ observed' = [observed EXCEPT ![a] =
                        IF failed THEN "degraded" ELSE "active"]
    /\ Goto(a, "hbLoad")
    /\ UNCHANGED <<dbVars, localVars, phase, op, loaded, lock,
                   listeners, thread>>

\* Mutant: pause() writes a status the column does not allow.
ResetStatusesUnknown(a) ==
    /\ pc[a] = "statuses"
    /\ mapping' = [m \in Mappings |->
           IF mapping[m] # NoRow /\ mapping[m].status = "active"
           THEN [mapping[m] EXCEPT !.status = "paused"]
           ELSE mapping[m]]
    /\ observed' = [observed EXCEPT ![a] = "paused"]
    /\ Goto(a, "hbLoad")
    /\ UNCHANGED <<enabledDevs, engine, recorded, localVars, phase,
                   op, loaded, lock, listeners, thread>>

\* pause(): UPDATE ... SET status = 'inactive' WHERE status = 'active'.
ResetStatuses(a) ==
    /\ pc[a] = "statuses"
    /\ mapping' = [m \in Mappings |->
           IF mapping[m] # NoRow /\ mapping[m].status = "active"
           THEN [mapping[m] EXCEPT !.status = "inactive"]
           ELSE mapping[m]]
    /\ observed' = [observed EXCEPT ![a] = "paused"]
    /\ Goto(a, "hbLoad")
    /\ UNCHANGED <<enabledDevs, engine, recorded, localVars, phase,
                   op, loaded, lock, listeners, thread>>

-----------------------------------------------------------------------------
(***************************************************************************)
(* The engine_state row.  The flush of an ORM session writes the columns   *)
(* whose new value differs from the loaded one.                            *)
(***************************************************************************)
Desired(a) == IF op[a] = "pause" THEN "paused" ELSE "active"

Load(a, next) ==
    /\ loaded' = [loaded EXCEPT ![a] = engine]
    /\ Goto(a, next)

Flush(a) ==
    engine' = [desired |-> IF loaded[a].desired = Desired(a)
                           THEN engine.desired ELSE Desired(a),
               observed |-> IF loaded[a].observed = observed[a]
                            THEN engine.observed ELSE observed[a]]

HeartbeatLoad(a) ==
    /\ pc[a] = "hbLoad"
    /\ Load(a, "hbFlush")
    /\ UNCHANGED <<dbVars, localVars, phase, op, observed, lock,
                   listeners, thread>>

\* The last statement under the lock.  The routes resume_engine and
\* pause_engine go on to EngineStateService.transition; a reconciling route
\* returns; start-up is complete.
Heartbeat(a) ==
    /\ pc[a] = "hbFlush"
    /\ Flush(a)
    /\ lock' = {}
    /\ failed' = FALSE
    /\ IF a = Lifespan \/ op[a] = "reconcile"
       THEN Finish(a)
       ELSE /\ Goto(a, "trLoad")
            /\ loaded' = [loaded EXCEPT ![a] = Paused]
            /\ UNCHANGED <<op, observed>>
    /\ phase' = IF a = Lifespan THEN "up" ELSE phase
    /\ UNCHANGED <<enabledDevs, mapping, recorded, listeners, thread,
                   rows, marking, joining>>

TransitionLoad(a) ==
    /\ pc[a] = "trLoad"
    /\ Load(a, "trFlush")
    /\ UNCHANGED <<dbVars, localVars, phase, op, observed, lock,
                   listeners, thread>>

Transition(a) ==
    /\ pc[a] = "trFlush"
    /\ Flush(a)
    /\ Finish(a)
    /\ UNCHANGED <<enabledDevs, mapping, recorded, localVars, phase,
                   lock, listeners, thread>>

-----------------------------------------------------------------------------
(***************************************************************************)
(* Listener threads: _run and _handle.                                     *)
(***************************************************************************)
\* The loop test after a handled packet: a stopped listener's thread ends.
NextIteration(t) ==
    IF thread[t].open
    THEN [thread[t] EXCEPT !.pc = "recv", !.result = "none"]
    ELSE NoThread

Receive(t, mac) ==
    /\ t \in Serving /\ thread[t].pc = "recv"
    /\ Cardinality(Busy) < MaxBusy
    /\ thread' = [thread EXCEPT ![t].pc = "got", ![t].mac = mac]
    /\ UNCHANGED <<dbVars, localVars, phase, pc, op, loaded,
                   observed, lock, listeners>>

\* recvfrom on the closed socket raises, or times out; the loop ends.
ThreadExits(t) ==
    /\ thread[t] # NoThread
    /\ thread[t].pc = "recv" /\ ~thread[t].open
    /\ thread' = [thread EXCEPT ![t] = NoThread]
    /\ UNCHANGED <<dbVars, localVars, phase, pc, op, loaded,
                   observed, lock, listeners>>

Granted(t) == thread[t].mac \notin thread[t].recent

Limited(t) ==
    IF Granted(t)
    THEN [thread[t] EXCEPT !.pc = "material", !.recent = @ \cup {thread[t].mac}]
    ELSE [thread[t] EXCEPT !.pc = "record", !.result = "rate_limited"]

\* RateLimiter.allow, which records the time of a granted request.
Allow(t) ==
    /\ thread[t] # NoThread /\ thread[t].pc = "got"
    /\ thread' = [thread EXCEPT ![t] = Limited(t)]
    /\ UNCHANGED <<dbVars, localVars, phase, pc, op, loaded,
                   observed, lock, listeners>>

\* DeviceService.runtime_material.
Material(t) ==
    /\ thread[t] # NoThread /\ thread[t].pc = "material"
    /\ thread' = [thread EXCEPT ![t] =
           IF thread[t].device \in enabledDevs
           THEN [@ EXCEPT !.pc = "wake"]
           ELSE [@ EXCEPT !.pc = "record", !.result = "failed"]]
    /\ UNCHANGED <<dbVars, localVars, phase, pc, op, loaded,
                   observed, lock, listeners>>

\* execute_wake: SSH to the device.  It may also never return.
Wake(t, result) ==
    /\ thread[t] # NoThread /\ thread[t].pc = "wake"
    /\ result \in {"success", "failed"}
    /\ thread' = [thread EXCEPT ![t].pc = "record", ![t].result = result]
    /\ UNCHANGED <<dbVars, localVars, phase, pc, op, loaded,
                   observed, lock, listeners>>

\* _record: the foreign key rejects the event of a deleted mapping, and _run
\* swallows the error.
Record(t) ==
    /\ thread[t] # NoThread /\ thread[t].pc = "record"
    /\ recorded' = IF thread[t].id \in Existing
                   THEN recorded \cup {thread[t].id} ELSE recorded
    /\ thread' = [thread EXCEPT ![t] = NextIteration(t)]
    /\ UNCHANGED <<enabledDevs, mapping, engine, localVars, phase, pc,
                   op, loaded, observed, lock, listeners>>

\* rate_limit_seconds have passed since the key was last granted.
CooldownEnds(t, mac) ==
    /\ thread[t] # NoThread /\ mac \in thread[t].recent
    /\ thread' = [thread EXCEPT ![t].recent = @ \ {mac}]
    /\ UNCHANGED <<dbVars, localVars, phase, pc, op, loaded, observed, lock,
                   listeners>>

-----------------------------------------------------------------------------
(***************************************************************************)
(* Failures.                                                               *)
(***************************************************************************)
\* An exception that resume(), pause() or transition() does not catch: a
\* failed database call or a missing master key.  The with statement frees
\* the lock, the route answers 500; at start-up the process ends.
Raise(a) ==
    /\ "runtime" \in Faults
    /\ \/ pc[a] \in {"rows", "bind", "mark", "statuses", "hbLoad", "hbFlush"}
       \/ a \in Requests /\ pc[a] \in {"desired", "trLoad", "trFlush"}
    /\ pc[a] = "bind" => rows # {}
    /\ Finish(a)
    /\ lock' = lock \ {a}
    /\ IF a \in lock
       THEN rows' = {} /\ marking' = {} /\ failed' = FALSE /\ joining' = {}
       ELSE UNCHANGED localVars
    /\ IF a = Lifespan
       THEN /\ phase' = "down"
            /\ listeners' = {}
            /\ thread' = [t \in Threads |-> NoThread]
       ELSE UNCHANGED <<phase, listeners, thread>>
    /\ UNCHANGED dbVars

\* A database call of a listener thread raises: _run logs and goes on.
HandleRaises(t) ==
    /\ "thread" \in Faults
    /\ thread[t] # NoThread /\ thread[t].pc \in {"material", "record"}
    /\ thread' = [thread EXCEPT ![t] = NextIteration(t)]
    /\ UNCHANGED <<dbVars, localVars, phase, pc, op, loaded, observed,
                   lock, listeners>>

\* The process is killed; only the database survives.
Crash ==
    /\ phase # "down"
    /\ phase' = "down"
    /\ pc' = [a \in Actors |-> "idle"]
    /\ op' = [a \in Actors |-> "none"]
    /\ loaded' = [a \in Actors |-> Paused]
    /\ observed' = [a \in Actors |-> "paused"]
    /\ lock' = {}
    /\ listeners' = {}
    /\ thread' = [t \in Threads |-> NoThread]
    /\ rows' = {} /\ marking' = {} /\ failed' = FALSE /\ joining' = {}
    /\ UNCHANGED dbVars

-----------------------------------------------------------------------------
RouteStep(a) ==
    \/ ResumeEngine(a) \/ PauseEngine(a) \/ UpdateSettings(a)
    \/ \E m \in Mappings, d \in Devices, p \in Ports, e \in BOOLEAN :
           CreateListener(a, m, d, p, e) \/ UpdateListener(a, m, d, p, e)
    \/ \E m \in Mappings : DeleteListener(a, m)
    \/ \E d \in Devices, e \in BOOLEAN : UpdateDevice(a, d, e)

RuntimeStep(a) ==
    \/ ReconcileIfActive(a) \/ Acquire(a)
    \/ \E t \in Threads : CloseListener(a, t)
    \/ JoinListener(a) \/ CloseAllDone(a) \/ ReadRows(a)
    \/ \E row \in rows :
           BindFails(a, row) \/ \E t \in Threads : BindRow(a, row, t)
    \/ SetMappingStatus(a) \/ RowsDone(a) \/ ResetStatuses(a)
    \/ HeartbeatLoad(a) \/ Heartbeat(a) \/ TransitionLoad(a) \/ Transition(a)

ThreadStep(t) ==
    \/ \E mac \in Macs : Receive(t, mac)
    \/ ThreadExits(t) \/ Allow(t) \/ Material(t)
    \/ \E result \in Results : Wake(t, result)
    \/ Record(t) \/ HandleRaises(t)

Next ==
    \/ \E a \in Actors : RouteStep(a) \/ RuntimeStep(a) \/ Raise(a)
    \/ \E t \in Threads : ThreadStep(t)
    \/ \E t \in Threads, mac \in Macs : CooldownEnds(t, mac)
    \/ \E m \in Mappings : RetentionCleanup(m)
    \/ StartFromDesiredState \/ Shutdown \/ Crash

Spec == Init /\ [][Next]_vars

\* Threads of the process that can run do run, and a closed socket wakes its
\* reader.  Nothing is assumed of clients, of packets, of crashes or of a wake:
\* recv_exit_status() waits for the device without a timeout.
Fairness ==
    /\ \A a \in Actors : WF_vars(RuntimeStep(a))
    /\ \A t \in Threads : WF_vars(ThreadExits(t))

FairSpec == Spec /\ Fairness

-----------------------------------------------------------------------------
(***************************************************************************)
(* Properties.                                                             *)
(***************************************************************************)
TypeOK ==
    /\ enabledDevs \subseteq Devices
    /\ mapping \in [Mappings -> MappingRow \cup {NoRow}]
    /\ engine \in EngineState
    /\ recorded \subseteq Mappings
    /\ phase \in {"down", "boot", "up", "stopping"}
    /\ pc \in [Actors -> Critical \cup {"idle", "desired", "lock", "trLoad",
                                        "trFlush"}]
    /\ op \in [Actors -> {"none", "resume", "pause", "reconcile", "shutdown"}]
    /\ loaded \in [Actors -> EngineState]
    /\ observed \in [Actors -> {"active", "degraded", "paused"}]
    /\ lock \subseteq Actors
    /\ listeners \subseteq Threads
    /\ thread \in [Threads -> Listener \cup {NoThread}]
    /\ rows \subseteq RuntimeMapping
    /\ marking \subseteq [id : Mappings, status : Status]
    /\ failed \in BOOLEAN
    /\ joining \subseteq Threads

\* No request is in a handler and start-up is complete.
Quiescent == phase = "up" /\ \A a \in Actors : pc[a] = "idle"

Held(t) == [id |-> thread[t].id, device |-> thread[t].device,
            port |-> thread[t].port]

(* Every open socket is in EngineRuntime._listeners, so the next _close_all *)
(* reaches it: no interleaving of reconciling requests, failed binds,       *)
(* uncaught exceptions and restarts leaks a listener that pause() or        *)
(* shutdown() would miss.                                                   *)
SocketsOwned == Serving \subseteq listeners

(* A mapping is served by one listener, and two listeners never share a     *)
(* port, although threads of earlier generations may still be finishing.    *)
OneListenerPerMapping ==
    \A t, u \in Serving :
        t # u => thread[t].id # thread[u].id /\ thread[t].port # thread[u].port

(* When pause() has passed _close_all and while it writes its statuses and  *)
(* heartbeat, no socket is open and no thread can take another packet.      *)
PauseSectionSilent ==
    \A a \in Actors :
        (op[a] = "pause" /\ pc[a] \in {"statuses", "hbLoad", "hbFlush"})
            => Serving = {}

(* The engine lock excludes: an actor inside resume(), pause() or shutdown() *)
(* owns it alone.                                                           *)
MutualExclusion ==
    \A a \in Actors : pc[a] \in Critical => lock = {a}

\* Which handler reaches which part of the critical section.
HandlerSections ==
    \A a \in Actors :
        /\ pc[a] \in {"rows", "bind", "mark"} => op[a] # "pause"
        /\ pc[a] = "statuses" => op[a] = "pause"

\* resume() reads its rows only after every old socket is closed ...
ClosedBeforeRead == \A a \in Actors : pc[a] = "rows" => Serving = {}

\* ... so a row it has still to start has no listener.
RowsUnserved ==
    /\ \A x \in rows, t \in Serving : thread[t].id # x.id
    /\ \A x, y \in rows : x.id = y.id => x = y

\* A row about to be marked active has one.
MarkedServed ==
    \A a \in Actors : pc[a] = "mark" =>
        \A x \in marking :
            x.status = "active" => \E t \in Serving : thread[t].id = x.id

(* The inductive invariant behind the socket properties: who may be in the  *)
(* critical section, and what _close_all has established there.             *)
EngineInv ==
    /\ MutualExclusion
    /\ HandlerSections
    /\ ClosedBeforeRead
    /\ PauseSectionSilent
    /\ RowsUnserved
    /\ MarkedServed
    /\ SocketsOwned
    /\ OneListenerPerMapping

(* docs/design/01: "Pause engine stops accepting new wake requests and      *)
(* closes UDP sockets": with no request in progress, a desired state of     *)
(* paused means that no socket is open.                                     *)
PauseClosesSockets ==
    (Quiescent /\ engine.desired = "paused") => Serving = {}

(* With no request in progress and desired state active, the open sockets   *)
(* are those of the enabled mappings of enabled devices, with their current *)
(* device and port, less the ones marked error.                             *)
Converged ==
    (Quiescent /\ engine.desired = "active") =>
        {Held(t) : t \in Serving} =
            {Snapshot(m) : m \in {n \in Selected : mapping[n].status # "error"}}

(* What GET /engine reports agrees with the sockets: observed is degraded   *)
(* exactly when a selected mapping has no listener, paused exactly when     *)
(* desired is.                                                              *)
ObservedTruthful ==
    Quiescent =>
        /\ (engine.observed = "paused") <=> (engine.desired = "paused")
        /\ (engine.observed = "degraded") <=>
             /\ engine.desired = "active"
             /\ \E m \in Selected : \A t \in Serving : thread[t].id # m

(* _set_mapping_status reports "active" only while the mapping's socket is  *)
(* open.                                                                    *)
ActiveReportedAfterBind ==
    [][\A m \in Mappings :
          (m \in Existing /\ mapping[m].status # "active"
              /\ mapping'[m] # NoRow /\ mapping'[m].status = "active")
          => \E t \in Serving : thread[t].id = m]_vars

(* Whoever holds the engine lock gives it up, even when a device never      *)
(* answers the wake a listener thread is executing.                         *)
LockReleased == lock # {} ~> lock = {}

-----------------------------------------------------------------------------
(***************************************************************************)
(* The engine implements ServedMappings: the configuration is what         *)
(* resume() would select now, the sockets are the ones threads hold open,  *)
(* and the plan is what the loop of resume() has still to start.           *)
(***************************************************************************)
SelectedRows == {Snapshot(m) : m \in Selected}
ServedRows == {Held(t) : t \in Serving}

Service == INSTANCE ServedMappings WITH
    Row <- RuntimeMapping, table <- SelectedRows, open <- ServedRows,
    plan <- rows

\* Requests run only in a process that is up, the lifespan code only before
\* and after, and it alone shuts down.
LifespanPhases ==
    /\ phase # "up" => \A a \in Requests : pc[a] = "idle"
    /\ phase \in {"down", "up"} => pc[Lifespan] = "idle"
    /\ \A a \in Requests : op[a] # "shutdown"

\* A row is still to be started only while resume() is in its loop.
PlanOnlyInLoop == rows # {} => \E a \in Actors : pc[a] \in {"bind", "mark"}

(* Every step of routes, runtime, threads and failures is a step of         *)
(* ServedMappings or leaves its variables alone: reconciliations that race  *)
(* each other, edits and restarts never mix sockets of two readings, open   *)
(* a row nobody selected, or open one twice.                                *)
ImplementsService == Service!Spec

=============================================================================
