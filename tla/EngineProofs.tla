---------------------------- MODULE EngineProofs ----------------------------
(***************************************************************************)
(* Proofs about Engine for every set of workers, threads, mappings,        *)
(* devices, ports and MAC addresses.                                       *)
(***************************************************************************)
EXTENDS Engine, TLAPS

(* The sentinel values are not records of the types they stand beside.     *)
LEMMA ListenerOrNone ==
    ASSUME TypeOK, NEW t \in Threads, thread[t] # NoThread
    PROVE  thread[t] \in Listener
BY DEF TypeOK

LEMMA RowOrNone ==
    ASSUME TypeOK, NEW m \in Mappings, mapping[m] # NoRow
    PROVE  mapping[m] \in MappingRow
BY DEF TypeOK

(* Type correctness is inductive on its own: every step of a route handler, *)
(* of EngineRuntime, of a listener thread, and every failure keeps each     *)
(* variable in its type.                                                    *)
LEMMA TypeStep == TypeOK /\ [Next]_vars => TypeOK'
<1> SUFFICES ASSUME TypeOK, [Next]_vars PROVE TypeOK'
    OBVIOUS
<1> USE DEF Critical, Goto, Finish, Begin, Arrive, dbVars, localVars
<1>0. /\ Paused \in EngineState
      /\ Lifespan \in Actors
  BY DEF Paused, EngineState, Actors
<1> USE <1>0
<1>1. ASSUME NEW a \in Actors, RouteStep(a) PROVE TypeOK'
  <2>1. CASE ResumeEngine(a) \/ PauseEngine(a) \/ UpdateSettings(a)
    BY <2>1 DEF TypeOK, ResumeEngine, PauseEngine, UpdateSettings
  <2>2. ASSUME NEW m \in Mappings, NEW d \in Devices, NEW p \in Ports,
               NEW e \in BOOLEAN,
               CreateListener(a, m, d, p, e) \/ UpdateListener(a, m, d, p, e)
        PROVE TypeOK'
    <3>1. [device |-> d, port |-> p, enabled |-> e, status |-> "inactive"]
              \in MappingRow
      BY DEF MappingRow, Status
    <3>2. mapping' \in [Mappings -> MappingRow \cup {NoRow}]
      BY <2>2, <3>1 DEF TypeOK, CreateListener, UpdateListener
    <3> QED BY <2>2, <3>2 DEF TypeOK, CreateListener, UpdateListener
  <2>3. ASSUME NEW m \in Mappings, DeleteListener(a, m) PROVE TypeOK'
    BY <2>3 DEF TypeOK, DeleteListener
  <2>4. ASSUME NEW d \in Devices, NEW e \in BOOLEAN, UpdateDevice(a, d, e)
        PROVE TypeOK'
    BY <2>4 DEF TypeOK, UpdateDevice
  <2> QED BY <1>1, <2>1, <2>2, <2>3, <2>4 DEF RouteStep
<1>2. ASSUME NEW a \in Actors, RuntimeStep(a) PROVE TypeOK'
  <2>1. CASE ReconcileIfActive(a) BY <2>1 DEF TypeOK, ReconcileIfActive
  <2>2. CASE Acquire(a) BY <2>2 DEF TypeOK, Acquire
  <2>3. ASSUME NEW t \in Threads, CloseListener(a, t) PROVE TypeOK'
    <3>1. [thread[t] EXCEPT !.open = FALSE] \in Listener
      BY <2>3, ListenerOrNone DEF CloseListener, Serving, Listener
    <3>2. thread' = [thread EXCEPT ![t] = [thread[t] EXCEPT !.open = FALSE]]
      BY <2>3 DEF CloseListener
    <3>3. thread' \in [Threads -> Listener \cup {NoThread}]
      BY <3>1, <3>2 DEF TypeOK
    <3> QED BY <2>3, <3>3 DEF TypeOK, CloseListener
  <2>4. CASE JoinListener(a) BY <2>4 DEF TypeOK, JoinListener
  <2>5. CASE CloseAllDone(a) BY <2>5 DEF TypeOK, CloseAllDone
  <2>6. CASE ReadRows(a)
    <3>1. \A m \in Selected : Snapshot(m) \in RuntimeMapping
      BY RowOrNone
      DEF Selected, Existing, Snapshot, RuntimeMapping, MappingRow
    <3>2. rows' \subseteq RuntimeMapping
      BY <2>6, <3>1 DEF ReadRows
    <3> QED BY <2>6, <3>2 DEF TypeOK, ReadRows
  <2>7. ASSUME NEW row \in rows, BindFails(a, row) PROVE TypeOK'
    BY <2>7 DEF TypeOK, BindFails, RuntimeMapping, Status
  <2>8. ASSUME NEW row \in rows, NEW t \in Threads, BindRow(a, row, t)
        PROVE TypeOK'
    <3>1. (CHOOSE x \in Macs : TRUE) \in Macs
      BY MacsNonempty
    <3>2. NewListener(row) \in Listener
      BY <3>1 DEF TypeOK, NewListener, Listener, RuntimeMapping, Results
    <3>3. marking' \subseteq [id : Mappings, status : Status]
      BY <2>8 DEF TypeOK, BindRow, RuntimeMapping, Status
    <3> QED BY <2>8, <3>2, <3>3 DEF TypeOK, BindRow
  <2>9. CASE SetMappingStatus(a)
    <3>1. PICK x \in marking :
              mapping' = IF x.id \in Existing
                         THEN [mapping EXCEPT ![x.id].status = x.status]
                         ELSE mapping
      BY <2>9 DEF SetMappingStatus
    <3>2. mapping' \in [Mappings -> MappingRow \cup {NoRow}]
      BY <3>1, RowOrNone DEF TypeOK, Existing, MappingRow
    <3> QED BY <2>9, <3>2 DEF TypeOK, SetMappingStatus
  <2>10. CASE RowsDone(a) BY <2>10 DEF TypeOK, RowsDone
  <2>11. CASE ResetStatuses(a)
    <3>1. mapping' \in [Mappings -> MappingRow \cup {NoRow}]
      BY <2>11, RowOrNone DEF TypeOK, ResetStatuses, MappingRow, Status
    <3> QED BY <2>11, <3>1 DEF TypeOK, ResetStatuses
  <2>12. CASE HeartbeatLoad(a) BY <2>12 DEF TypeOK, HeartbeatLoad, Load
  <2>13. CASE Heartbeat(a)
    <3>1. engine' \in EngineState
      BY <2>13 DEF TypeOK, Heartbeat, Flush, Desired, EngineState
    <3>2. phase' \in {"down", "boot", "up", "stopping"}
      BY <2>13 DEF TypeOK, Heartbeat
    <3>3. CASE a = Lifespan \/ op[a] = "reconcile"
      <4>1. Finish(a)
        BY <2>13, <3>3 DEF Heartbeat
      <4> QED BY <2>13, <3>1, <3>2, <4>1 DEF TypeOK, Heartbeat
    <3>4. CASE ~(a = Lifespan \/ op[a] = "reconcile")
      BY <2>13, <3>1, <3>2, <3>4 DEF TypeOK, Heartbeat
    <3> QED BY <3>3, <3>4
  <2>14. CASE TransitionLoad(a) BY <2>14 DEF TypeOK, TransitionLoad, Load
  <2>15. CASE Transition(a)
    BY <2>15 DEF TypeOK, Transition, Flush, Desired, EngineState
  <2> QED BY <1>2, <2>1, <2>2, <2>3, <2>4, <2>5, <2>6, <2>7, <2>8, <2>9,
             <2>10, <2>11, <2>12, <2>13, <2>14, <2>15 DEF RuntimeStep
<1>3. ASSUME NEW a \in Actors, Raise(a) PROVE TypeOK'
  BY <1>3 DEF TypeOK, Raise
<1>4. ASSUME NEW t \in Threads, ThreadStep(t) PROVE TypeOK'
  <2> USE ListenerOrNone
  <2>1. ASSUME NEW mac \in Macs, Receive(t, mac) PROVE TypeOK'
    <3>1. [thread[t] EXCEPT !.pc = "got", !.mac = mac] \in Listener
      BY <2>1 DEF Receive, Serving, Listener
    <3>2. thread' = [thread EXCEPT ![t] =
                        [thread[t] EXCEPT !.pc = "got", !.mac = mac]]
      BY <2>1 DEF Receive, TypeOK
    <3>3. thread' \in [Threads -> Listener \cup {NoThread}]
      BY <3>1, <3>2 DEF TypeOK
    <3> QED BY <2>1, <3>3 DEF TypeOK, Receive
  <2>2. CASE ThreadExits(t) BY <2>2 DEF TypeOK, ThreadExits
  <2>3. CASE Allow(t)
    <3>1. thread[t] \in Listener
      BY <2>3 DEF Allow
    <3>2. Limited(t) \in Listener
      <4>1. CASE Granted(t)
        BY <3>1, <4>1 DEF Limited, Listener
      <4>2. CASE ~Granted(t)
        BY <3>1, <4>2 DEF Limited, Listener, Results
      <4> QED BY <4>1, <4>2
    <3>3. thread' \in [Threads -> Listener \cup {NoThread}]
      BY <2>3, <3>2 DEF TypeOK, Allow
    <3> QED BY <2>3, <3>3 DEF TypeOK, Allow
  <2>4. CASE Material(t)
    <3>1. thread[t] \in Listener
      BY <2>4 DEF Material
    <3>2. /\ [thread[t] EXCEPT !.pc = "wake"] \in Listener
          /\ [thread[t] EXCEPT !.pc = "record", !.result = "failed"] \in Listener
      BY <3>1 DEF Listener, Results
    <3>3. thread' \in [Threads -> Listener \cup {NoThread}]
      BY <2>4, <3>2 DEF TypeOK, Material
    <3> QED BY <2>4, <3>3 DEF TypeOK, Material
  <2>5. ASSUME NEW result \in Results, Wake(t, result) PROVE TypeOK'
    <3>1. [thread[t] EXCEPT !.pc = "record", !.result = result] \in Listener
      BY <2>5 DEF Wake, Listener
    <3>2. thread' = [thread EXCEPT ![t] =
                        [thread[t] EXCEPT !.pc = "record", !.result = result]]
      BY <2>5 DEF Wake, TypeOK
    <3>3. thread' \in [Threads -> Listener \cup {NoThread}]
      BY <3>1, <3>2 DEF TypeOK
    <3> QED BY <2>5, <3>3 DEF TypeOK, Wake
  <2>6. CASE Record(t) \/ HandleRaises(t)
    <3>1. thread[t] # NoThread => NextIteration(t) \in Listener \cup {NoThread}
      BY DEF NextIteration, Listener, Results
    <3>2. thread[t] # NoThread => thread[t].id \in Mappings
      BY DEF Listener
    <3> QED BY <2>6, <3>1, <3>2 DEF TypeOK, Record, HandleRaises
  <2> QED BY <1>4, <2>1, <2>2, <2>3, <2>4, <2>5, <2>6 DEF ThreadStep
<1>5. ASSUME NEW t \in Threads, NEW mac \in Macs, CooldownEnds(t, mac)
      PROVE TypeOK'
  <2>1. [thread[t] EXCEPT !.recent = @ \ {mac}] \in Listener
    BY <1>5, ListenerOrNone DEF Listener, CooldownEnds
  <2> QED BY <1>5, <2>1 DEF TypeOK, CooldownEnds
<1>6. ASSUME NEW m \in Mappings, RetentionCleanup(m) PROVE TypeOK'
  BY <1>6 DEF TypeOK, RetentionCleanup
<1>7. CASE StartFromDesiredState BY <1>7 DEF TypeOK, StartFromDesiredState
<1>8. CASE Shutdown BY <1>8 DEF TypeOK, Shutdown
<1>9. CASE Crash BY <1>9 DEF TypeOK, Crash
<1>10. CASE UNCHANGED vars BY <1>10 DEF TypeOK, vars
<1> QED BY <1>1, <1>2, <1>3, <1>4, <1>5, <1>6, <1>7, <1>8, <1>9, <1>10
        DEF Next

(* Every variable keeps its type in every behaviour of the engine.         *)
THEOREM TypeCorrect == Spec => []TypeOK
<1>1. Init => TypeOK
  <2> SUFFICES ASSUME Init PROVE TypeOK
    OBVIOUS
  <2>1. engine \in EngineState /\ Paused \in EngineState
    BY DEF Init, EngineState, Paused
  <2> QED BY <2>1 DEF Init, TypeOK
<1> QED BY <1>1, TypeStep, PTL DEF Spec

-----------------------------------------------------------------------------
(***************************************************************************)
(* The sockets.                                                            *)
(***************************************************************************)
\* A step that leaves the open sockets and what they serve alone.
SocketFrame ==
    /\ Serving' = Serving
    /\ \A t \in Serving : /\ thread'[t].id = thread[t].id
                          /\ thread'[t].device = thread[t].device
                          /\ thread'[t].port = thread[t].port

\* Neither a packet on its way through a listener thread, nor the end of a
\* cooldown, opens or closes a socket: a thread ends only once its listener
\* is stopped.
LEMMA ThreadFrame ==
    ASSUME TypeOK, NEW t \in Threads, ThreadStep(t)
    PROVE  SocketFrame
<1>1. ASSUME NEW v, thread[t] # NoThread, thread' = [thread EXCEPT ![t] = v],
             \/ /\ v \in Listener
                /\ v.open = thread[t].open
                /\ v.id = thread[t].id
                /\ v.device = thread[t].device
                /\ v.port = thread[t].port
             \/ v = NoThread /\ ~thread[t].open
      PROVE  SocketFrame
  BY <1>1, SentinelsDistinct DEF TypeOK, SocketFrame, Serving
<1>2. thread[t] # NoThread => thread[t] \in Listener
  BY ListenerOrNone
<1>3. ASSUME NEW mac \in Macs, Receive(t, mac) PROVE SocketFrame
  <2> DEFINE v == [thread[t] EXCEPT !.pc = "got", !.mac = mac]
  <2>1. thread[t] # NoThread /\ thread' = [thread EXCEPT ![t] = v]
    BY <1>3 DEF Receive, Serving, TypeOK
  <2>2. /\ v \in Listener /\ v.open = thread[t].open
        /\ v.id = thread[t].id /\ v.device = thread[t].device
        /\ v.port = thread[t].port
    BY <1>2, <2>1 DEF Listener
  <2> QED BY <1>1, <2>1, <2>2
<1>4. CASE ThreadExits(t)
  BY <1>1, <1>4 DEF ThreadExits
<1>5. CASE Allow(t)
  <2>1. thread[t] # NoThread /\ thread' = [thread EXCEPT ![t] = Limited(t)]
    BY <1>5 DEF Allow
  <2>2. /\ Limited(t) \in Listener /\ Limited(t).open = thread[t].open
        /\ Limited(t).id = thread[t].id /\ Limited(t).port = thread[t].port
        /\ Limited(t).device = thread[t].device
    <3>1. CASE Granted(t)
      BY <1>2, <2>1, <3>1 DEF Limited, Listener
    <3>2. CASE ~Granted(t)
      BY <1>2, <2>1, <3>2 DEF Limited, Listener, Results
    <3> QED BY <3>1, <3>2
  <2> QED BY <1>1, <2>1, <2>2
<1>6. CASE Material(t)
  <2> DEFINE v == IF thread[t].device \in enabledDevs
                  THEN [thread[t] EXCEPT !.pc = "wake"]
                  ELSE [thread[t] EXCEPT !.pc = "record", !.result = "failed"]
  <2>1. thread[t] # NoThread /\ thread' = [thread EXCEPT ![t] = v]
    BY <1>6 DEF Material
  <2>2. /\ v \in Listener /\ v.open = thread[t].open
        /\ v.id = thread[t].id /\ v.device = thread[t].device
        /\ v.port = thread[t].port
    BY <1>2, <2>1 DEF Listener, Results
  <2> QED BY <1>1, <2>1, <2>2
<1>7. ASSUME NEW result \in Results, Wake(t, result) PROVE SocketFrame
  <2> DEFINE v == [thread[t] EXCEPT !.pc = "record", !.result = result]
  <2>1. thread[t] # NoThread /\ thread' = [thread EXCEPT ![t] = v]
    BY <1>7 DEF Wake, TypeOK
  <2>2. /\ v \in Listener /\ v.open = thread[t].open
        /\ v.id = thread[t].id /\ v.device = thread[t].device
        /\ v.port = thread[t].port
    BY <1>2, <2>1 DEF Listener
  <2> QED BY <1>1, <2>1, <2>2
<1>8. CASE Record(t) \/ HandleRaises(t)
  <2>1. /\ thread[t] # NoThread
        /\ thread' = [thread EXCEPT ![t] = NextIteration(t)]
    BY <1>8 DEF Record, HandleRaises
  <2>2. CASE thread[t].open
    <3> DEFINE v == [thread[t] EXCEPT !.pc = "recv", !.result = "none"]
    <3>1. thread' = [thread EXCEPT ![t] = v]
      BY <2>1, <2>2 DEF NextIteration
    <3>2. /\ v \in Listener /\ v.open = thread[t].open
          /\ v.id = thread[t].id /\ v.device = thread[t].device
          /\ v.port = thread[t].port
      BY <1>2, <2>1 DEF Listener, Results
    <3> QED BY <1>1, <2>1, <3>1, <3>2
  <2>3. CASE ~thread[t].open
    BY <1>1, <2>1, <2>3 DEF NextIteration
  <2> QED BY <2>2, <2>3
<1> QED BY <1>3, <1>4, <1>5, <1>6, <1>7, <1>8 DEF ThreadStep

\* The end of a cooldown touches only the limiter's part of a listener.
LEMMA CooldownFrame ==
    ASSUME TypeOK, NEW t \in Threads, NEW mac \in Macs, CooldownEnds(t, mac)
    PROVE  SocketFrame
<1>1. LET v == [thread[t] EXCEPT !.recent = @ \ {mac}]
      IN  /\ v \in Listener /\ v.open = thread[t].open
          /\ v.id = thread[t].id /\ v.device = thread[t].device
          /\ v.port = thread[t].port
  BY ListenerOrNone DEF Listener, CooldownEnds
<1>2. \A x \in Threads \ {t} : thread'[x] = thread[x]
  BY DEF CooldownEnds, TypeOK
<1>3. /\ thread'[t] # NoThread /\ thread'[t].open = thread[t].open
      /\ thread'[t].id = thread[t].id /\ thread'[t].port = thread[t].port
      /\ thread'[t].device = thread[t].device
  <2>1. thread'[t] = [thread[t] EXCEPT !.recent = @ \ {mac}]
    BY DEF CooldownEnds, TypeOK
  <2> QED BY <1>1, <2>1, SentinelsDistinct
<1>4. thread[t] # NoThread
  BY DEF CooldownEnds
<1> QED BY <1>2, <1>3, <1>4 DEF SocketFrame, Serving

\* A step that neither moves an actor within the critical section nor touches
\* its locals or the sockets keeps the invariant.
LEMMA OutsideSteps ==
    ASSUME EngineInv, SocketFrame,
           UNCHANGED <<rows, marking, lock, listeners>>,
           \A a \in Actors :
               (pc'[a] = pc[a] /\ op'[a] = op[a]) \/ pc'[a] \notin Critical
    PROVE  EngineInv'
BY DEF EngineInv, MutualExclusion, HandlerSections, ClosedBeforeRead,
       PauseSectionSilent, RowsUnserved, MarkedServed, SocketsOwned,
       OneListenerPerMapping, SocketFrame, Critical

\* After an exit of the process nothing is open and nobody is in a handler.
LEMMA ProcessEnds ==
    ASSUME pc' = [a \in Actors |-> "idle"], rows' = {}, marking' = {},
           listeners' = {}, thread' = [t \in Threads |-> NoThread]
    PROVE  EngineInv'
BY DEF EngineInv, MutualExclusion, HandlerSections, ClosedBeforeRead,
       PauseSectionSilent, RowsUnserved, MarkedServed, SocketsOwned,
       OneListenerPerMapping, Serving, Critical

\* Only one actor is in the critical section.
LEMMA Alone ==
    ASSUME EngineInv, NEW a \in Actors, pc[a] \in Critical
    PROVE  lock = {a} /\ \A b \in Actors \ {a} : pc[b] \notin Critical
BY DEF EngineInv, MutualExclusion

\* The steps of resume(), pause() and shutdown() under the lock.
LEMMA CriticalSteps ==
    ASSUME TypeOK, EngineInv, NEW a \in Actors, RuntimeStep(a),
           pc[a] \in Critical
    PROVE  EngineInv'
<1> USE DEF Goto, Finish, dbVars, localVars
<1>1. lock = {a} /\ \A b \in Actors \ {a} : pc[b] \notin Critical
  BY Alone
<1>2. pc \in [Actors -> Critical \cup {"idle", "desired", "lock", "trLoad",
                                      "trFlush"}]
  BY DEF TypeOK
<1> DEFINE Parts == /\ MutualExclusion /\ HandlerSections
                    /\ ClosedBeforeRead /\ PauseSectionSilent
                    /\ RowsUnserved /\ MarkedServed
                    /\ SocketsOwned /\ OneListenerPerMapping
<1>3. Parts
  BY DEF EngineInv
<1> SUFFICES Parts'
  BY DEF EngineInv
<1> USE DEF MutualExclusion, HandlerSections, ClosedBeforeRead,
            PauseSectionSilent, RowsUnserved, MarkedServed, SocketsOwned,
            OneListenerPerMapping, Critical
<1>4. ASSUME NEW t \in Threads, CloseListener(a, t) PROVE Parts'
  <2>1. /\ Serving' = Serving \ {t}
        /\ \A u \in Serving \ {t} : thread'[u] = thread[u]
    <3>1. thread[t] \in Listener
      BY <1>4, ListenerOrNone DEF CloseListener, Serving
    <3>2. thread' = [thread EXCEPT ![t] = [thread[t] EXCEPT !.open = FALSE]]
      BY <1>4 DEF CloseListener
    <3>3. ~[thread[t] EXCEPT !.open = FALSE].open
      BY <3>1 DEF Listener
    <3> QED BY <3>2, <3>3 DEF Serving, TypeOK
  <2> QED BY <1>1, <1>2, <1>3, <1>4, <2>1 DEF CloseListener
<1>5. CASE JoinListener(a)
  BY <1>1, <1>2, <1>3, <1>5 DEF JoinListener, Serving
<1>6. CASE CloseAllDone(a)
  <2>1. Serving = {}
    BY <1>3, <1>6 DEF CloseAllDone
  <2>2. Serving' = {}
    BY <1>6, <2>1 DEF CloseAllDone, Serving
  <2> QED BY <1>1, <1>2, <1>3, <1>6, <2>2 DEF CloseAllDone
<1>7. CASE ReadRows(a)
  <2>1. Serving' = {}
    BY <1>3, <1>7 DEF ReadRows, Serving
  <2>2. \A x, y \in rows' : x.id = y.id => x = y
    BY <1>7 DEF ReadRows, Snapshot
  <2> QED BY <1>1, <1>2, <1>3, <1>7, <2>1, <2>2 DEF ReadRows
<1>8. ASSUME NEW row \in rows, BindFails(a, row) PROVE Parts'
  <2>1. Serving' = Serving /\ thread' = thread
    BY <1>8 DEF BindFails, Serving
  <2> QED BY <1>1, <1>2, <1>3, <1>8, <2>1 DEF BindFails
<1>9. ASSUME NEW row \in rows, NEW t \in Threads, BindRow(a, row, t)
      PROVE Parts'
  <2>1. t \notin Serving
    BY <1>9 DEF BindRow, Serving
  <2>2. /\ NewListener(row) # NoThread /\ NewListener(row).open
        /\ NewListener(row).id = row.id /\ NewListener(row).port = row.port
    <3>1. (CHOOSE x \in Macs : TRUE) \in Macs
      BY MacsNonempty
    <3>2. NewListener(row) \in Listener
      BY <3>1 DEF TypeOK, NewListener, Listener, RuntimeMapping, Results
    <3> QED BY <3>2, SentinelsDistinct DEF NewListener
  <2>3. /\ Serving' = Serving \cup {t}
        /\ thread'[t].id = row.id /\ thread'[t].port = row.port
        /\ \A u \in Serving : thread'[u] = thread[u]
    BY <1>9, <2>1, <2>2 DEF BindRow, Serving, TypeOK
  <2>4. RowsUnserved' /\ OneListenerPerMapping'
    BY <1>3, <1>9, <2>3 DEF BindRow
  <2> QED BY <1>1, <1>2, <1>3, <1>9, <2>3, <2>4 DEF BindRow
<1>10. CASE SetMappingStatus(a)
  <2>1. Serving' = Serving /\ thread' = thread
    BY <1>10 DEF SetMappingStatus, Serving
  <2> QED BY <1>1, <1>2, <1>3, <1>10, <2>1 DEF SetMappingStatus
<1>11. CASE RowsDone(a)
  BY <1>1, <1>2, <1>3, <1>11 DEF RowsDone, Serving
<1>12. CASE ResetStatuses(a)
  <2>1. Serving' = Serving /\ thread' = thread
    BY <1>12 DEF ResetStatuses, Serving
  <2> QED BY <1>1, <1>2, <1>3, <1>12, <2>1 DEF ResetStatuses
<1>13. CASE HeartbeatLoad(a)
  BY <1>1, <1>2, <1>3, <1>13 DEF HeartbeatLoad, Load, Serving
<1>14. CASE Heartbeat(a)
  <2>1. pc'[a] \notin Critical
    BY <1>2, <1>14 DEF Heartbeat
  <2>2. \A b \in Actors \ {a} : pc'[b] = pc[b]
    BY <1>2, <1>14 DEF Heartbeat
  <2>3. Serving' = Serving /\ thread' = thread
    BY <1>14 DEF Heartbeat, Serving
  <2> QED BY <1>1, <1>3, <1>14, <2>1, <2>2, <2>3 DEF Heartbeat
<1> QED BY <1>4, <1>5, <1>6, <1>7, <1>8, <1>9, <1>10, <1>11, <1>12, <1>13,
           <1>14 DEF RuntimeStep, ReconcileIfActive, Acquire, TransitionLoad,
                     Transition

\* The other steps of the actors: entering a handler, waiting for the lock,
\* and the transition after it.
LEMMA ActorSteps ==
    ASSUME TypeOK, EngineInv, NEW a \in Actors, RouteStep(a) \/ RuntimeStep(a)
    PROVE  EngineInv'
<1> USE DEF Goto, Finish, Begin, dbVars, localVars
<1>1. pc \in [Actors -> Critical \cup {"idle", "desired", "lock", "trLoad",
                                      "trFlush"}]
      /\ op \in [Actors -> {"none", "resume", "pause", "reconcile", "shutdown"}]
  BY DEF TypeOK
<1>2. ASSUME UNCHANGED <<thread, rows, marking, lock, listeners>>,
             NEW next \in {"idle", "desired", "lock", "trLoad", "trFlush"},
             pc' = [pc EXCEPT ![a] = next],
             \A b \in Actors \ {a} : op'[b] = op[b]
      PROVE  EngineInv'
  <2>1. SocketFrame
    BY <1>2 DEF SocketFrame, Serving
  <2>2. next \notin Critical
    BY DEF Critical
  <2>3. \A b \in Actors :
            (pc'[b] = pc[b] /\ op'[b] = op[b]) \/ pc'[b] \notin Critical
    BY <1>1, <1>2, <2>2
  <2> QED BY <1>2, <2>1, <2>3, OutsideSteps
<1>3. CASE RouteStep(a)
  BY <1>1, <1>2, <1>3
  DEF RouteStep, ResumeEngine, PauseEngine, UpdateSettings, CreateListener,
      UpdateListener, DeleteListener, UpdateDevice
<1>4. CASE Acquire(a)
  <2>1. /\ pc' = [pc EXCEPT ![a] = "close"] /\ lock = {} /\ lock' = {a}
        /\ Serving' = Serving
        /\ UNCHANGED <<thread, rows, marking, listeners, op>>
    BY <1>4 DEF Acquire, Serving
  <2>2. \A b \in Actors : pc[b] \notin Critical
    BY <2>1 DEF EngineInv, MutualExclusion
  <2> QED
    BY <1>1, <2>1, <2>2
    DEF EngineInv, MutualExclusion, HandlerSections, ClosedBeforeRead,
        PauseSectionSilent, RowsUnserved, MarkedServed, SocketsOwned,
        OneListenerPerMapping, Critical
<1>5. CASE ReconcileIfActive(a)
  BY <1>1, <1>2, <1>5 DEF ReconcileIfActive
<1>6. CASE TransitionLoad(a)
  BY <1>1, <1>2, <1>6 DEF TransitionLoad, Load
<1>7. CASE Transition(a)
  BY <1>1, <1>2, <1>7 DEF Transition
<1>8. CASE RuntimeStep(a) /\ pc[a] \in Critical
  BY <1>8, CriticalSteps
<1>9. RuntimeStep(a) => \/ Acquire(a) \/ ReconcileIfActive(a)
                        \/ TransitionLoad(a) \/ Transition(a)
                        \/ pc[a] \in Critical
  BY DEF RuntimeStep, CloseListener, JoinListener, CloseAllDone, ReadRows,
         BindFails, BindRow, SetMappingStatus, RowsDone, ResetStatuses,
         HeartbeatLoad, Heartbeat, Critical
<1> QED BY <1>3, <1>4, <1>5, <1>6, <1>7, <1>8, <1>9

\* An exception that leaves a handler: the lock goes, the sockets opened so
\* far stay in _listeners.
LEMMA RaiseStep ==
    ASSUME TypeOK, EngineInv, NEW a \in Actors, Raise(a)
    PROVE  EngineInv'
<1> USE DEF Finish, dbVars, localVars
<1>1. /\ pc' = [pc EXCEPT ![a] = "idle"]
      /\ pc \in [Actors -> Critical \cup {"idle", "desired", "lock", "trLoad",
                                         "trFlush"}]
  BY DEF Raise, TypeOK
<1>2. \A b \in Actors : pc'[b] # "idle" => /\ b # a
                                          /\ pc'[b] = pc[b]
                                          /\ op'[b] = op[b]
  BY <1>1 DEF Raise, TypeOK
<1>3. MutualExclusion'
  BY <1>2 DEF EngineInv, MutualExclusion, Raise, Critical
<1>4. /\ Serving' \subseteq Serving
      /\ \A t \in Serving' : thread'[t] = thread[t] /\ t \in listeners'
  BY DEF Raise, Serving, EngineInv, SocketsOwned
<1>5. rows' \subseteq rows
  BY DEF Raise
<1>6. MarkedServed'
  <2> SUFFICES ASSUME NEW b \in Actors, pc'[b] = "mark"
               PROVE \A x \in marking' : x.status = "active" =>
                         \E t \in Serving' : thread'[t].id = x.id
    BY DEF MarkedServed
  <2>1. b # a /\ pc[b] = "mark"
    BY <1>2
  <2>2. lock = {b}
    BY <2>1 DEF EngineInv, MutualExclusion, Critical
  <2>3. CASE a = Lifespan
    <3>1. pc[a] \in Critical
      BY <2>3, ActorsDistinct DEF Raise, Critical
    <3> QED BY <2>1, <2>2, <3>1 DEF EngineInv, MutualExclusion
  <2>4. CASE a # Lifespan
    <3>1. marking' = marking /\ thread' = thread /\ Serving' = Serving
      BY <2>1, <2>2, <2>4 DEF Raise, Serving
    <3> QED BY <2>1, <3>1 DEF EngineInv, MarkedServed
  <2> QED BY <2>3, <2>4
<1> QED
  BY <1>2, <1>3, <1>4, <1>5, <1>6
  DEF EngineInv, HandlerSections, ClosedBeforeRead, PauseSectionSilent,
      RowsUnserved, SocketsOwned, OneListenerPerMapping

(* EngineInv is inductive relative to the types.                           *)
LEMMA EngineStep == TypeOK /\ EngineInv /\ [Next]_vars => EngineInv'
<1> SUFFICES ASSUME TypeOK, EngineInv, [Next]_vars PROVE EngineInv'
    OBVIOUS
<1> USE DEF dbVars, localVars
<1>1. ASSUME NEW a \in Actors, RouteStep(a) \/ RuntimeStep(a) PROVE EngineInv'
  BY <1>1, ActorSteps
<1>2. ASSUME NEW a \in Actors, Raise(a) PROVE EngineInv'
  BY <1>2, RaiseStep
<1>3. ASSUME SocketFrame, UNCHANGED <<pc, op, rows, marking, lock, listeners>>
      PROVE  EngineInv'
  BY <1>3, OutsideSteps
<1>4. ASSUME NEW t \in Threads, ThreadStep(t) PROVE EngineInv'
  <2>1. UNCHANGED <<pc, op, rows, marking, lock, listeners>>
    BY <1>4 DEF ThreadStep, Receive, ThreadExits, Allow, Material, Wake,
                Record, HandleRaises
  <2> QED BY <1>3, <1>4, <2>1, ThreadFrame
<1>5. ASSUME NEW t \in Threads, NEW mac \in Macs, CooldownEnds(t, mac)
      PROVE EngineInv'
  <2>1. UNCHANGED <<pc, op, rows, marking, lock, listeners>>
    BY <1>5 DEF CooldownEnds
  <2> QED BY <1>3, <1>5, <2>1, CooldownFrame
<1>6. ASSUME NEW m \in Mappings, RetentionCleanup(m) PROVE EngineInv'
  BY <1>3, <1>6 DEF RetentionCleanup, SocketFrame, Serving
<1>7. CASE StartFromDesiredState \/ Shutdown
  <2>1. /\ pc' = [pc EXCEPT ![Lifespan] = "lock"]
        /\ \A b \in Actors \ {Lifespan} : op'[b] = op[b]
        /\ UNCHANGED <<thread, rows, marking, lock, listeners>>
    BY <1>7 DEF StartFromDesiredState, Shutdown, Begin, TypeOK
  <2>2. SocketFrame
    BY <2>1 DEF SocketFrame, Serving
  <2>3. \A b \in Actors :
            (pc'[b] = pc[b] /\ op'[b] = op[b]) \/ pc'[b] \notin Critical
    BY <2>1 DEF TypeOK, Critical
  <2> QED BY <2>1, <2>2, <2>3, OutsideSteps
<1>8. CASE Crash
  BY <1>8, ProcessEnds DEF Crash
<1>9. CASE UNCHANGED vars
  BY <1>3, <1>9 DEF vars, SocketFrame, Serving
<1> QED BY <1>1, <1>2, <1>4, <1>5, <1>6, <1>7, <1>8, <1>9 DEF Next

(* EngineInv holds in every reachable state.                               *)
THEOREM EngineCorrect == Spec => []EngineInv
<1>1. Init => EngineInv
  BY DEF Init, EngineInv, MutualExclusion, HandlerSections, ClosedBeforeRead,
         PauseSectionSilent, RowsUnserved, MarkedServed, SocketsOwned,
         OneListenerPerMapping, Serving, Critical
<1> QED BY <1>1, TypeCorrect, EngineStep, PTL DEF Spec

(* No listener is leaked: EngineRuntime._listeners always holds every open *)
(* socket, whatever handlers interleave, fail or crash.                    *)
THEOREM NoLeakedSocket == Spec => []SocketsOwned
<1>1. EngineInv => SocketsOwned
  BY DEF EngineInv
<1> QED BY <1>1, EngineCorrect, PTL

(* A mapping never has two listeners, nor a port two sockets.              *)
THEOREM SingleListener == Spec => []OneListenerPerMapping
<1>1. EngineInv => OneListenerPerMapping
  BY DEF EngineInv
<1> QED BY <1>1, EngineCorrect, PTL

(* pause() holds the lock with every socket closed until its heartbeat is  *)
(* written.                                                                *)
THEOREM PauseIsSilent == Spec => []PauseSectionSilent
<1>1. EngineInv => PauseSectionSilent
  BY DEF EngineInv
<1> QED BY <1>1, EngineCorrect, PTL

(* A status of "active" is written only while the mapping's socket is open. *)
THEOREM ActiveMeansBound == Spec => ActiveReportedAfterBind
<1> DEFINE Reported ==
        \A m \in Mappings :
          (m \in Existing /\ mapping[m].status # "active"
              /\ mapping'[m] # NoRow /\ mapping'[m].status = "active")
          => \E t \in Serving : thread[t].id = m
<1>1. TypeOK /\ EngineInv /\ [Next]_vars => [Reported]_vars
  <2> SUFFICES ASSUME TypeOK, EngineInv, Next, NEW m \in Mappings,
                      m \in Existing, mapping[m].status # "active",
                      mapping'[m] # NoRow, mapping'[m].status = "active"
               PROVE  \E t \in Serving : thread[t].id = m
    OBVIOUS
  <2> USE DEF dbVars, localVars
  <2>1. mapping' # mapping
    OBVIOUS
  <2>2. PICK a \in Actors :
            \/ \E n \in Mappings, d \in Devices, p \in Ports, e \in BOOLEAN :
                  CreateListener(a, n, d, p, e) \/ UpdateListener(a, n, d, p, e)
            \/ \E n \in Mappings : DeleteListener(a, n)
            \/ SetMappingStatus(a) \/ ResetStatuses(a)
    <3>1. ASSUME NEW a \in Actors, RouteStep(a)
          PROVE \/ \E n \in Mappings, d \in Devices, p \in Ports, e \in BOOLEAN :
                      CreateListener(a, n, d, p, e) \/ UpdateListener(a, n, d, p, e)
                \/ \E n \in Mappings : DeleteListener(a, n)
      BY <2>1, <3>1 DEF RouteStep, ResumeEngine, PauseEngine, UpdateSettings,
                        UpdateDevice
    <3>2. ASSUME NEW a \in Actors, RuntimeStep(a)
          PROVE SetMappingStatus(a) \/ ResetStatuses(a)
      BY <2>1, <3>2
      DEF RuntimeStep, ReconcileIfActive, Acquire, CloseListener, JoinListener,
          CloseAllDone, ReadRows, BindFails, BindRow, RowsDone, HeartbeatLoad,
          Heartbeat, TransitionLoad, Transition
    <3>3. ASSUME NEW a \in Actors, Raise(a) PROVE FALSE
      BY <2>1, <3>3 DEF Raise
    <3>4. ASSUME NEW t \in Threads, ThreadStep(t) PROVE FALSE
      BY <2>1, <3>4 DEF ThreadStep, Receive, ThreadExits, Allow, Material, Wake,
                        Record, HandleRaises
    <3>5. ASSUME \/ \E t \in Threads, mac \in Macs : CooldownEnds(t, mac)
                 \/ \E n \in Mappings : RetentionCleanup(n)
                 \/ StartFromDesiredState \/ Shutdown \/ Crash
          PROVE FALSE
      BY <2>1, <3>5 DEF CooldownEnds, RetentionCleanup, StartFromDesiredState,
                        Shutdown, Crash
    <3> QED BY <3>1, <3>2, <3>3, <3>4, <3>5 DEF Next
  <2>3. SetMappingStatus(a)
    <3>1. ASSUME NEW n \in Mappings, NEW d \in Devices, NEW p \in Ports,
                 NEW e \in BOOLEAN,
                 CreateListener(a, n, d, p, e) \/ UpdateListener(a, n, d, p, e)
          PROVE FALSE
      BY <3>1 DEF CreateListener, UpdateListener, TypeOK
    <3>2. ASSUME NEW n \in Mappings, DeleteListener(a, n) PROVE FALSE
      BY <3>2 DEF DeleteListener, TypeOK
    <3>3. ASSUME ResetStatuses(a) PROVE FALSE
      <4>1. mapping[m] \in MappingRow
        BY RowOrNone DEF Existing
      <4> QED BY <3>3, <4>1 DEF ResetStatuses, Existing, MappingRow
    <3> QED BY <2>2, <3>1, <3>2, <3>3
  <2>4. PICK x \in marking :
            mapping' = IF x.id \in Existing
                       THEN [mapping EXCEPT ![x.id].status = x.status]
                       ELSE mapping
    BY <2>3 DEF SetMappingStatus
  <2>5. x.id = m /\ x.status = "active"
    <3>1. mapping[m] \in MappingRow
      BY RowOrNone DEF Existing
    <3> QED BY <2>4, <3>1 DEF TypeOK, Existing, MappingRow
  <2> QED BY <2>3, <2>4, <2>5 DEF EngineInv, MarkedServed, SetMappingStatus
<1> QED BY <1>1, TypeCorrect, EngineCorrect, PTL
        DEF Spec, ActiveReportedAfterBind
=============================================================================
