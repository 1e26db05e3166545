---------------------------- MODULE ServiceProofs ----------------------------
(***************************************************************************)
(* Engine implements ServedMappings, and its sockets and its state row     *)
(* converge to the configuration, for every set of workers, threads,       *)
(* mappings, devices, ports and MAC addresses.                             *)
(***************************************************************************)
EXTENDS EngineProofs

(* What resume() would select is always a set of rows.                      *)
LEMMA SelectedTyped == TypeOK => SelectedRows \subseteq RuntimeMapping
BY RowOrNone
DEF SelectedRows, Selected, Existing, Snapshot, RuntimeMapping, MappingRow

(* The rows served depend on the sockets only.                              *)
LEMMA FrameServes == SocketFrame => ServedRows' = ServedRows
<1> SUFFICES ASSUME SocketFrame PROVE ServedRows' = ServedRows
    OBVIOUS
<1>1. Serving' = Serving /\ \A t \in Serving : Held(t)' = Held(t)
  BY DEF SocketFrame, Held
<1> QED BY <1>1 DEF ServedRows

(* A step that leaves the sockets and the plan alone is an edit of the      *)
(* configuration, or nothing.                                               *)
LEMMA FrameIsEdit ==
    ASSUME TypeOK', SocketFrame, rows' = rows
    PROVE  Service!Next
<1>1. (SelectedRows \subseteq RuntimeMapping)'
  BY SelectedTyped, PTL
<1>2. ServedRows' = ServedRows
  BY FrameServes
<1> QED BY <1>1, <1>2 DEF Service!Next, Service!Edit

(* The steps of ServedMappings that are not edits are taken by actors who   *)
(* change neither a mapping nor a device.                                   *)
LEMMA SameSelection ==
    ASSUME UNCHANGED <<mapping, enabledDevs>>
    PROVE  SelectedRows' = SelectedRows
BY DEF SelectedRows, Selected, Existing, Snapshot

-----------------------------------------------------------------------------
(* The phases of the process are inductive on their own.                    *)
LEMMA PhaseStep == TypeOK /\ LifespanPhases /\ [Next]_vars => LifespanPhases'
<1> SUFFICES ASSUME TypeOK, LifespanPhases, [Next]_vars PROVE LifespanPhases'
    OBVIOUS
<1> USE DEF Goto, Finish, Begin, dbVars, localVars
<1>0. /\ pc \in [Actors -> Critical \cup {"idle", "desired", "lock", "trLoad",
                                         "trFlush"}]
      /\ op \in [Actors -> {"none", "resume", "pause", "reconcile", "shutdown"}]
      /\ Lifespan \in Actors /\ Requests \subseteq Actors
      /\ Lifespan \notin Requests
      /\ \A a \in Actors : a \in Requests \/ a = Lifespan
  BY ActorsDistinct DEF TypeOK, Actors
\* A request that is in a handler, or enters one, stays within the phase.
<1>1. ASSUME NEW a \in Actors, NEW next, NEW o, o # "shutdown",
             pc' = [pc EXCEPT ![a] = next],
             op' = op \/ op' = [op EXCEPT ![a] = o],
             phase' = phase,
             pc[a] # "idle" \/ (phase = "up" /\ a \in Requests)
      PROVE  LifespanPhases'
  BY <1>0, <1>1 DEF LifespanPhases
<1>2. ASSUME NEW a \in Actors, RouteStep(a) PROVE LifespanPhases'
  BY <1>1, <1>2
  DEF RouteStep, ResumeEngine, PauseEngine, UpdateSettings, CreateListener,
      UpdateListener, DeleteListener, UpdateDevice, Arrive
<1>3. ASSUME NEW a \in Actors, RuntimeStep(a) PROVE LifespanPhases'
  <2>1. CASE \/ ReconcileIfActive(a) \/ Acquire(a) \/ JoinListener(a)
             \/ \E t \in Threads : CloseListener(a, t)
             \/ ReadRows(a) \/ \E row \in rows : BindFails(a, row)
             \/ \E row \in rows, t \in Threads : BindRow(a, row, t)
    BY <1>1, <2>1 DEF ReconcileIfActive, Acquire, JoinListener, CloseListener,
                      ReadRows, BindFails, BindRow
  <2>2. CASE \/ SetMappingStatus(a) \/ RowsDone(a) \/ ResetStatuses(a)
             \/ HeartbeatLoad(a) \/ TransitionLoad(a) \/ Transition(a)
    BY <1>1, <2>2 DEF SetMappingStatus, RowsDone, ResetStatuses, HeartbeatLoad,
                      TransitionLoad, Transition, Load
  <2>3. CASE CloseAllDone(a)
    <3>1. CASE op[a] = "shutdown"
      <4>1. a = Lifespan /\ phase # "up" /\ pc'[a] = "idle"
        BY <1>0, <2>3, <3>1 DEF CloseAllDone, LifespanPhases
      <4> QED BY <1>0, <2>3, <3>1, <4>1 DEF CloseAllDone, LifespanPhases
    <3>2. CASE op[a] # "shutdown"
      BY <1>1, <2>3, <3>2 DEF CloseAllDone
    <3> QED BY <3>1, <3>2
  <2>4. CASE Heartbeat(a)
    <3>1. CASE a = Lifespan
      BY <1>0, <2>4, <3>1 DEF Heartbeat, LifespanPhases
    <3>2. CASE a # Lifespan
      BY <1>1, <2>4, <3>2 DEF Heartbeat
    <3> QED BY <3>1, <3>2
  <2> QED BY <1>3, <2>1, <2>2, <2>3, <2>4 DEF RuntimeStep
<1>4. ASSUME NEW a \in Actors, Raise(a) PROVE LifespanPhases'
  <2>1. CASE a = Lifespan
    <3>1. phase # "up"
      BY <1>4, <2>1 DEF Raise, LifespanPhases
    <3> QED BY <1>0, <1>4, <2>1, <3>1 DEF Raise, LifespanPhases
  <2>2. CASE a # Lifespan
    BY <1>1, <1>4, <2>2 DEF Raise
  <2> QED BY <2>1, <2>2
<1>5. ASSUME \/ \E t \in Threads : ThreadStep(t)
             \/ \E t \in Threads, mac \in Macs : CooldownEnds(t, mac)
             \/ \E m \in Mappings : RetentionCleanup(m)
             \/ UNCHANGED vars
      PROVE LifespanPhases'
  <2>1. UNCHANGED <<pc, op, phase>>
    BY <1>5 DEF ThreadStep, Receive, ThreadExits, Allow, Material, Wake,
                Record, HandleRaises, CooldownEnds, RetentionCleanup, vars
  <2> QED BY <2>1 DEF LifespanPhases
<1>6. CASE StartFromDesiredState \/ Shutdown
  BY <1>0, <1>6 DEF StartFromDesiredState, Shutdown, LifespanPhases
<1>7. CASE Crash
  BY <1>0, <1>7 DEF Crash, LifespanPhases
<1> QED BY <1>2, <1>3, <1>4, <1>5, <1>6, <1>7 DEF Next

(* Everyone outside the loop of resume() meets an empty plan.               *)
LEMMA NoPlanElsewhere ==
    ASSUME EngineInv, PlanOnlyInLoop, NEW a \in Actors,
           pc[a] \in Critical \ {"bind", "mark"}
    PROVE  rows = {}
<1>1. \A b \in Actors \ {a} : pc[b] \notin {"bind", "mark"}
  BY Alone DEF Critical
<1> QED BY <1>1 DEF PlanOnlyInLoop

(* A step of actor a that keeps the plan and does not leave the loop.       *)
LEMMA PlanFrame ==
    ASSUME PlanOnlyInLoop, TypeOK, NEW a \in Actors, NEW next,
           pc' = [pc EXCEPT ![a] = next], rows' \subseteq rows,
           pc[a] \notin {"bind", "mark"} \/ next \in {"bind", "mark"}
    PROVE  PlanOnlyInLoop'
BY DEF PlanOnlyInLoop, TypeOK

(* PlanOnlyInLoop is inductive relative to EngineInv.                       *)
LEMMA PlanStep ==
    TypeOK /\ EngineInv /\ LifespanPhases /\ PlanOnlyInLoop /\ [Next]_vars
        => PlanOnlyInLoop'
<1> SUFFICES ASSUME TypeOK, EngineInv, LifespanPhases, PlanOnlyInLoop,
                    [Next]_vars
             PROVE  PlanOnlyInLoop'
    OBVIOUS
<1> USE DEF Goto, Finish, Begin, dbVars, localVars
<1>1. ASSUME NEW a \in Actors, RouteStep(a) PROVE PlanOnlyInLoop'
  BY <1>1, PlanFrame
  DEF RouteStep, ResumeEngine, PauseEngine, UpdateSettings, CreateListener,
      UpdateListener, DeleteListener, UpdateDevice, Arrive
<1>2. ASSUME NEW a \in Actors, RuntimeStep(a) PROVE PlanOnlyInLoop'
  <2>1. CASE \/ ReconcileIfActive(a) \/ Acquire(a) \/ JoinListener(a)
             \/ \E t \in Threads : CloseListener(a, t)
    BY <2>1, PlanFrame DEF ReconcileIfActive, Acquire, JoinListener,
                           CloseListener
  <2>2. CASE CloseAllDone(a)
    BY <2>2, PlanFrame DEF CloseAllDone
  <2>3. CASE ReadRows(a)
    BY <2>3 DEF ReadRows, PlanOnlyInLoop, TypeOK
  <2>4. CASE \/ \E row \in rows : BindFails(a, row)
             \/ \E row \in rows, t \in Threads : BindRow(a, row, t)
             \/ SetMappingStatus(a)
    BY <2>4, PlanFrame DEF BindFails, BindRow, SetMappingStatus
  <2>5. CASE RowsDone(a)
    BY <2>5 DEF RowsDone, PlanOnlyInLoop
  <2>6. CASE \/ ResetStatuses(a) \/ HeartbeatLoad(a) \/ TransitionLoad(a)
             \/ Transition(a)
    BY <2>6, PlanFrame DEF ResetStatuses, HeartbeatLoad, TransitionLoad,
                           Transition, Load
  <2>7. CASE Heartbeat(a)
    <3>1. PICK next : pc' = [pc EXCEPT ![a] = next]
      BY <2>7 DEF Heartbeat
    <3> QED BY <2>7, <3>1, PlanFrame DEF Heartbeat
  <2> QED BY <1>2, <2>1, <2>2, <2>3, <2>4, <2>5, <2>6, <2>7 DEF RuntimeStep
<1>3. ASSUME NEW a \in Actors, Raise(a) PROVE PlanOnlyInLoop'
  <2>1. CASE a \in lock
    BY <1>3, <2>1 DEF Raise, PlanOnlyInLoop
  <2>2. CASE a \notin lock
    <3>1. pc[a] \notin {"bind", "mark"}
      BY <2>2 DEF EngineInv, MutualExclusion, Critical
    <3> QED BY <1>3, <2>2, <3>1, PlanFrame DEF Raise
  <2> QED BY <2>1, <2>2
<1>4. ASSUME UNCHANGED <<pc, rows>> PROVE PlanOnlyInLoop'
  BY <1>4 DEF PlanOnlyInLoop
<1>5. ASSUME \/ \E t \in Threads : ThreadStep(t)
             \/ \E t \in Threads, mac \in Macs : CooldownEnds(t, mac)
             \/ \E m \in Mappings : RetentionCleanup(m)
             \/ UNCHANGED vars
      PROVE PlanOnlyInLoop'
  <2>1. UNCHANGED <<pc, rows>>
    BY <1>5 DEF ThreadStep, Receive, ThreadExits, Allow, Material, Wake,
                Record, HandleRaises, CooldownEnds, RetentionCleanup, vars
  <2> QED BY <1>4, <2>1
<1>6. CASE StartFromDesiredState \/ Shutdown
  <2>1. Lifespan \in Actors /\ pc[Lifespan] = "idle"
    BY <1>6 DEF StartFromDesiredState, Shutdown, Actors, LifespanPhases
  <2> QED BY <1>6, <2>1, PlanFrame DEF StartFromDesiredState, Shutdown
<1>7. CASE Crash
  BY <1>7 DEF Crash, PlanOnlyInLoop
<1> QED BY <1>1, <1>2, <1>3, <1>5, <1>6, <1>7 DEF Next

-----------------------------------------------------------------------------
(***************************************************************************)
(* Every step of the engine is a step of the service.                      *)
(***************************************************************************)
ServiceInv == TypeOK /\ EngineInv /\ LifespanPhases /\ PlanOnlyInLoop

\* close() of one listener takes one row out of the open ones.
LEMMA CloseRefines ==
    ASSUME ServiceInv, NEW a \in Actors, NEW t \in Threads, CloseListener(a, t)
    PROVE  Service!Next
<1> USE DEF dbVars, localVars
<1>1. rows = {}
  BY NoPlanElsewhere DEF ServiceInv, CloseListener, Critical
<1>2. /\ t \in Serving /\ Serving' = Serving \ {t}
      /\ \A u \in Serving \ {t} : thread'[u] = thread[u]
  <2>1. thread[t] \in Listener
    BY ListenerOrNone DEF ServiceInv, CloseListener, Serving
  <2>2. thread' = [thread EXCEPT ![t] = [thread[t] EXCEPT !.open = FALSE]]
    BY DEF CloseListener
  <2>3. ~[thread[t] EXCEPT !.open = FALSE].open
    BY <2>1 DEF Listener
  <2> QED BY <2>2, <2>3 DEF Serving, ServiceInv, TypeOK, CloseListener
<1>3. \A u \in Serving \ {t} : Held(u)' = Held(u) /\ Held(u) # Held(t)
  <2>1. \A u \in Serving \ {t} : thread[u].id # thread[t].id
    BY <1>2 DEF ServiceInv, EngineInv, OneListenerPerMapping
  <2> QED BY <1>2, <2>1 DEF Held
<1>4. ServedRows' = ServedRows \ {Held(t)} /\ Held(t) \in ServedRows
  BY <1>2, <1>3 DEF ServedRows
<1>5. SelectedRows' = SelectedRows /\ rows' = rows
  BY SameSelection DEF CloseListener
<1> QED BY <1>1, <1>4, <1>5 DEF Service!Next, Service!Close

\* The SELECT of resume() is the reading of the configuration.
LEMMA ReadRefines ==
    ASSUME ServiceInv, NEW a \in Actors, ReadRows(a)
    PROVE  Service!Next
<1> USE DEF dbVars, localVars
<1>1. rows = {}
  BY NoPlanElsewhere DEF ServiceInv, ReadRows, Critical
<1>2. ServedRows = {} /\ ServedRows' = {}
  BY DEF ServiceInv, EngineInv, ClosedBeforeRead, ReadRows, ServedRows, Serving
<1>3. SelectedRows' = SelectedRows
  BY SameSelection DEF ReadRows
<1>4. rows' = SelectedRows
  BY DEF ReadRows, SelectedRows
<1> QED BY <1>1, <1>2, <1>3, <1>4 DEF Service!Next, Service!Read

\* A successful bind adds the socket of one row.
LEMMA OpensSocket ==
    ASSUME TypeOK, NEW a \in Actors, NEW row \in rows, NEW t \in Threads,
           BindRow(a, row, t)
    PROVE  /\ Serving' = Serving \cup {t}
           /\ thread'[t] = NewListener(row)
           /\ \A u \in Serving : thread'[u] = thread[u]
<1>1. NewListener(row) # NoThread
  <2>1. (CHOOSE x \in Macs : TRUE) \in Macs
    BY MacsNonempty
  <2>2. NewListener(row) \in Listener
    BY <2>1 DEF NewListener, Listener, RuntimeMapping, Results, TypeOK
  <2> QED BY <2>2, SentinelsDistinct
<1>2. NewListener(row).open
  BY DEF NewListener
<1> QED BY <1>1, <1>2 DEF BindRow, Serving, TypeOK

LEMMA BindServes ==
    ASSUME ServiceInv, NEW a \in Actors, NEW row \in rows, NEW t \in Threads,
           BindRow(a, row, t)
    PROVE  ServedRows' = ServedRows \cup {row}
<1>1. row \in RuntimeMapping
  BY DEF ServiceInv, TypeOK
<1>2. /\ Serving' = Serving \cup {t}
      /\ thread'[t] = NewListener(row)
      /\ \A u \in Serving : thread'[u] = thread[u]
  BY OpensSocket DEF ServiceInv
<1>3. Held(t)' = row
  BY <1>1, <1>2 DEF Held, RuntimeMapping, NewListener
<1>4. \A u \in Serving : Held(u)' = Held(u)
  BY <1>2 DEF Held
<1> QED BY <1>2, <1>3, <1>4 DEF ServedRows

\* It is a row of the plan that no socket serves.
LEMMA BindRefines ==
    ASSUME ServiceInv, NEW a \in Actors, NEW row \in rows, NEW t \in Threads,
           BindRow(a, row, t)
    PROVE  Service!Next
<1> USE DEF dbVars, localVars
<1>1. ServedRows' = ServedRows \cup {row}
  BY BindServes
<1>2. \A y \in ServedRows : y.id # row.id /\ y.port # row.port
  BY DEF ServedRows, Held, BindRow, ServiceInv, EngineInv, RowsUnserved
<1>3. SelectedRows' = SelectedRows /\ rows' = rows \ {row}
  BY SameSelection DEF BindRow
<1> QED BY <1>1, <1>2, <1>3 DEF Service!Next, Service!Serve

\* A failed bind gives the row up.
LEMMA BindFailsRefines ==
    ASSUME NEW a \in Actors, NEW row \in rows, BindFails(a, row)
    PROVE  Service!Next
<1> USE DEF dbVars, localVars
<1>1. SelectedRows' = SelectedRows
  BY SameSelection DEF BindFails
<1>2. ServedRows' = ServedRows
  BY DEF BindFails, ServedRows, Serving, Held
<1> QED BY <1>1, <1>2 DEF Service!Next, Service!Skip, BindFails

\* An exit of the process closes everything.
LEMMA EndRefines ==
    ASSUME UNCHANGED <<mapping, enabledDevs>>, rows' = {},
           thread' = [t \in Threads |-> NoThread]
    PROVE  Service!Next
<1>1. SelectedRows' = SelectedRows
  BY SameSelection
<1>2. ServedRows' = {}
  BY DEF ServedRows, Serving
<1> QED BY <1>1, <1>2 DEF Service!Next, Service!ProcessEnds

\* The end of _close_all: nothing is open any more.
LEMMA CloseAllRefines ==
    ASSUME ServiceInv, TypeOK', NEW a \in Actors, CloseAllDone(a)
    PROVE  Service!Next
<1> USE DEF dbVars, localVars
<1>1. rows = {} /\ rows' = {}
  BY NoPlanElsewhere DEF ServiceInv, CloseAllDone, Critical
<1>2. CASE op[a] = "shutdown"
  BY <1>1, <1>2, EndRefines DEF CloseAllDone
<1>3. CASE op[a] # "shutdown"
  <2>1. SocketFrame
    BY <1>3 DEF CloseAllDone, SocketFrame, Serving
  <2> QED BY <1>1, <2>1, FrameIsEdit
<1> QED BY <1>2, <1>3

\* An exception abandons the plan of the actor that holds the lock; at
\* start-up it ends the process.
LEMMA RaiseRefines ==
    ASSUME ServiceInv, TypeOK', NEW a \in Actors, Raise(a)
    PROVE  Service!Next
<1> USE DEF dbVars, localVars
<1>1. SelectedRows' = SelectedRows
  BY SameSelection DEF Raise
<1>2. CASE a = Lifespan
  <2>1. a \in lock
    BY <1>2, ActorsDistinct
    DEF Raise, ServiceInv, EngineInv, MutualExclusion, Critical
  <2> QED BY <1>2, <2>1, EndRefines DEF Raise
<1>3. CASE a # Lifespan
  <2>1. SocketFrame
    BY <1>3 DEF Raise, SocketFrame, Serving
  <2>2. CASE a \in lock
    <3>1. rows' = {} /\ ServedRows' = ServedRows
      BY <2>1, <2>2, FrameServes DEF Raise
    <3> QED BY <1>1, <3>1 DEF Service!Next, Service!Abandon
  <2>3. CASE a \notin lock
    BY <2>1, <2>3, FrameIsEdit DEF Raise
  <2> QED BY <2>2, <2>3
<1> QED BY <1>2, <1>3

(* Step simulation: every step of Engine from a reachable state is a step   *)
(* of ServedMappings or leaves its three variables alone.                   *)
LEMMA StepRefines ==
    ServiceInv /\ TypeOK' /\ [Next]_vars => [Service!Next]_(Service!vars)
<1> SUFFICES ASSUME ServiceInv, TypeOK', [Next]_vars PROVE Service!Next
    OBVIOUS
<1> USE DEF dbVars, localVars
<1>1. ASSUME UNCHANGED <<thread, rows>> PROVE Service!Next
  BY <1>1, FrameIsEdit DEF SocketFrame, Serving
<1>2. ASSUME NEW a \in Actors, RouteStep(a) PROVE Service!Next
  BY <1>1, <1>2
  DEF RouteStep, ResumeEngine, PauseEngine, UpdateSettings, CreateListener,
      UpdateListener, DeleteListener, UpdateDevice
<1>3. ASSUME NEW a \in Actors, RuntimeStep(a) PROVE Service!Next
  <2>1. CASE \/ ReconcileIfActive(a) \/ Acquire(a) \/ JoinListener(a)
             \/ SetMappingStatus(a) \/ RowsDone(a) \/ ResetStatuses(a)
             \/ HeartbeatLoad(a) \/ Heartbeat(a)
             \/ TransitionLoad(a) \/ Transition(a)
    BY <1>1, <2>1
    DEF ReconcileIfActive, Acquire, JoinListener, SetMappingStatus, RowsDone,
        ResetStatuses, HeartbeatLoad, Heartbeat, TransitionLoad, Transition
  <2> QED BY <1>3, <2>1, CloseRefines, CloseAllRefines, ReadRefines,
             BindRefines, BindFailsRefines DEF RuntimeStep
<1>4. ASSUME NEW a \in Actors, Raise(a) PROVE Service!Next
  BY <1>4, RaiseRefines
<1>5. ASSUME NEW t \in Threads, ThreadStep(t) PROVE Service!Next
  <2>1. rows' = rows
    BY <1>5 DEF ThreadStep, Receive, ThreadExits, Allow, Material, Wake,
                Record, HandleRaises
  <2> QED BY <1>5, <2>1, ThreadFrame, FrameIsEdit DEF ServiceInv
<1>6. ASSUME NEW t \in Threads, NEW mac \in Macs, CooldownEnds(t, mac)
      PROVE  Service!Next
  <2>1. rows' = rows
    BY <1>6 DEF CooldownEnds
  <2> QED BY <1>6, <2>1, CooldownFrame, FrameIsEdit DEF ServiceInv
<1>7. CASE \/ \E m \in Mappings : RetentionCleanup(m)
           \/ StartFromDesiredState \/ Shutdown \/ UNCHANGED vars
  BY <1>1, <1>7 DEF RetentionCleanup, StartFromDesiredState, Shutdown, vars
<1>8. CASE Crash
  BY <1>8, EndRefines DEF Crash
<1> QED BY <1>2, <1>3, <1>4, <1>5, <1>6, <1>7, <1>8 DEF Next

(* ServiceInv holds in every reachable state.                               *)
LEMMA ServiceCorrect == Spec => []ServiceInv
<1>1. Init => LifespanPhases /\ PlanOnlyInLoop
  BY DEF Init, LifespanPhases, PlanOnlyInLoop, Actors
<1>2. Spec => [](LifespanPhases /\ PlanOnlyInLoop)
  BY <1>1, TypeCorrect, EngineCorrect, PhaseStep, PlanStep, PTL DEF Spec
<1>3. ServiceInv <=> TypeOK /\ EngineInv /\ LifespanPhases /\ PlanOnlyInLoop
  BY DEF ServiceInv
<1> QED BY <1>2, <1>3, TypeCorrect, EngineCorrect, PTL

(* The engine implements ServedMappings: whatever routes, edits, failed      *)
(* binds, exceptions, restarts and listener threads interleave, the open     *)
(* UDP sockets are always those of one reading of the configuration.         *)
THEOREM EngineImplementsService == Spec => ImplementsService
<1>1. Init /\ TypeOK => Service!Init
  BY SelectedTyped DEF Init, Service!Init, ServedRows, Serving
<1> QED BY <1>1, ServiceCorrect, TypeCorrect, StepRefines, PTL
        DEF Spec, ImplementsService, Service!Spec

-----------------------------------------------------------------------------
(***************************************************************************)
(* What the routes promise once they have answered: the sockets match the  *)
(* configuration, the engine_state row tells the truth about them.  Two    *)
(* restrictions on the environment, both of which the code needs: clients  *)
(* call the engine's pause and resume while no other request is in a       *)
(* handler, and no database call of the runtime raises.                    *)
(***************************************************************************)
Orderly == {"resume", "pause"} \subseteq Exclusive /\ "runtime" \notin Faults

\* Whoever pauses or resumes is alone.
AloneInHandler ==
    \A a \in Requests :
        pc[a] # "idle" =>
            /\ op[a] # "none"
            /\ op[a] \in {"resume", "pause"} =>
                   \A b \in Requests \ {a} : pc[b] = "idle"

\* The answer of reconcile_if_active stays true until the reconciliation ends.
DesiredKept ==
    \A a \in Actors :
        (op[a] = "reconcile" /\ pc[a] \in Critical \cup {"lock"})
            => engine.desired = "active"

\* Nobody writes engine_state between the load and the flush of a session,
\* so the transition after a heartbeat finds what it would write.
StateRow ==
    \A a \in Actors :
        /\ pc[a] = "hbFlush" => loaded[a] = engine
        /\ pc[a] \in {"trLoad", "trFlush"} =>
               /\ a \in Requests /\ op[a] \in {"resume", "pause"}
               /\ engine = [desired |-> Desired(a), observed |-> observed[a]]
        /\ pc[a] = "trFlush" => loaded[a] = engine

\* A paused engine has no socket, except while resume() opens them.
PausedIsSilent ==
    /\ engine.desired = "paused" =>
           \/ Serving = {}
           \/ \E a \in Actors : pc[a] \in Critical /\ op[a] # "pause"
    /\ (phase = "up" /\ engine.desired = "paused")
           => engine.observed = "paused"

\* pause() reports what it has done.
PausingWrites ==
    \A a \in Actors :
        (op[a] = "pause" /\ pc[a] \in {"hbLoad", "hbFlush"})
            => observed[a] = "paused"

\* A status waits to be written only between a bind and its UPDATE.
OneMark ==
    /\ \A x, y \in marking : x = y
    /\ marking # {} => \E a \in Actors : pc[a] = "mark"

\* Someone has still to read the configuration, or is pausing.
Pending ==
    \E a \in Actors :
        \/ pc[a] \in {"desired", "lock", "close", "join", "rows"}
        \/ pc[a] # "idle" /\ op[a] = "pause"

Unserved(m) == \A t \in Serving : thread[t].id # m

\* The status of m is s, or is about to be.
Marked(m, s) ==
    \/ [id |-> m, status |-> s] \in marking
    \/ mapping[m].status = s /\ \A x \in marking : x.id # m

\* The loop of resume(): sockets and plan are of the present configuration,
\* and a row that has been tried is served, or an error.
LoopSound ==
    /\ rows \subseteq SelectedRows
    /\ ServedRows \subseteq SelectedRows
    /\ \A m \in Selected :
           Snapshot(m) \notin rows =>
               \/ ~Unserved(m) /\ Marked(m, "active")
               \/ Unserved(m) /\ Marked(m, "error") /\ failed
    /\ failed => \E m \in Selected : Snapshot(m) \notin rows /\ Unserved(m)

Outcome == IF failed THEN "degraded" ELSE "active"

ResumeSound ==
    \A a \in Actors :
        (pc[a] \in {"bind", "mark", "hbLoad", "hbFlush"} /\ ~Pending) =>
            /\ LoopSound
            /\ pc[a] \in {"hbLoad", "hbFlush"} => observed[a] = Outcome

\* Between reconciliations.
Settled ==
    /\ ServedRows =
           {Snapshot(m) : m \in {n \in Selected : mapping[n].status # "error"}}
    /\ engine.observed # "paused"
    /\ engine.observed = "degraded" <=> \E m \in Selected : Unserved(m)

SettledBetween ==
    (/\ phase = "up" /\ engine.desired = "active" /\ ~Pending
     /\ \A a \in Actors : pc[a] \notin Critical) => Settled

ReconcileInv ==
    /\ AloneInHandler /\ DesiredKept /\ StateRow /\ PausedIsSilent
    /\ PausingWrites /\ OneMark /\ ResumeSound /\ SettledBetween

\* The other actors stand still.
OthersSame(a) ==
    \A b \in Actors \ {a} :
        /\ pc'[b] = pc[b] /\ op'[b] = op[b]
        /\ loaded'[b] = loaded[b] /\ observed'[b] = observed[b]

LEMMA ActorKinds ==
    /\ Lifespan \in Actors /\ Requests \subseteq Actors
    /\ Lifespan \notin Requests
    /\ \A a \in Actors : a \in Requests \/ a = Lifespan
BY ActorsDistinct DEF Actors

\* Requests are idle while the lifespan code runs.
LEMMA OneSide ==
    ASSUME LifespanPhases, NEW a \in Requests, pc[a] # "idle"
    PROVE  phase = "up" /\ pc[Lifespan] = "idle"
BY DEF LifespanPhases

\* Someone who pauses or resumes, or the lifespan code, leaves nobody else in
\* a handler.
LEMMA NobodyElse ==
    ASSUME LifespanPhases, AloneInHandler,
           NEW a \in Actors, NEW b \in Actors, a # b,
           pc[a] # "idle", pc[b] # "idle"
    PROVE  /\ a \in Requests /\ b \in Requests
           /\ op[a] \notin {"resume", "pause", "none"}
           /\ op[b] \notin {"resume", "pause", "none"}
<1>1. a \in Requests /\ b \in Requests
  BY OneSide, ActorKinds
<1> QED BY <1>1 DEF AloneInHandler

\* What is selected depends on the mappings and the devices only.
LEMMA SelectionFrame ==
    ASSUME UNCHANGED <<mapping, enabledDevs>>
    PROVE  /\ Selected' = Selected /\ SelectedRows' = SelectedRows
           /\ \A m \in Mappings : Snapshot(m)' = Snapshot(m)
<1>1. Selected' = Selected
  BY DEF Selected, Existing
<1>2. SelectedRows' = SelectedRows
  BY SameSelection
<1> QED BY <1>1, <1>2 DEF Snapshot

LEMMA UnservedFrame ==
    ASSUME SocketFrame, NEW m
    PROVE  Unserved(m)' <=> Unserved(m)
BY DEF SocketFrame, Unserved

LEMMA LoopFrame ==
    ASSUME LoopSound, SocketFrame,
           UNCHANGED <<mapping, enabledDevs, rows, marking, failed>>
    PROVE  LoopSound'
<1>1. ServedRows' = ServedRows
  BY FrameServes
<1>2. \A m : Unserved(m)' <=> Unserved(m)
  BY UnservedFrame
<1>3. \A s : \A m \in Mappings : Marked(m, s)' <=> Marked(m, s)
  BY DEF Marked
<1>4. Selected \subseteq Mappings
  BY DEF Selected, Existing
<1> QED BY <1>1, <1>2, <1>3, <1>4, SelectionFrame DEF LoopSound

LEMMA SettledFrame ==
    ASSUME Settled, SocketFrame, UNCHANGED <<mapping, enabledDevs, engine>>
    PROVE  Settled'
<1>1. ServedRows' = ServedRows
  BY FrameServes
<1>2. \A m : Unserved(m)' <=> Unserved(m)
  BY UnservedFrame
<1>3. {Snapshot(m) : m \in {n \in Selected : mapping[n].status # "error"}}'
        = {Snapshot(m) : m \in {n \in Selected : mapping[n].status # "error"}}
  BY DEF Selected, Existing, Snapshot
<1> QED BY <1>1, <1>2, <1>3, SelectionFrame DEF Settled

-----------------------------------------------------------------------------
\* Steps of the listener threads and of the clock.
LEMMA ReconcileQuiet ==
    ASSUME ReconcileInv, SocketFrame,
           UNCHANGED <<mapping, enabledDevs, engine, phase, pc, op, loaded,
                       observed, rows, marking, failed>>
    PROVE  ReconcileInv'
<1>1. /\ AloneInHandler' /\ DesiredKept' /\ OneMark' /\ PausingWrites'
      /\ Pending' <=> Pending
  BY DEF ReconcileInv, AloneInHandler, DesiredKept, OneMark, Pending,
         PausingWrites
<1>2. StateRow'
  BY DEF ReconcileInv, StateRow, Desired
<1>3. PausedIsSilent'
  BY DEF ReconcileInv, PausedIsSilent, SocketFrame
<1>4. ResumeSound'
  BY <1>1, LoopFrame DEF ReconcileInv, ResumeSound, Outcome
<1>5. SettledBetween'
  BY <1>1, SettledFrame DEF ReconcileInv, SettledBetween
<1> QED BY <1>1, <1>2, <1>3, <1>4, <1>5 DEF ReconcileInv

\* The control parts of the invariant, for a step of actor a that leaves the
\* engine_state row alone.
LEMMA ControlKept ==
    ASSUME AloneInHandler, DesiredKept, StateRow, NEW a \in Actors,
           OthersSame(a), engine' = engine,
           pc'[a] = "idle" \/ (pc[a] # "idle" /\ op'[a] = op[a]),
           pc'[a] \in Critical \cup {"lock"} =>
               pc[a] \in Critical \cup {"lock"} \/ engine.desired = "active",
           pc'[a] \notin {"hbFlush", "trLoad", "trFlush"}
    PROVE  AloneInHandler' /\ DesiredKept' /\ StateRow'
<1>1. AloneInHandler'
  BY ActorKinds DEF AloneInHandler, OthersSame
<1>2. DesiredKept'
  BY DEF DesiredKept, OthersSame, Critical
<1>3. StateRow'
  <2> SUFFICES ASSUME NEW b \in Actors,
                      pc'[b] \in {"hbFlush", "trLoad", "trFlush"}
               PROVE  /\ pc'[b] = pc[b] /\ op'[b] = op[b]
                      /\ loaded'[b] = loaded[b] /\ observed'[b] = observed[b]
    BY DEF StateRow, Desired
  <2> QED BY DEF OthersSame
<1> QED BY <1>1, <1>2, <1>3

\* A handler is entered: it will read the configuration.
LEMMA Entering ==
    ASSUME ServiceInv, ReconcileInv, Orderly, NEW a \in Actors,
           OthersSame(a), engine' = engine, pc[a] = "idle",
           Serving' = Serving, marking' = marking,
           phase' \in {phase, "boot", "stopping"},
           \/ pc'[a] = "desired" /\ a \in Requests
           \/ pc'[a] = "lock" /\ op'[a] # "reconcile",
           \A b \in Requests \ {a} : pc[b] # "idle" =>
               a \in Requests /\ op[b] \notin {"resume", "pause"}
                 /\ op'[a] = "reconcile",
           op'[a] # "none"
    PROVE  ReconcileInv'
<1>1. Pending'
  BY DEF Pending
<1>2. AloneInHandler'
  BY ActorKinds DEF ReconcileInv, AloneInHandler, OthersSame
<1>3. DesiredKept'
  BY DEF ReconcileInv, DesiredKept, OthersSame, Critical
<1>4. StateRow'
  <2> SUFFICES ASSUME NEW b \in Actors,
                      pc'[b] \in {"hbFlush", "trLoad", "trFlush"}
               PROVE  /\ pc'[b] = pc[b] /\ op'[b] = op[b]
                      /\ loaded'[b] = loaded[b] /\ observed'[b] = observed[b]
    BY DEF ReconcileInv, StateRow, Desired
  <2> QED BY DEF OthersSame
<1>5. PausedIsSilent' /\ OneMark' /\ PausingWrites'
  BY DEF ReconcileInv, PausedIsSilent, OneMark, PausingWrites, OthersSame,
         Critical
<1> QED BY <1>1, <1>2, <1>3, <1>4, <1>5
        DEF ReconcileInv, ResumeSound, SettledBetween

\* The steps between two states with the same sockets and mappings: waiting
\* for the lock, closing, and loading the engine_state row.
LEMMA Walking ==
    ASSUME ServiceInv, ReconcileInv, NEW a \in Actors, OthersSame(a),
           op'[a] = op[a], observed'[a] = observed[a],
           UNCHANGED <<mapping, enabledDevs, engine, thread, phase, rows,
                       marking, failed>>,
           \/ pc[a] = "desired" /\ pc'[a] = "lock" /\ engine.desired = "active"
           \/ pc[a] = "lock" /\ pc'[a] = "close"
           \/ pc[a] = "join" /\ pc'[a] = "close"
           \/ pc[a] = "close" /\ pc'[a] = "rows"
           \/ pc[a] = "close" /\ pc'[a] = "statuses" /\ op[a] = "pause"
           \/ pc[a] = "hbLoad" /\ pc'[a] = "hbFlush" /\ loaded'[a] = engine
           \/ pc[a] = "trLoad" /\ pc'[a] = "trFlush" /\ loaded'[a] = engine
    PROVE  ReconcileInv'
<1>1. SocketFrame
  BY DEF SocketFrame, Serving
<1>2. AloneInHandler'
  BY ActorKinds DEF ReconcileInv, AloneInHandler, OthersSame
<1>3. DesiredKept'
  BY DEF ReconcileInv, DesiredKept, OthersSame, Critical
<1>4. StateRow'
  BY DEF ReconcileInv, StateRow, Desired, OthersSame
<1>5. PausedIsSilent'
  BY <1>1 DEF ReconcileInv, PausedIsSilent, OthersSame, Critical, SocketFrame
<1>6. OneMark' /\ PausingWrites'
  BY DEF ReconcileInv, OneMark, PausingWrites, OthersSame
<1>7. ~Pending' => /\ ~Pending
                   /\ pc[a] \in {"hbLoad", "trLoad"}
  BY DEF Pending, OthersSame
<1>8. ResumeSound'
  <2> SUFFICES ASSUME NEW b \in Actors, ~Pending',
                      pc'[b] \in {"bind", "mark", "hbLoad", "hbFlush"}
               PROVE  /\ LoopSound'
                      /\ pc'[b] \in {"hbLoad", "hbFlush"} =>
                             observed'[b] = Outcome'
    BY DEF ResumeSound
  <2>1. /\ pc[b] \in {"bind", "mark", "hbLoad", "hbFlush"}
        /\ pc'[b] \in {"hbLoad", "hbFlush"} => pc[b] \in {"hbLoad", "hbFlush"}
        /\ observed'[b] = observed[b]
    BY <1>7 DEF OthersSame
  <2>2. /\ LoopSound
        /\ pc[b] \in {"hbLoad", "hbFlush"} => observed[b] = Outcome
    BY <1>7, <2>1 DEF ReconcileInv, ResumeSound
  <2> QED BY <1>1, <2>1, <2>2, LoopFrame DEF Outcome
<1>9. SettledBetween'
  <2> SUFFICES ASSUME phase' = "up", engine'.desired = "active", ~Pending',
                      \A b \in Actors : pc'[b] \notin Critical
               PROVE  Settled'
    BY DEF SettledBetween
  <2>1. \A b \in Actors : pc[b] \notin Critical
    BY <1>7 DEF OthersSame, Critical
  <2> QED BY <1>1, <1>7, <2>1, SettledFrame DEF ReconcileInv, SettledBetween
<1> QED BY <1>2, <1>3, <1>4, <1>5, <1>6, <1>8, <1>9 DEF ReconcileInv

\* Closing a socket on the way to the next reading.
LEMMA ClosingKeeps ==
    ASSUME ServiceInv, ReconcileInv, NEW a \in Actors, NEW t \in Threads,
           CloseListener(a, t)
    PROVE  ReconcileInv'
<1> USE DEF Goto, dbVars
<1>1. /\ OthersSame(a) /\ pc[a] = "close" /\ pc'[a] = "join" /\ op' = op
      /\ engine' = engine /\ phase' = phase /\ marking' = marking
  BY DEF CloseListener, OthersSame, ServiceInv, TypeOK
<1>2. Serving' \subseteq Serving
  <2>1. thread[t] \in Listener
    BY ListenerOrNone DEF ServiceInv, CloseListener, Serving
  <2>2. thread' = [thread EXCEPT ![t] = [thread[t] EXCEPT !.open = FALSE]]
    BY DEF CloseListener
  <2>3. ~[thread[t] EXCEPT !.open = FALSE].open
    BY <2>1 DEF Listener
  <2> QED BY <2>2, <2>3 DEF Serving, ServiceInv, TypeOK
<1>3. AloneInHandler' /\ DesiredKept' /\ StateRow'
  BY <1>1, ControlKept DEF ReconcileInv, Critical
<1>4. PausedIsSilent' /\ OneMark' /\ PausingWrites'
  BY <1>1, <1>2 DEF ReconcileInv, PausedIsSilent, OneMark, PausingWrites,
                    OthersSame, Critical
<1>5. Pending'
  BY <1>1 DEF Pending
<1> QED BY <1>3, <1>4, <1>5 DEF ReconcileInv, ResumeSound, SettledBetween

\* pause() resets the statuses; nothing is open and the state becomes paused.
LEMMA ResettingKeeps ==
    ASSUME ServiceInv, ReconcileInv, NEW a \in Actors, ResetStatuses(a)
    PROVE  ReconcileInv'
<1> USE DEF Goto, localVars
<1>1. /\ OthersSame(a) /\ pc[a] = "statuses" /\ pc'[a] = "hbLoad"
      /\ op' = op /\ engine' = engine /\ phase' = phase
      /\ marking' = marking /\ Serving' = Serving
      /\ observed'[a] = "paused"
  BY DEF ResetStatuses, OthersSame, ServiceInv, TypeOK, Serving
<1>2. op[a] = "pause"
  BY <1>1 DEF ServiceInv, EngineInv, HandlerSections
<1>3. AloneInHandler' /\ DesiredKept' /\ StateRow'
  BY <1>1, ControlKept DEF ReconcileInv, Critical
<1>4. PausedIsSilent' /\ OneMark' /\ PausingWrites'
  BY <1>1, <1>2 DEF ReconcileInv, PausedIsSilent, OneMark, PausingWrites,
                    OthersSame, Critical
<1>5. Pending'
  BY <1>1, <1>2 DEF Pending
<1> QED BY <1>3, <1>4, <1>5 DEF ReconcileInv, ResumeSound, SettledBetween

-----------------------------------------------------------------------------
(***************************************************************************)
(* The loop of resume().                                                   *)
(***************************************************************************)
\* A step of the actor in the loop keeps everything but the loop's own part.
LEMMA LoopStep ==
    ASSUME ServiceInv, ReconcileInv, NEW a \in Actors, OthersSame(a),
           op'[a] = op[a], engine' = engine, phase' = phase,
           pc[a] \in {"rows", "bind", "mark"},
           pc'[a] \in {"bind", "mark", "hbLoad"},
           OneMark',
           ~Pending' => /\ LoopSound'
                        /\ pc'[a] = "hbLoad" => observed'[a] = Outcome'
    PROVE  ReconcileInv'
<1>1. AloneInHandler' /\ DesiredKept' /\ StateRow'
  BY ControlKept DEF ReconcileInv, Critical
<1>2. op[a] # "pause"
  BY DEF ServiceInv, EngineInv, HandlerSections
<1>3. PausedIsSilent' /\ PausingWrites'
  BY <1>2 DEF ReconcileInv, PausedIsSilent, PausingWrites, OthersSame, Critical
<1>4. \A b \in Actors \ {a} : pc'[b] \notin Critical
  BY Alone DEF ServiceInv, OthersSame, Critical
<1>5. ResumeSound'
  BY <1>4 DEF ResumeSound, Critical
<1>6. SettledBetween'
  BY DEF SettledBetween, Critical
<1> QED BY <1>1, <1>3, <1>5, <1>6 DEF ReconcileInv

\* Nobody begins or ends to be pending in the loop.
LEMMA LoopPending ==
    ASSUME NEW a \in Actors, OthersSame(a), op'[a] = op[a],
           pc[a] \in {"bind", "mark"}, pc'[a] # "idle", ~Pending'
    PROVE  ~Pending
BY DEF Pending, OthersSame

LEMMA ReadKeeps ==
    ASSUME ServiceInv, ReconcileInv, NEW a \in Actors, ReadRows(a)
    PROVE  ReconcileInv'
<1> USE DEF Goto, dbVars
<1>1. /\ OthersSame(a) /\ pc[a] = "rows" /\ pc'[a] = "bind"
      /\ op' = op /\ engine' = engine /\ phase' = phase
      /\ marking' = marking /\ thread' = thread
      /\ UNCHANGED <<mapping, enabledDevs>>
      /\ rows' = SelectedRows /\ failed' = FALSE
  BY DEF ReadRows, OthersSame, ServiceInv, TypeOK, SelectedRows
<1>2. Serving = {} /\ Serving' = {}
  BY <1>1 DEF ServiceInv, EngineInv, ClosedBeforeRead, Serving
<1>3. marking = {}
  <2>1. \A b \in Actors : pc[b] # "mark"
    BY <1>1, Alone DEF ServiceInv, Critical
  <2> QED BY <2>1 DEF ReconcileInv, OneMark
<1>4. LoopSound'
  <2>1. SelectedRows' = SelectedRows /\ Selected' = Selected
        /\ \A m \in Mappings : Snapshot(m)' = Snapshot(m)
    BY <1>1, SelectionFrame
  <2>2. \A m \in Selected : Snapshot(m) \in SelectedRows /\ m \in Mappings
    BY DEF SelectedRows, Selected, Existing
  <2>3. ServedRows' = {}
    BY <1>2 DEF ServedRows
  <2> QED BY <1>1, <2>1, <2>2, <2>3 DEF LoopSound
<1> QED BY <1>1, <1>3, <1>4, LoopStep DEF OneMark

\* A row of the plan is the snapshot of a selected mapping.
LEMMA PlannedRow ==
    ASSUME ServiceInv, LoopSound, NEW row \in rows
    PROVE  /\ row.id \in Selected /\ row.id \in Mappings
           /\ row = Snapshot(row.id)
           /\ Unserved(row.id)
           /\ \A m \in Selected : (Snapshot(m) = row) <=> (m = row.id)
<1>1. PICK n \in Selected : row = Snapshot(n)
  BY DEF LoopSound, SelectedRows
<1>2. row.id = n
  BY <1>1 DEF Snapshot
<1>3. Unserved(row.id)
  BY DEF ServiceInv, EngineInv, RowsUnserved, Unserved
<1>4. \A m \in Selected : Snapshot(m).id = m
  BY DEF Snapshot
<1> QED BY <1>1, <1>2, <1>3, <1>4 DEF Selected, Existing

LEMMA BindFailsKeeps ==
    ASSUME ServiceInv, ReconcileInv, NEW a \in Actors, NEW row \in rows,
           BindFails(a, row)
    PROVE  ReconcileInv'
<1> USE DEF Goto, dbVars
<1>1. /\ OthersSame(a) /\ pc[a] = "bind" /\ pc'[a] = "mark"
      /\ op' = op /\ engine' = engine /\ phase' = phase
      /\ thread' = thread /\ UNCHANGED <<mapping, enabledDevs>>
      /\ rows' = rows \ {row} /\ failed' = TRUE
      /\ marking' = {[id |-> row.id, status |-> "error"]}
  BY DEF BindFails, OthersSame, ServiceInv, TypeOK
<1>2. ASSUME ~Pending' PROVE LoopSound'
  <2>1. LoopSound
    BY <1>1, <1>2, LoopPending DEF ReconcileInv, ResumeSound
  <2>2. marking = {}
    <3>1. \A b \in Actors : pc[b] # "mark"
      BY <1>1, Alone DEF ServiceInv, Critical
    <3> QED BY <3>1 DEF ReconcileInv, OneMark
  <2>3. /\ Selected' = Selected /\ SelectedRows' = SelectedRows
        /\ \A m \in Selected : Snapshot(m)' = Snapshot(m)
    BY <1>1, SelectionFrame DEF Selected, Existing
  <2>4. ServedRows' = ServedRows /\ \A m : Unserved(m)' <=> Unserved(m)
    BY <1>1 DEF ServedRows, Serving, Held, Unserved
  <2>5. Marked(row.id, "error")' /\ row = Snapshot(row.id)
        /\ row.id \in Selected /\ Unserved(row.id)
    BY <1>1, <2>1, PlannedRow DEF Marked
  <2>6. \A s : \A m \in Selected : m # row.id => (Marked(m, s)' <=> Marked(m, s))
    BY <1>1, <2>2 DEF Marked
  <2>7. \A m \in Selected : Snapshot(m) \notin rows' <=>
                                (Snapshot(m) \notin rows \/ m = row.id)
    BY <1>1, <2>1, PlannedRow
  <2>8. rows' \subseteq SelectedRows' /\ ServedRows' \subseteq SelectedRows'
    BY <1>1, <2>1, <2>3, <2>4 DEF LoopSound
  <2>9. \A m \in Selected : Snapshot(m) \notin rows' =>
               \/ ~Unserved(m) /\ Marked(m, "active")'
               \/ Unserved(m) /\ Marked(m, "error")' /\ failed'
    BY <1>1, <2>1, <2>5, <2>6, <2>7 DEF LoopSound
  <2>10. \E m \in Selected : Snapshot(m) \notin rows' /\ Unserved(m)
    BY <2>5, <2>7
  <2> QED BY <2>3, <2>4, <2>8, <2>9, <2>10 DEF LoopSound
<1>3. OneMark'
  BY <1>1 DEF OneMark
<1> QED BY <1>1, <1>2, <1>3, LoopStep

LEMMA BindKeeps ==
    ASSUME ServiceInv, ReconcileInv, NEW a \in Actors, NEW row \in rows,
           NEW t \in Threads, BindRow(a, row, t)
    PROVE  ReconcileInv'
<1> USE DEF Goto, dbVars
<1>1. /\ OthersSame(a) /\ pc[a] = "bind" /\ pc'[a] = "mark"
      /\ op' = op /\ engine' = engine /\ phase' = phase
      /\ UNCHANGED <<mapping, enabledDevs, failed>>
      /\ rows' = rows \ {row}
      /\ marking' = {[id |-> row.id, status |-> "active"]}
  BY DEF BindRow, OthersSame, ServiceInv, TypeOK
<1>2. ASSUME ~Pending' PROVE LoopSound'
  <2>1. LoopSound
    BY <1>1, <1>2, LoopPending DEF ReconcileInv, ResumeSound
  <2>2. marking = {}
    <3>1. \A b \in Actors : pc[b] # "mark"
      BY <1>1, Alone DEF ServiceInv, Critical
    <3> QED BY <3>1 DEF ReconcileInv, OneMark
  <2>3. /\ Selected' = Selected /\ SelectedRows' = SelectedRows
        /\ \A m \in Selected : Snapshot(m)' = Snapshot(m)
    BY <1>1, SelectionFrame DEF Selected, Existing
  <2>4. /\ Serving' = Serving \cup {t}
        /\ thread'[t] = NewListener(row)
        /\ \A u \in Serving : thread'[u] = thread[u]
    BY OpensSocket DEF ServiceInv
  <2>5. ServedRows' = ServedRows \cup {row}
    BY BindServes
  <2>6. \A m : Unserved(m)' <=> (Unserved(m) /\ m # row.id)
    <3>1. thread'[t].id = row.id
      BY <2>4 DEF NewListener
    <3> QED BY <2>4, <3>1 DEF Unserved
  <2>7. Marked(row.id, "active")' /\ row = Snapshot(row.id)
        /\ row.id \in Selected
    BY <1>1, <2>1, PlannedRow DEF Marked
  <2>8. \A s : \A m \in Selected : m # row.id => (Marked(m, s)' <=> Marked(m, s))
    BY <1>1, <2>2 DEF Marked
  <2>9. \A m \in Selected : Snapshot(m) \notin rows' <=>
                                (Snapshot(m) \notin rows \/ m = row.id)
    BY <1>1, <2>1, PlannedRow
  <2>10. rows' \subseteq SelectedRows' /\ ServedRows' \subseteq SelectedRows'
    BY <1>1, <2>1, <2>3, <2>5 DEF LoopSound
  <2>11. \A m \in Selected : Snapshot(m) \notin rows' =>
               \/ ~Unserved(m)' /\ Marked(m, "active")'
               \/ Unserved(m)' /\ Marked(m, "error")' /\ failed'
    BY <1>1, <2>1, <2>6, <2>7, <2>8, <2>9 DEF LoopSound
  <2>12. failed => \E m \in Selected : Snapshot(m) \notin rows' /\ Unserved(m)'
    <3> SUFFICES ASSUME failed
                 PROVE \E m \in Selected : Snapshot(m) \notin rows' /\ Unserved(m)'
      OBVIOUS
    <3>1. PICK m \in Selected : Snapshot(m) \notin rows /\ Unserved(m)
      BY <2>1 DEF LoopSound
    <3>2. m # row.id
      BY <2>7, <3>1
    <3> QED BY <2>6, <2>9, <3>1, <3>2
  <2> QED BY <1>1, <2>3, <2>10, <2>11, <2>12 DEF LoopSound
<1>3. OneMark'
  BY <1>1 DEF OneMark
<1> QED BY <1>1, <1>2, <1>3, LoopStep

\* _set_mapping_status changes a status and nothing that resume() selects by.
LEMMA MarkKeeps ==
    ASSUME ServiceInv, ReconcileInv, NEW a \in Actors, SetMappingStatus(a)
    PROVE  ReconcileInv'
<1> USE DEF Goto
<1>1. /\ OthersSame(a) /\ pc[a] = "mark" /\ pc'[a] = "bind"
      /\ op' = op /\ engine' = engine /\ phase' = phase
      /\ thread' = thread /\ UNCHANGED <<enabledDevs, failed, rows>>
      /\ marking' = {}
  BY DEF SetMappingStatus, OthersSame, ServiceInv, TypeOK
<1>2. PICK x \in marking : mapping' =
          IF x.id \in Existing THEN [mapping EXCEPT ![x.id].status = x.status]
          ELSE mapping
  BY DEF SetMappingStatus
<1>3. marking = {x}
  BY DEF ReconcileInv, OneMark
<1>4. /\ \A m \in Existing :
             /\ mapping'[m] \in MappingRow
             /\ mapping'[m].device = mapping[m].device
             /\ mapping'[m].port = mapping[m].port
             /\ mapping'[m].enabled = mapping[m].enabled
             /\ mapping'[m].status =
                    IF m = x.id THEN x.status ELSE mapping[m].status
      /\ \A m \in Mappings \ Existing : mapping'[m] = NoRow
  <2>1. \A m \in Existing : mapping[m] \in MappingRow /\ m \in Mappings
    BY RowOrNone DEF Existing, ServiceInv
  <2>2. x.status \in Status /\ x.id \in Mappings
    BY DEF ServiceInv, TypeOK
  <2>3. mapping \in [Mappings -> MappingRow \cup {NoRow}]
    BY DEF ServiceInv, TypeOK
  <2>4. CASE x.id \notin Existing
    BY <1>2, <2>1, <2>4 DEF Existing
  <2>5. CASE x.id \in Existing
    <3>1. /\ mapping' = [mapping EXCEPT ![x.id] =
                            [mapping[x.id] EXCEPT !.status = x.status]]
      BY <1>2, <2>5
    <3>2. /\ [mapping[x.id] EXCEPT !.status = x.status] \in MappingRow
          /\ [mapping[x.id] EXCEPT !.status = x.status].status = x.status
          /\ [mapping[x.id] EXCEPT !.status = x.status].device
                 = mapping[x.id].device
          /\ [mapping[x.id] EXCEPT !.status = x.status].port
                 = mapping[x.id].port
          /\ [mapping[x.id] EXCEPT !.status = x.status].enabled
                 = mapping[x.id].enabled
      BY <2>1, <2>2, <2>5 DEF MappingRow
    <3>3. \A m \in Mappings \ {x.id} : mapping'[m] = mapping[m]
      BY <2>2, <2>3, <3>1
    <3>4. mapping'[x.id] = [mapping[x.id] EXCEPT !.status = x.status]
      BY <2>2, <2>3, <3>1
    <3> QED BY <2>1, <2>5, <3>2, <3>3, <3>4 DEF Existing
  <2> QED BY <2>4, <2>5
<1>5. Existing' = Existing
  BY <1>4, SentinelsDistinct DEF Existing
<1>6. Selected' = Selected
  BY <1>1, <1>4, <1>5 DEF Selected
<1>7. \A m \in Selected : Snapshot(m)' = Snapshot(m)
  BY <1>4 DEF Snapshot, Selected
<1>8. SelectedRows' = SelectedRows
  BY <1>6, <1>7 DEF SelectedRows
<1>9. ServedRows' = ServedRows /\ \A m : Unserved(m)' <=> Unserved(m)
  BY <1>1 DEF ServedRows, Serving, Held, Unserved
<1>10. \A m \in Selected, s \in {"active", "error"} :
            Marked(m, s) => Marked(m, s)'
  BY <1>1, <1>3, <1>4 DEF Marked, Selected
<1>11. ASSUME ~Pending' PROVE LoopSound'
  <2>1. LoopSound
    BY <1>1, <1>11, LoopPending DEF ReconcileInv, ResumeSound
  <2> QED BY <1>1, <1>6, <1>7, <1>8, <1>9, <1>10, <2>1 DEF LoopSound
<1>12. OneMark'
  BY <1>1 DEF OneMark
<1> QED BY <1>1, <1>11, <1>12, LoopStep

LEMMA RowsDoneKeeps ==
    ASSUME ServiceInv, ReconcileInv, NEW a \in Actors, RowsDone(a)
    PROVE  ReconcileInv'
<1> USE DEF Goto, dbVars, localVars
<1>1. /\ OthersSame(a) /\ pc[a] = "bind" /\ pc'[a] = "hbLoad"
      /\ op' = op /\ engine' = engine /\ phase' = phase
      /\ UNCHANGED <<mapping, enabledDevs, thread, failed, rows, marking>>
      /\ observed'[a] = Outcome
  BY DEF RowsDone, OthersSame, ServiceInv, TypeOK, Outcome
<1>2. SocketFrame
  BY <1>1 DEF SocketFrame, Serving
<1>3. ASSUME ~Pending' PROVE LoopSound' /\ observed'[a] = Outcome'
  <2>1. LoopSound
    BY <1>1, <1>3, LoopPending DEF ReconcileInv, ResumeSound
  <2> QED BY <1>1, <1>2, <2>1, LoopFrame DEF Outcome
<1>4. OneMark'
  <2>1. \A b \in Actors : pc[b] # "mark"
    BY <1>1, Alone DEF ServiceInv, Critical
  <2> QED BY <1>1, <2>1 DEF ReconcileInv, OneMark
<1> QED BY <1>1, <1>3, <1>4, LoopStep

-----------------------------------------------------------------------------
(***************************************************************************)
(* The end of a handler.                                                   *)
(***************************************************************************)
\* When the loop is done and nobody is pending, the sockets are settled.
LEMMA LoopSettles ==
    ASSUME LoopSound, rows = {}, marking = {}
    PROVE  /\ ServedRows = {Snapshot(m) :
                  m \in {n \in Selected : mapping[n].status # "error"}}
           /\ failed <=> \E m \in Selected : Unserved(m)
<1>1. \A m \in Selected : \/ ~Unserved(m) /\ mapping[m].status = "active"
                          \/ /\ Unserved(m) /\ mapping[m].status = "error"
                             /\ failed
  BY DEF LoopSound, Marked
<1>2. \A m \in Selected : Unserved(m) <=> mapping[m].status = "error"
  BY <1>1
<1>3. \A m \in Selected : ~Unserved(m) <=> Snapshot(m) \in ServedRows
  <2> SUFFICES ASSUME NEW m \in Selected
               PROVE  ~Unserved(m) <=> Snapshot(m) \in ServedRows
    OBVIOUS
  <2>1. ASSUME Snapshot(m) \in ServedRows PROVE ~Unserved(m)
    BY <2>1 DEF ServedRows, Held, Snapshot, Unserved
  <2>2. ASSUME ~Unserved(m) PROVE Snapshot(m) \in ServedRows
    <3>1. PICK t \in Serving : thread[t].id = m
      BY <2>2 DEF Unserved
    <3>2. Held(t) \in ServedRows /\ Held(t).id = m
      BY <3>1 DEF ServedRows, Held
    <3>3. PICK n \in Selected : Held(t) = Snapshot(n)
      BY <3>2 DEF LoopSound, SelectedRows
    <3>4. n = m
      BY <3>2, <3>3 DEF Snapshot
    <3> QED BY <3>2, <3>3, <3>4
  <2> QED BY <2>1, <2>2
<1>4. \A y \in ServedRows : \E m \in Selected : y = Snapshot(m)
  BY DEF LoopSound, SelectedRows
<1>5. ServedRows = {Snapshot(m) :
                  m \in {n \in Selected : mapping[n].status # "error"}}
  BY <1>2, <1>3, <1>4
<1>6. failed => \E m \in Selected : Unserved(m)
  BY DEF LoopSound
<1> QED BY <1>1, <1>5, <1>6

\* Nobody but the actor at its heartbeat can disturb the row it writes.
LEMMA HeartbeatWrites ==
    ASSUME ReconcileInv, NEW a \in Actors, Heartbeat(a)
    PROVE  engine' = [desired |-> Desired(a), observed |-> observed[a]]
<1>1. loaded[a] = engine
  BY DEF ReconcileInv, StateRow, Heartbeat
<1> QED BY <1>1 DEF Heartbeat, Flush

LEMMA HeartbeatKeeps ==
    ASSUME ServiceInv, ReconcileInv, NEW a \in Actors, Heartbeat(a)
    PROVE  ReconcileInv'
<1> USE DEF Goto, Finish
<1>1. /\ OthersSame(a) /\ pc[a] = "hbFlush"
      /\ UNCHANGED <<mapping, enabledDevs, thread, rows, marking>>
      /\ phase' = IF a = Lifespan THEN "up" ELSE phase
  BY DEF Heartbeat, OthersSame, ServiceInv, TypeOK
<1>2. engine' = [desired |-> Desired(a), observed |-> observed[a]]
  BY HeartbeatWrites
<1>3. \/ pc'[a] = "idle" /\ (a = Lifespan \/ op[a] = "reconcile")
      \/ /\ pc'[a] = "trLoad" /\ op'[a] = op[a]
         /\ observed'[a] = observed[a]
         /\ a \in Requests /\ op[a] # "reconcile"
  BY ActorKinds DEF Heartbeat, ServiceInv, TypeOK
<1>4. a \in Requests => op[a] \in {"resume", "pause", "reconcile"}
  BY <1>1 DEF ReconcileInv, AloneInHandler, ServiceInv, TypeOK, LifespanPhases
<1>5. \A b \in Actors \ {a} :
          pc[b] # "idle" => /\ op[a] = "reconcile"
                            /\ op[b] \notin {"resume", "pause", "none"}
  <2> SUFFICES ASSUME NEW b \in Actors \ {a}, pc[b] # "idle"
               PROVE  /\ op[a] = "reconcile"
                      /\ op[b] \notin {"resume", "pause", "none"}
    OBVIOUS
  <2>1. LifespanPhases /\ AloneInHandler
    BY DEF ServiceInv, ReconcileInv
  <2>2. /\ a \in Requests
        /\ op[a] \notin {"resume", "pause", "none"}
        /\ op[b] \notin {"resume", "pause", "none"}
    BY <1>1, <2>1, NobodyElse
  <2> QED BY <1>4, <2>2
<1>6. \A b \in Actors \ {a} : pc[b] \notin Critical
  BY <1>1, Alone DEF ServiceInv, Critical
<1>7. AloneInHandler'
  BY <1>1, <1>3, ActorKinds DEF ReconcileInv, AloneInHandler, OthersSame
<1>8. DesiredKept'
  BY <1>1, <1>2, <1>3, <1>5 DEF DesiredKept, OthersSame, Critical, Desired
<1>9. StateRow'
  <2> SUFFICES ASSUME NEW b \in Actors,
                      pc'[b] \in {"hbFlush", "trLoad", "trFlush"}
               PROVE  b = a
    BY <1>2, <1>3, <1>4 DEF StateRow, Desired
  <2> SUFFICES ASSUME b # a PROVE FALSE
    OBVIOUS
  <2>1. pc[b] = pc'[b]
    BY <1>1 DEF OthersSame
  <2>2. pc[b] \in {"trLoad", "trFlush"}
    BY <1>6, <2>1 DEF Critical
  <2>3. op[b] \in {"resume", "pause"}
    BY <2>2 DEF ReconcileInv, StateRow
  <2> QED BY <1>5, <2>2, <2>3
<1>10. marking = {} /\ rows = {}
  <2>1. \A b \in Actors : pc[b] \notin {"bind", "mark"}
    BY <1>1, <1>6 DEF Critical
  <2> QED BY <2>1 DEF ReconcileInv, OneMark, ServiceInv, PlanOnlyInLoop
<1>11. OneMark'
  BY <1>1, <1>10 DEF OneMark
<1>12. PausedIsSilent'
  <2>1. CASE op[a] = "pause"
    <3>1. Serving' = {}
      BY <1>1, <2>1
      DEF ServiceInv, EngineInv, PauseSectionSilent, Serving
    <3>2. observed[a] = "paused"
      BY <1>1, <2>1 DEF ReconcileInv, PausingWrites
    <3> QED BY <1>2, <3>1, <3>2 DEF PausedIsSilent
  <2>2. CASE op[a] # "pause"
    BY <1>2, <2>2 DEF PausedIsSilent, Desired
  <2> QED BY <2>1, <2>2
<1>13. ResumeSound'
  <2>1. \A b \in Actors : pc'[b] \notin {"bind", "mark", "hbLoad", "hbFlush"}
    BY <1>1, <1>3, <1>6 DEF OthersSame, Critical
  <2> QED BY <2>1 DEF ResumeSound
<1>14. SettledBetween'
  <2> SUFFICES ASSUME engine'.desired = "active", ~Pending'
               PROVE  Settled'
    BY DEF SettledBetween
  <2>1. op[a] # "pause"
    BY <1>2 DEF Desired
  <2>2. ~Pending
    BY <1>1, <2>1 DEF Pending, OthersSame
  <2>3. LoopSound /\ observed[a] = Outcome
    BY <1>1, <2>2 DEF ReconcileInv, ResumeSound
  <2>4. /\ ServedRows = {Snapshot(m) :
                  m \in {n \in Selected : mapping[n].status # "error"}}
        /\ failed <=> \E m \in Selected : Unserved(m)
    BY <1>10, <2>3, LoopSettles
  <2>5. SocketFrame
    BY <1>1 DEF SocketFrame, Serving
  <2>6. ServedRows' = ServedRows /\ \A m : Unserved(m)' <=> Unserved(m)
    BY <2>5, FrameServes, UnservedFrame
  <2>7. {Snapshot(m) : m \in {n \in Selected : mapping[n].status # "error"}}'
        = {Snapshot(m) : m \in {n \in Selected : mapping[n].status # "error"}}
    BY <1>1 DEF Selected, Existing, Snapshot
  <2>8. Selected' = Selected
    BY <1>1, SelectionFrame
  <2>9. /\ engine'.observed # "paused"
        /\ engine'.observed = "degraded" <=> failed
    BY <1>2, <2>3 DEF Outcome
  <2> QED BY <2>4, <2>6, <2>7, <2>8, <2>9 DEF Settled
<1>15. PausingWrites'
  BY <1>1, <1>3 DEF ReconcileInv, PausingWrites, OthersSame
<1> QED BY <1>7, <1>8, <1>9, <1>11, <1>12, <1>13, <1>14, <1>15
        DEF ReconcileInv

\* A handler ends and leaves configuration, sockets and state as they are: the
\* engine is paused, or nobody needed to reconcile it.
LEMMA LeavingKeeps ==
    ASSUME ServiceInv, ReconcileInv, NEW a \in Requests, OthersSame(a),
           pc'[a] = "idle",
           UNCHANGED <<mapping, enabledDevs, engine, thread, phase, rows,
                       marking, failed>>,
           \/ pc[a] = "desired" /\ engine.desired # "active"
           \/ pc[a] = "trFlush"
    PROVE  ReconcileInv'
<1>1. a \in Actors
  BY ActorKinds
<1>2. SocketFrame
  BY DEF SocketFrame, Serving
<1>3. AloneInHandler' /\ DesiredKept' /\ StateRow'
  BY <1>1, ControlKept DEF ReconcileInv, Critical
<1>4. PausedIsSilent' /\ OneMark' /\ PausingWrites'
  BY <1>1, <1>2 DEF ReconcileInv, PausedIsSilent, OneMark, PausingWrites,
                    OthersSame, Critical, SocketFrame
<1>5. ResumeSound'
  <2> SUFFICES ASSUME NEW b \in Actors, ~Pending',
                      pc'[b] \in {"bind", "mark", "hbLoad", "hbFlush"}
               PROVE  FALSE
    BY DEF ResumeSound
  <2>1. /\ b # a /\ pc[b] = pc'[b] /\ op[b] = op'[b]
        /\ pc[b] \in Critical /\ pc[b] # "idle" /\ pc[a] # "idle"
    BY DEF OthersSame, Critical
  <2>2. LifespanPhases /\ AloneInHandler
    BY DEF ServiceInv, ReconcileInv
  <2>3. /\ b \in Requests
        /\ op[a] \notin {"resume", "pause", "none"}
        /\ op[b] \notin {"resume", "pause", "none"}
    BY <1>1, <2>1, <2>2, NobodyElse
  <2>4. pc[a] # "trFlush"
    BY <1>1, <2>3 DEF ReconcileInv, StateRow
  <2>5. op[b] = "reconcile"
    BY <2>3 DEF ServiceInv, TypeOK, LifespanPhases
  <2>6. engine.desired = "active"
    BY <2>1, <2>5 DEF ReconcileInv, DesiredKept
  <2> QED BY <2>4, <2>6
<1>6. SettledBetween'
  <2> SUFFICES ASSUME phase' = "up", engine'.desired = "active", ~Pending',
                      \A b \in Actors : pc'[b] \notin Critical
               PROVE  Settled'
    BY DEF SettledBetween
  <2>1. pc[a] = "trFlush" /\ op[a] # "pause"
    BY <1>1 DEF ReconcileInv, StateRow, Desired
  <2>2. ~Pending
    BY <2>1 DEF Pending, OthersSame
  <2>3. \A b \in Actors : pc[b] \notin Critical
    BY <2>1 DEF OthersSame, Critical
  <2> QED BY <1>2, <2>2, <2>3, SettledFrame DEF ReconcileInv, SettledBetween
<1> QED BY <1>3, <1>4, <1>5, <1>6 DEF ReconcileInv

\* The transition after a heartbeat writes nothing new.
LEMMA TransitionKeeps ==
    ASSUME ServiceInv, ReconcileInv, NEW a \in Actors, Transition(a)
    PROVE  ReconcileInv'
<1> USE DEF Finish, localVars
<1>1. /\ pc[a] = "trFlush" /\ pc'[a] = "idle" /\ OthersSame(a)
      /\ UNCHANGED <<mapping, enabledDevs, thread, phase, rows, marking, failed>>
  BY DEF Transition, OthersSame, ServiceInv, TypeOK
<1>2. /\ a \in Requests /\ loaded[a] = engine
      /\ engine = [desired |-> Desired(a), observed |-> observed[a]]
  BY <1>1 DEF ReconcileInv, StateRow
<1>3. engine' = engine
  BY <1>2 DEF Transition, Flush
<1> QED BY <1>1, <1>2, <1>3, LeavingKeeps

\* After the process has ended only the database is left.
LEMMA EndKeeps ==
    ASSUME phase' = "down", \A a \in Actors : pc'[a] = "idle",
           thread' = [t \in Threads |-> NoThread], marking' = {}
    PROVE  ReconcileInv'
<1>1. Serving' = {}
  BY DEF Serving
<1>2. AloneInHandler' /\ DesiredKept' /\ StateRow' /\ PausingWrites'
  BY ActorKinds
  DEF AloneInHandler, DesiredKept, StateRow, PausingWrites, Critical
<1>3. PausedIsSilent' /\ OneMark' /\ ResumeSound' /\ SettledBetween'
  BY <1>1 DEF PausedIsSilent, OneMark, ResumeSound, SettledBetween
<1> QED BY <1>2, <1>3 DEF ReconcileInv

LEMMA CloseAllKeeps ==
    ASSUME ServiceInv, ReconcileInv, NEW a \in Actors, CloseAllDone(a)
    PROVE  ReconcileInv'
<1> USE DEF Goto, Finish, dbVars, localVars
<1>1. pc[a] = "close" /\ OthersSame(a) /\ marking' = marking
  BY DEF CloseAllDone, OthersSame, ServiceInv, TypeOK
<1>2. CASE op[a] = "shutdown"
  <2>1. a = Lifespan /\ phase # "up"
    BY <1>1, <1>2, ActorKinds DEF ServiceInv, LifespanPhases
  <2>2. \A b \in Actors \ {a} : pc[b] = "idle"
    BY <2>1, ActorKinds DEF ServiceInv, LifespanPhases
  <2>3. /\ phase' = "down" /\ \A b \in Actors : pc'[b] = "idle"
        /\ thread' = [t \in Threads |-> NoThread]
    BY <1>1, <1>2, <2>2 DEF CloseAllDone, OthersSame, ServiceInv, TypeOK
  <2>4. marking = {}
    BY <1>1, <2>2 DEF ReconcileInv, OneMark
  <2> QED BY <1>1, <2>3, <2>4, EndKeeps
<1>3. CASE op[a] # "shutdown"
  <2>1. /\ pc'[a] = IF op[a] = "pause" THEN "statuses" ELSE "rows"
        /\ op' = op /\ observed' = observed
        /\ UNCHANGED <<mapping, enabledDevs, engine, thread, phase, rows,
                       marking, failed>>
    BY <1>3 DEF CloseAllDone, ServiceInv, TypeOK
  <2> QED BY <1>1, <2>1, Walking
<1> QED BY <1>2, <1>3

-----------------------------------------------------------------------------
LEMMA RoutesKeep ==
    ASSUME ServiceInv, ReconcileInv, Orderly, NEW a \in Actors, RouteStep(a)
    PROVE  ReconcileInv'
<1> USE DEF Begin, dbVars, localVars
<1>1. ASSUME NEW o, Arrive(a, o)
      PROVE  /\ pc[a] = "idle" /\ a \in Requests
             /\ \A b \in Requests \ {a} : pc[b] # "idle" =>
                    /\ op[b] \notin {"resume", "pause"}
                    /\ o \notin {"resume", "pause"}
  BY <1>1 DEF Arrive, Orderly
<1>2. /\ OthersSame(a) /\ engine' = engine /\ Serving' = Serving
      /\ marking' = marking /\ phase' = phase
  BY DEF RouteStep, ResumeEngine, PauseEngine, UpdateSettings, CreateListener,
         UpdateListener, DeleteListener, UpdateDevice, OthersSame, ServiceInv,
         TypeOK, Serving
<1>3. PICK o : /\ Arrive(a, o)
               /\ \/ /\ o \in {"resume", "pause"}
                     /\ pc'[a] = "lock" /\ op'[a] = o
                  \/ pc'[a] = "desired" /\ op'[a] = "reconcile"
  BY DEF RouteStep, ResumeEngine, PauseEngine, UpdateSettings, CreateListener,
         UpdateListener, DeleteListener, UpdateDevice, ServiceInv, TypeOK
<1> QED BY <1>1, <1>2, <1>3, Entering

LEMMA RuntimeKeeps ==
    ASSUME ServiceInv, ReconcileInv, NEW a \in Actors, RuntimeStep(a)
    PROVE  ReconcileInv'
<1> USE DEF Goto, Finish, dbVars, localVars
<1>1. CASE ReconcileIfActive(a)
  <2>1. /\ pc[a] = "desired" /\ a \in Requests /\ OthersSame(a)
        /\ UNCHANGED <<mapping, enabledDevs, engine, thread, phase, rows,
                       marking, failed>>
    BY <1>1 DEF ReconcileIfActive, OthersSame, ServiceInv, TypeOK
  <2>2. CASE engine.desired = "active"
    <3>1. pc'[a] = "lock" /\ op' = op /\ observed' = observed
      BY <1>1, <2>2 DEF ReconcileIfActive, ServiceInv, TypeOK
    <3> QED BY <2>1, <2>2, <3>1, Walking
  <2>3. CASE engine.desired # "active"
    <3>1. pc'[a] = "idle"
      BY <1>1, <2>3 DEF ReconcileIfActive, ServiceInv, TypeOK
    <3> QED BY <2>1, <2>3, <3>1, LeavingKeeps
  <2> QED BY <2>2, <2>3
<1>2. CASE \/ Acquire(a) \/ JoinListener(a) \/ HeartbeatLoad(a)
           \/ TransitionLoad(a)
  <2>1. /\ OthersSame(a) /\ op' = op /\ observed' = observed
        /\ UNCHANGED <<mapping, enabledDevs, engine, thread, phase, rows,
                       marking, failed>>
        /\ \/ pc[a] = "lock" /\ pc'[a] = "close"
           \/ pc[a] = "join" /\ pc'[a] = "close"
           \/ pc[a] = "hbLoad" /\ pc'[a] = "hbFlush" /\ loaded'[a] = engine
           \/ pc[a] = "trLoad" /\ pc'[a] = "trFlush" /\ loaded'[a] = engine
    BY <1>2 DEF Acquire, JoinListener, HeartbeatLoad, TransitionLoad, Load,
                OthersSame, ServiceInv, TypeOK
  <2> QED BY <2>1, Walking
<1> QED BY <1>1, <1>2, ClosingKeeps, CloseAllKeeps, ReadKeeps, BindFailsKeeps,
           BindKeeps, MarkKeeps, RowsDoneKeeps, ResettingKeeps, HeartbeatKeeps,
           TransitionKeeps
        DEF RuntimeStep

(* ReconcileInv is inductive relative to the earlier invariants.             *)
LEMMA ReconcileStep ==
    Orderly /\ ServiceInv /\ ReconcileInv /\ [Next]_vars => ReconcileInv'
<1> SUFFICES ASSUME Orderly, ServiceInv, ReconcileInv, [Next]_vars
             PROVE  ReconcileInv'
    OBVIOUS
<1> USE DEF dbVars, localVars
<1>1. ASSUME NEW a \in Actors, RouteStep(a) \/ RuntimeStep(a)
      PROVE  ReconcileInv'
  BY <1>1, RoutesKeep, RuntimeKeeps
<1>2. ASSUME NEW a \in Actors, Raise(a) PROVE FALSE
  BY <1>2 DEF Raise, Orderly
<1>3. ASSUME NEW t \in Threads, ThreadStep(t) PROVE ReconcileInv'
  <2>1. UNCHANGED <<mapping, enabledDevs, engine, phase, pc, op, loaded,
                    observed, rows, marking, failed>>
    BY <1>3 DEF ThreadStep, Receive, ThreadExits, Allow, Material, Wake,
                Record, HandleRaises
  <2>2. SocketFrame
    BY <1>3, ThreadFrame DEF ServiceInv
  <2> QED BY <2>1, <2>2, ReconcileQuiet
<1>4. ASSUME NEW t \in Threads, NEW mac \in Macs, CooldownEnds(t, mac)
      PROVE  ReconcileInv'
  <2>1. UNCHANGED <<mapping, enabledDevs, engine, phase, pc, op, loaded,
                    observed, rows, marking, failed>>
    BY <1>4 DEF CooldownEnds
  <2>2. SocketFrame
    BY <1>4, CooldownFrame DEF ServiceInv
  <2> QED BY <2>1, <2>2, ReconcileQuiet
<1>5. CASE (\E m \in Mappings : RetentionCleanup(m)) \/ UNCHANGED vars
  <2>1. UNCHANGED <<mapping, enabledDevs, engine, phase, pc, op, loaded,
                    observed, rows, marking, failed, thread>>
    BY <1>5 DEF RetentionCleanup, vars
  <2>2. SocketFrame
    BY <2>1 DEF SocketFrame, Serving
  <2> QED BY <2>1, <2>2, ReconcileQuiet
<1>6. CASE StartFromDesiredState \/ Shutdown
  <2>1. /\ pc[Lifespan] = "idle" /\ \A b \in Requests : pc[b] = "idle"
    BY <1>6, ActorKinds
    DEF StartFromDesiredState, Shutdown, ServiceInv, LifespanPhases
  <2>2. /\ OthersSame(Lifespan) /\ engine' = engine /\ Serving' = Serving
        /\ marking' = marking /\ phase' \in {"boot", "stopping"}
        /\ pc'[Lifespan] = "lock"
        /\ op'[Lifespan] \in {"resume", "pause", "shutdown"}
    BY <1>6, ActorKinds
    DEF StartFromDesiredState, Shutdown, Begin, OthersSame, ServiceInv, TypeOK,
        Serving
  <2> QED BY <2>1, <2>2, Entering, ActorKinds
<1>7. CASE Crash
  BY <1>7, EndKeeps DEF Crash
<1> QED BY <1>1, <1>2, <1>3, <1>4, <1>5, <1>6, <1>7 DEF Next

(* ReconcileInv holds in every reachable state of an orderly engine.         *)
THEOREM Reconciled ==
    ASSUME Orderly
    PROVE  Spec => []ReconcileInv
<1>1. Init => ReconcileInv
  <2> SUFFICES ASSUME Init PROVE ReconcileInv
    OBVIOUS
  <2>1. phase = "down" /\ Serving = {} /\ marking = {}
    BY DEF Init, Serving
  <2>2. \A a \in Actors : pc[a] = "idle"
    BY DEF Init
  <2> QED BY <2>1, <2>2, ActorKinds
    DEF ReconcileInv, AloneInHandler, DesiredKept, StateRow, PausingWrites,
        PausedIsSilent, OneMark, ResumeSound, SettledBetween, Critical
<1>2. ServiceInv /\ ReconcileInv /\ [Next]_vars => ReconcileInv'
  BY ReconcileStep
<1> QED BY <1>1, <1>2, ServiceCorrect, PTL DEF Spec

(* Once pause has answered, and as long as nobody resumes the engine, no     *)
(* UDP socket is open, whatever was edited, whichever binds failed and       *)
(* however often the process crashed and restarted.                          *)
THEOREM PauseMeansSilence ==
    ASSUME Orderly
    PROVE  Spec => []PauseClosesSockets
<1>1. ReconcileInv => PauseClosesSockets
  BY DEF ReconcileInv, PausedIsSilent, PauseClosesSockets, Quiescent, Critical
<1> QED BY <1>1, Reconciled, PTL

(* A quiescent engine serves exactly the enabled mappings of enabled devices *)
(* with their current device and port, less those marked error: no edit is   *)
(* lost, although reconciliations read outside the lock and overtake each    *)
(* other.                                                                    *)
THEOREM EditsConverge ==
    ASSUME Orderly
    PROVE  Spec => []Converged
<1>1. ReconcileInv => Converged
  <2> SUFFICES ASSUME ReconcileInv, Quiescent, engine.desired = "active"
               PROVE  Settled
    BY DEF Converged, Settled, ServedRows
  <2>1. ~Pending /\ \A a \in Actors : pc[a] \notin Critical
    BY DEF Quiescent, Pending, Critical
  <2> QED BY <2>1 DEF ReconcileInv, SettledBetween, Quiescent
<1> QED BY <1>1, Reconciled, PTL

(* The engine_state row of a quiescent engine is the truth about its         *)
(* sockets: paused, degraded or active.                                      *)
THEOREM StateIsTruthful ==
    ASSUME Orderly
    PROVE  Spec => []ObservedTruthful
<1>1. TypeOK /\ ReconcileInv => ObservedTruthful
  <2> SUFFICES ASSUME TypeOK, ReconcileInv, Quiescent PROVE ObservedTruthful
    BY DEF ObservedTruthful
  <2>1. ~Pending /\ \A a \in Actors : pc[a] \notin Critical
    BY DEF Quiescent, Pending, Critical
  <2>2. CASE engine.desired = "active"
    <3>1. Settled
      BY <2>1, <2>2 DEF ReconcileInv, SettledBetween, Quiescent
    <3> QED BY <2>2, <3>1 DEF Settled, ObservedTruthful, Unserved
  <2>3. CASE engine.desired = "paused"
    <3>1. engine.observed = "paused"
      BY <2>3 DEF ReconcileInv, PausedIsSilent, Quiescent
    <3> QED BY <2>3, <3>1 DEF ObservedTruthful
  <2>4. engine.desired \in {"active", "paused"}
    BY DEF TypeOK, EngineState
  <2> QED BY <2>2, <2>3, <2>4
<1> QED BY <1>1, TypeCorrect, Reconciled, PTL
=============================================================================
