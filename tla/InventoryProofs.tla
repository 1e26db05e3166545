-------------------------- MODULE InventoryProofs --------------------------
(***************************************************************************)
(* Proofs about Inventory for any number of concurrent requests, mappings, *)
(* devices and ports.                                                      *)
(***************************************************************************)
EXTENDS Inventory, TLAPS

\* The values a request starts from are well typed.
LEMMA NoArgsType == NoArgs \in Args /\ Published \in Range
<1>1. Published \in Range
  BY PublishedAssumption DEF Published, Range, Ports
<1>2. (CHOOSE m \in Mappings : TRUE) \in Mappings
  BY TablesNonempty
<1>3. (CHOOSE d \in Devices : TRUE) \in Devices
  BY TablesNonempty
<1> QED BY <1>1, <1>2, <1>3 DEF NoArgs, Args, RequestedPort

\* The end of a transaction touches the locks of its own request only.
LEMMA EndType ==
    ASSUME TypeOK, NEW r \in Requests, End(r)
    PROVE  /\ pc' \in [Requests -> MappingSteps \cup
                           {"idle", "deleteDeviceCommit", "rangeCommit"}]
           /\ arg' \in [Requests -> Args]
           /\ \A q \in Requests : pc'[q] \in {"createCommit"} \cup UpdateSteps
                                     => arg'[q].port \in Ports
           /\ settingsLock' \subseteq Requests
           /\ rowLock' \in [Mappings -> SUBSET Requests]
BY NoArgsType DEF TypeOK, End, UpdateSteps

\* A refused request changes no table.
LEMMA RefuseType ==
    ASSUME TypeOK, NEW r \in Requests, Refuse(r)
    PROVE  TypeOK'
BY EndType DEF TypeOK, Refuse

(* Type correctness is inductive.                                          *)
LEMMA TypeStep == TypeOK /\ [Next]_vars => TypeOK'
<1> SUFFICES ASSUME TypeOK, [Next]_vars PROVE TypeOK'
    OBVIOUS
<1> USE DEF MappingSteps, CreateSteps, UpdateSteps
<1>1. ASSUME NEW r \in Requests, ListenerStep(r) PROVE TypeOK'
  <2>1. ASSUME NEW m \in Mappings, NEW d \in Devices,
               NEW p \in RequestedPort, NEW e \in BOOLEAN,
               CreateLock(r, m, d, p, e)
        PROVE  TypeOK'
    <3> DEFINE a == [NoArgs EXCEPT !.m = m, !.d = d, !.port = p, !.enabled = e]
    <3>1. a \in Args
      BY NoArgsType DEF Args
    <3> HIDE DEF a
    <3>2. Continue(r, "createCheck", a)
      BY <2>1 DEF CreateLock, a
    <3> QED BY <2>1, <3>1, <3>2 DEF TypeOK, CreateLock, Continue
  <2>2. ASSUME NEW m \in Mappings, NEW v \in 1 .. MaxVersion, NEW d \in Devices,
               NEW p \in Ports, NEW e \in BOOLEAN, UpdateLock(r, m, v, d, p, e)
        PROVE  TypeOK'
    <3> DEFINE a == [NoArgs EXCEPT !.m = m, !.d = d, !.port = p, !.enabled = e,
                                   !.version = v]
    <3>1. v \in Nat
      BY BoundsAssumption
    <3>2. a \in Args /\ a.port \in Ports
      BY <3>1, NoArgsType DEF Args, RequestedPort
    <3> HIDE DEF a
    <3>3. Continue(r, "updateCheck", a)
      BY <2>2 DEF UpdateLock, a
    <3> QED BY <2>2, <3>2, <3>3 DEF TypeOK, UpdateLock, Continue
  <2>3. ASSUME NEW m \in Mappings, DeleteCheck(r, m) PROVE TypeOK'
    <3> DEFINE a == [NoArgs EXCEPT !.m = m]
    <3>1. a \in Args
      BY NoArgsType DEF Args
    <3> HIDE DEF a
    <3>2. Continue(r, "deleteCommit", a)
      BY <2>3 DEF DeleteCheck, a
    <3> QED BY <2>3, <3>1, <3>2 DEF TypeOK, DeleteCheck, Continue
  <2>4. CASE CreateCheck(r)
    <3>1. ASSUME NEW p \in Ports,
                 Continue(r, "createCommit", [arg[r] EXCEPT !.port = p]),
                 UNCHANGED <<udpRange, device, mapping, events, settingsLock,
                             rowLock, updates>>
          PROVE  TypeOK'
      <4> DEFINE a == [arg[r] EXCEPT !.port = p]
      <4>1. a \in Args /\ a.port \in Ports
        BY DEF TypeOK, Args, RequestedPort
      <4> HIDE DEF a
      <4>2. Continue(r, "createCommit", a)
        BY <3>1 DEF a
      <4> QED BY <3>1, <4>1, <4>2 DEF TypeOK, Continue
    <3> QED BY <2>4, <3>1, RefuseType DEF CreateCheck
  <2>5. CASE UpdateCheck(r)
    BY <2>5, RefuseType DEF TypeOK, UpdateCheck, Continue
  <2>6. arg[r] \in Args
    BY DEF TypeOK
  <2>7. ASSUME pc[r] \in {"createCommit", "updateCommit"}, End(r),
               NEW v \in Nat,
               mapping' = [mapping EXCEPT ![arg[r].m] =
                   [device |-> arg[r].d, port |-> arg[r].port,
                    enabled |-> arg[r].enabled, version |-> v]],
               updates' \in [Mappings -> Nat],
               UNCHANGED <<udpRange, device, events>>
        PROVE  TypeOK'
    <3>1. arg[r].port \in Ports
      BY <2>7 DEF TypeOK
    <3>2. [device |-> arg[r].d, port |-> arg[r].port,
           enabled |-> arg[r].enabled, version |-> v] \in MappingRow
      BY <2>6, <3>1 DEF Args, MappingRow
    <3>3. mapping' \in [Mappings -> MappingRow \cup {NoRow}]
      BY <2>7, <3>2 DEF TypeOK
    <3> QED BY <2>7, <3>3, EndType DEF TypeOK
  <2>8. CASE CreateCommit(r)
    <3>1. arg[r].m \in Mappings
      BY <2>6 DEF Args
    <3> QED BY <2>7, <2>8, <3>1, RefuseType DEF TypeOK, CreateCommit
  <2>9. CASE UpdateCommit(r)
    <3>1. arg[r].m \in Mappings /\ arg[r].version + 1 \in Nat
      BY <2>6 DEF Args
    <3> QED BY <2>7, <2>9, <3>1, RefuseType DEF TypeOK, UpdateCommit
  <2>10. CASE DeleteCommit(r)
    <3>1. CASE Refuse(r)
      BY <3>1, RefuseType
    <3>2. CASE ~Refuse(r)
      BY <2>10, <3>2, EndType DEF TypeOK, DeleteCommit
    <3> QED BY <3>1, <3>2
  <2> QED BY <1>1, <2>1, <2>2, <2>3, <2>4, <2>5, <2>8, <2>9, <2>10
          DEF ListenerStep
<1>2. ASSUME NEW r \in Requests, DeviceStep(r) PROVE TypeOK'
  <2>1. ASSUME NEW d \in Devices, DeleteDeviceCheck(r, d) PROVE TypeOK'
    <3> DEFINE a == [NoArgs EXCEPT !.d = d]
    <3>1. a \in Args
      BY NoArgsType DEF Args
    <3> HIDE DEF a
    <3>2. Continue(r, "deleteDeviceCommit", a)
      BY <2>1 DEF DeleteDeviceCheck, a
    <3> QED BY <2>1, <3>1, <3>2 DEF TypeOK, DeleteDeviceCheck, Continue
  <2>2. CASE DeleteDeviceCommit(r)
    <3>1. CASE Refuse(r)
      BY <3>1, RefuseType
    <3>2. CASE ~Refuse(r)
      BY <2>2, <3>2, EndType DEF TypeOK, DeleteDeviceCommit
    <3> QED BY <3>1, <3>2
  <2> QED BY <1>2, <2>1, <2>2 DEF DeviceStep
<1>3. ASSUME NEW r \in Requests, RangeStep(r) PROVE TypeOK'
  <2>1. ASSUME NEW range \in Range, RangeLock(r, range) PROVE TypeOK'
    <3> DEFINE a == [NoArgs EXCEPT !.range = range]
    <3>1. a \in Args
      BY NoArgsType DEF Args
    <3> HIDE DEF a
    <3>2. Continue(r, "rangeCommit", a)
      BY <2>1 DEF RangeLock, a
    <3> QED BY <2>1, <3>1, <3>2 DEF TypeOK, RangeLock, Continue
  <2>2. CASE RangeCommit(r)
    <3>1. arg[r].range \in Range
      BY DEF TypeOK, Args, RequestedPort
    <3> QED BY <2>2, <3>1, EndType DEF TypeOK, RangeCommit
  <2> QED BY <1>3, <2>1, <2>2 DEF RangeStep
<1>4. ASSUME NEW d \in Devices, NEW s \in {"enabled", "disabled"},
             CreateDevice(d, s) \/ UpdateDevice(d, s)
      PROVE  TypeOK'
  BY <1>4 DEF TypeOK, CreateDevice, UpdateDevice
<1>5. ASSUME NEW m \in Mappings, NEW d \in Devices,
             RecordEvent(m, d) \/ RetentionCleanup(m, d)
      PROVE  TypeOK'
  BY <1>5 DEF TypeOK, RecordEvent, RetentionCleanup
<1>6. CASE UNCHANGED vars
  BY <1>6 DEF TypeOK, vars
<1> QED BY <1>1, <1>2, <1>3, <1>4, <1>5, <1>6 DEF Next

(* Every variable keeps its type in every behaviour.                       *)
THEOREM TypeCorrect == Spec => []TypeOK
<1>1. Init => TypeOK
  BY NoArgsType DEF Init, TypeOK, UpdateSteps
<1> QED BY <1>1, TypeStep, PTL DEF Spec

-----------------------------------------------------------------------------
(***************************************************************************)
(* Row locks and optimistic versions.                                      *)
(***************************************************************************)
\* A transaction that ends frees its own locks and leaves the others alone.
LEMMA EndFrame ==
    ASSUME TypeOK, VersionInv, NEW r \in Requests, End(r)
    PROVE  /\ pc'[r] = "idle"
           /\ \A q \in Requests \ {r} :
                  /\ pc'[q] = pc[q] /\ arg'[q] = arg[q]
                  /\ pc[q] \in CreateSteps \cup {"rangeCommit"}
                         => settingsLock' = {q}
                  /\ pc[q] \in UpdateSteps => rowLock'[arg[q].m] = {q}
<1>1. \A q \in Requests : arg[q].m \in Mappings
  BY DEF TypeOK, Args
<1> QED BY <1>1 DEF TypeOK, VersionInv, LocksHeld, End

\* A step that changes no mapping and no lock, and moves one request on.
LEMMA RefuseVersions ==
    ASSUME TypeOK, VersionInv, NEW r \in Requests, End(r),
           UNCHANGED <<mapping, updates>>
    PROVE  VersionInv'
<1>1. Existing' = Existing
  BY DEF Existing
<1> QED BY <1>1, EndFrame DEF VersionInv, LocksHeld, CreatedFresh,
                  NoLostUpdate, CreateSteps, UpdateSteps, MappingSteps

\* LocksHeld from one step to the next, when r is the request that moves.
LEMMA LocksKept ==
    ASSUME VersionInv, NEW r \in Requests,
           pc'[r] \in CreateSteps \cup {"rangeCommit"} => settingsLock' = {r},
           pc'[r] \in UpdateSteps =>
               /\ rowLock'[arg'[r].m] = {r}
               /\ arg'[r].m \in Existing'
               /\ mapping'[arg'[r].m].version = arg'[r].version,
           \A q \in Requests \ {r} :
               /\ pc'[q] = pc[q] /\ arg'[q] = arg[q]
               /\ pc[q] \in CreateSteps \cup {"rangeCommit"}
                      => settingsLock' = {q}
               /\ pc[q] \in UpdateSteps =>
                      /\ rowLock'[arg[q].m] = {q}
                      /\ arg[q].m \in Existing'
                      /\ mapping'[arg[q].m] = mapping[arg[q].m]
    PROVE  LocksHeld'
BY DEF VersionInv, LocksHeld

(* VersionInv is inductive relative to the types.                          *)
LEMMA VersionStep == TypeOK /\ VersionInv /\ [Next]_vars => VersionInv'
<1> SUFFICES ASSUME TypeOK, VersionInv, [Next]_vars PROVE VersionInv'
    OBVIOUS
<1> USE DEF MappingSteps, CreateSteps, UpdateSteps
<1>0. /\ \A q \in Requests : arg[q] \in Args /\ arg[q].m \in Mappings
      /\ pc \in [Requests -> MappingSteps \cup
                     {"idle", "deleteDeviceCommit", "rangeCommit"}]
      /\ arg \in [Requests -> Args]
  BY DEF TypeOK, Args
<1>1. ASSUME NEW r \in Requests, ListenerStep(r) PROVE VersionInv'
  <2>1. ASSUME NEW m \in Mappings, NEW d \in Devices, NEW p \in RequestedPort,
               NEW e \in BOOLEAN, CreateLock(r, m, d, p, e)
        PROVE  VersionInv'
    <3>1. /\ pc' = [pc EXCEPT ![r] = "createCheck"]
          /\ \A q \in Requests \ {r} : arg'[q] = arg[q]
          /\ arg'[r].m = m
          /\ settingsLock = {} /\ settingsLock' = {r}
          /\ m \notin Existing /\ Existing' = Existing
          /\ \A q \in Requests : pc[q] \in MappingSteps => arg[q].m # m
          /\ UNCHANGED <<mapping, rowLock, updates>>
      BY <1>0, <2>1, NoArgsType DEF CreateLock, Continue, Existing, Args
    <3> QED BY <1>0, <3>1 DEF VersionInv, LocksHeld, CreatedFresh, NoLostUpdate
  <2>2. ASSUME NEW m \in Mappings, NEW v \in 1 .. MaxVersion, NEW d \in Devices,
               NEW p \in Ports, NEW e \in BOOLEAN, UpdateLock(r, m, v, d, p, e)
        PROVE  VersionInv'
    <3>1. /\ pc' = [pc EXCEPT ![r] = "updateCheck"]
          /\ \A q \in Requests \ {r} : arg'[q] = arg[q]
          /\ arg'[r].m = m /\ arg'[r].version = v
          /\ rowLock[m] = {} /\ rowLock' = [rowLock EXCEPT ![m] = {r}]
          /\ m \in Existing /\ Existing' = Existing
          /\ mapping[m].version = v
          /\ UNCHANGED <<mapping, settingsLock, updates>>
      BY <1>0, <2>2, NoArgsType DEF UpdateLock, Continue, Existing, Args
    <3>2. rowLock \in [Mappings -> SUBSET Requests]
      BY DEF TypeOK
    <3>3. \A q \in Requests \ {r} : pc[q] \in UpdateSteps => arg[q].m # m
      BY <3>1 DEF VersionInv, LocksHeld
    <3>4. LocksHeld'
      BY <1>0, <3>1, <3>2, <3>3 DEF VersionInv, LocksHeld
    <3>5. CreatedFresh'
      BY <1>0, <3>1 DEF VersionInv, CreatedFresh
    <3> QED BY <3>1, <3>4, <3>5 DEF VersionInv, NoLostUpdate
  <2>3. ASSUME NEW m \in Mappings, DeleteCheck(r, m) PROVE VersionInv'
    <3>1. /\ pc' = [pc EXCEPT ![r] = "deleteCommit"]
          /\ \A q \in Requests \ {r} : arg'[q] = arg[q]
          /\ arg'[r].m = m
          /\ m \in Existing /\ Existing' = Existing
          /\ UNCHANGED <<mapping, settingsLock, rowLock, updates>>
      BY <1>0, <2>3, NoArgsType DEF DeleteCheck, Continue, Existing, Args
    <3>2. LocksHeld'
      BY <1>0, <3>1, LocksKept DEF VersionInv, LocksHeld
    <3>3. CreatedFresh'
      BY <1>0, <3>1 DEF VersionInv, CreatedFresh
    <3> QED BY <3>1, <3>2, <3>3 DEF VersionInv, NoLostUpdate
  <2>4. CASE CreateCheck(r)
    <3>1. ASSUME NEW p \in Ports,
                 Continue(r, "createCommit", [arg[r] EXCEPT !.port = p]),
                 UNCHANGED <<udpRange, device, mapping, events, settingsLock,
                             rowLock, updates>>
          PROVE  VersionInv'
      <4>1. /\ pc' = [pc EXCEPT ![r] = "createCommit"] /\ pc[r] \in CreateSteps
            /\ \A q \in Requests : arg'[q].m = arg[q].m
            /\ \A q \in Requests \ {r} : arg'[q] = arg[q]
            /\ Existing' = Existing
        BY <1>0, <2>4, <3>1 DEF Continue, Existing, CreateCheck, Args
      <4>2. LocksHeld'
        <5>1. \A q \in Requests :
                  /\ pc[q] \in CreateSteps \cup {"rangeCommit"}
                         => settingsLock' = {q}
                  /\ pc[q] \in UpdateSteps =>
                         /\ rowLock'[arg[q].m] = {q}
                         /\ arg[q].m \in Existing'
                         /\ mapping'[arg[q].m] = mapping[arg[q].m]
          BY <3>1, <4>1 DEF VersionInv, LocksHeld
        <5>2. pc'[r] = "createCommit" /\ settingsLock' = {r}
          BY <1>0, <4>1, <5>1
        <5>3. \A q \in Requests \ {r} : pc'[q] = pc[q] /\ arg'[q] = arg[q]
          BY <1>0, <4>1
        <5> QED BY <5>1, <5>2, <5>3, LocksKept
      <4>3. CreatedFresh'
        BY <1>0, <3>1, <4>1 DEF VersionInv, CreatedFresh
      <4> QED BY <3>1, <4>1, <4>2, <4>3 DEF VersionInv, NoLostUpdate
    <3> QED BY <2>4, <3>1, RefuseVersions DEF CreateCheck, Refuse
  <2>5. CASE UpdateCheck(r)
    <3>1. CASE Refuse(r)
      BY <3>1, RefuseVersions DEF Refuse
    <3>2. CASE ~Refuse(r)
      <4>1. /\ pc' = [pc EXCEPT ![r] = "updateCommit"] /\ pc[r] \in UpdateSteps
            /\ \A q \in Requests : arg'[q] = arg[q]
            /\ Existing' = Existing
            /\ UNCHANGED <<mapping, settingsLock, rowLock, updates>>
        BY <1>0, <2>5, <3>2 DEF UpdateCheck, Continue, Existing
      <4>2. LocksHeld'
        <5>1. \A q \in Requests :
                  /\ pc[q] \in CreateSteps \cup {"rangeCommit"}
                         => settingsLock' = {q}
                  /\ pc[q] \in UpdateSteps =>
                         /\ rowLock'[arg[q].m] = {q}
                         /\ arg[q].m \in Existing'
                         /\ mapping'[arg[q].m] = mapping[arg[q].m]
                         /\ mapping[arg[q].m].version = arg[q].version
          BY <4>1 DEF VersionInv, LocksHeld
        <5>2. pc'[r] = "updateCommit" /\ arg'[r] = arg[r]
          BY <1>0, <4>1
        <5>3. /\ pc'[r] \notin CreateSteps \cup {"rangeCommit"}
              /\ rowLock'[arg'[r].m] = {r}
              /\ arg'[r].m \in Existing'
              /\ mapping'[arg'[r].m].version = arg'[r].version
          BY <4>1, <5>1, <5>2
        <5>4. \A q \in Requests \ {r} : pc'[q] = pc[q] /\ arg'[q] = arg[q]
          BY <1>0, <4>1
        <5> QED BY <5>1, <5>3, <5>4, LocksKept
      <4>3. CreatedFresh'
        BY <1>0, <4>1 DEF VersionInv, CreatedFresh
      <4> QED BY <4>1, <4>2, <4>3 DEF VersionInv, NoLostUpdate
    <3> QED BY <3>1, <3>2
  <2>6. CASE CreateCommit(r)
    <3>1. CASE Refuse(r)
      BY <3>1, RefuseVersions DEF Refuse
    <3>2. CASE ~Refuse(r)
      <4> DEFINE row == [device |-> arg[r].d, port |-> arg[r].port,
                         enabled |-> arg[r].enabled, version |-> 1]
      <4>1. /\ pc[r] = "createCommit" /\ End(r)
            /\ mapping' = [mapping EXCEPT ![arg[r].m] = row]
            /\ updates' = [updates EXCEPT ![arg[r].m] = 0]
        BY <2>6, <3>2 DEF CreateCommit
      <4>2. row # NoRow
        <5>1. arg[r].port \in Ports
          BY <4>1 DEF TypeOK
        <5> QED BY <1>0, <5>1, NoRowDistinct DEF Args, MappingRow
      <4>3. /\ Existing' = Existing \cup {arg[r].m}
            /\ mapping'[arg[r].m].version = 1 /\ updates'[arg[r].m] = 0
            /\ \A m \in Mappings \ {arg[r].m} :
                   mapping'[m] = mapping[m] /\ updates'[m] = updates[m]
        BY <1>0, <4>1, <4>2 DEF TypeOK, Existing
      <4>4. \A q \in Requests \ {r} :
                pc[q] \in MappingSteps => arg[q].m # arg[r].m
        BY <4>1 DEF VersionInv, CreatedFresh
      <4>5. LocksHeld'
        <5>1. /\ pc'[r] = "idle"
              /\ \A q \in Requests \ {r} :
                     /\ pc'[q] = pc[q] /\ arg'[q] = arg[q]
                     /\ pc[q] \in CreateSteps \cup {"rangeCommit"}
                            => settingsLock' = {q}
                     /\ pc[q] \in UpdateSteps => rowLock'[arg[q].m] = {q}
          BY <4>1, EndFrame
        <5>2. \A q \in Requests \ {r} : pc[q] \in UpdateSteps =>
                  /\ arg[q].m \in Existing'
                  /\ mapping'[arg[q].m] = mapping[arg[q].m]
          BY <1>0, <4>3, <4>4 DEF VersionInv, LocksHeld
        <5> QED BY <5>1, <5>2, LocksKept
      <4>6. CreatedFresh'
        BY <1>0, <4>1, <4>3, <4>4, EndFrame DEF VersionInv, CreatedFresh
      <4> QED BY <4>3, <4>5, <4>6 DEF VersionInv, NoLostUpdate, Existing
    <3> QED BY <3>1, <3>2
  <2>7. CASE UpdateCommit(r)
    <3>1. CASE Refuse(r)
      BY <3>1, RefuseVersions DEF Refuse
    <3>2. CASE ~Refuse(r)
      <4> DEFINE row == [device |-> arg[r].d, port |-> arg[r].port,
                         enabled |-> arg[r].enabled,
                         version |-> arg[r].version + 1]
      <4>1. /\ pc[r] = "updateCommit" /\ End(r)
            /\ mapping' = [mapping EXCEPT ![arg[r].m] = row]
            /\ updates' = [updates EXCEPT ![arg[r].m] = @ + 1]
        BY <2>7, <3>2 DEF UpdateCommit
      <4>2. row # NoRow
        <5>1. arg[r].port \in Ports
          BY <4>1 DEF TypeOK
        <5> QED BY <1>0, <5>1, NoRowDistinct DEF Args, MappingRow
      <4>3. /\ arg[r].m \in Existing
            /\ mapping[arg[r].m].version = arg[r].version
            /\ rowLock[arg[r].m] = {r}
        BY <4>1 DEF VersionInv, LocksHeld
      <4>4. /\ Existing' = Existing
            /\ mapping'[arg[r].m].version = arg[r].version + 1
            /\ updates'[arg[r].m] = updates[arg[r].m] + 1
            /\ \A m \in Mappings \ {arg[r].m} :
                   mapping'[m] = mapping[m] /\ updates'[m] = updates[m]
        BY <1>0, <4>1, <4>2, <4>3 DEF TypeOK, Existing
      <4>5. \A q \in Requests \ {r} :
                pc[q] \in UpdateSteps => arg[q].m # arg[r].m
        BY <4>3 DEF VersionInv, LocksHeld
      <4>6. LocksHeld'
        <5>1. /\ pc'[r] = "idle"
              /\ \A q \in Requests \ {r} :
                     /\ pc'[q] = pc[q] /\ arg'[q] = arg[q]
                     /\ pc[q] \in CreateSteps \cup {"rangeCommit"}
                            => settingsLock' = {q}
                     /\ pc[q] \in UpdateSteps => rowLock'[arg[q].m] = {q}
          BY <4>1, EndFrame
        <5>2. \A q \in Requests \ {r} : pc[q] \in UpdateSteps =>
                  /\ arg[q].m \in Existing'
                  /\ mapping'[arg[q].m] = mapping[arg[q].m]
          BY <1>0, <4>4, <4>5 DEF VersionInv, LocksHeld
        <5> QED BY <5>1, <5>2, LocksKept
      <4>7. CreatedFresh'
        BY <1>0, <4>1, <4>4, EndFrame DEF VersionInv, CreatedFresh
      <4>8. NoLostUpdate'
        BY <4>3, <4>4 DEF VersionInv, NoLostUpdate, Existing
      <4> QED BY <4>6, <4>7, <4>8 DEF VersionInv
    <3> QED BY <3>1, <3>2
  <2>8. CASE DeleteCommit(r)
    <3>1. CASE Refuse(r)
      BY <3>1, RefuseVersions DEF Refuse
    <3>2. CASE ~Refuse(r)
      <4>1. /\ pc[r] = "deleteCommit" /\ End(r) /\ rowLock[arg[r].m] = {}
            /\ mapping' = [mapping EXCEPT ![arg[r].m] = NoRow]
            /\ updates' = [updates EXCEPT ![arg[r].m] = 0]
        BY <2>8, <3>2 DEF DeleteCommit
      <4>2. /\ Existing' = Existing \ {arg[r].m}
            /\ \A m \in Mappings \ {arg[r].m} :
                   mapping'[m] = mapping[m] /\ updates'[m] = updates[m]
        BY <1>0, <4>1 DEF TypeOK, Existing
      <4>3. \A q \in Requests \ {r} :
                pc[q] \in UpdateSteps => arg[q].m # arg[r].m
        BY <4>1 DEF VersionInv, LocksHeld
      <4>4. LocksHeld'
        <5>1. /\ pc'[r] = "idle"
              /\ \A q \in Requests \ {r} :
                     /\ pc'[q] = pc[q] /\ arg'[q] = arg[q]
                     /\ pc[q] \in CreateSteps \cup {"rangeCommit"}
                            => settingsLock' = {q}
                     /\ pc[q] \in UpdateSteps => rowLock'[arg[q].m] = {q}
          BY <4>1, EndFrame
        <5>2. \A q \in Requests \ {r} : pc[q] \in UpdateSteps =>
                  /\ arg[q].m \in Existing'
                  /\ mapping'[arg[q].m] = mapping[arg[q].m]
          BY <1>0, <4>2, <4>3 DEF VersionInv, LocksHeld
        <5> QED BY <5>1, <5>2, LocksKept
      <4>5. CreatedFresh'
        BY <1>0, <4>1, <4>2, EndFrame DEF VersionInv, CreatedFresh
      <4> QED BY <4>2, <4>4, <4>5 DEF VersionInv, NoLostUpdate, Existing
    <3> QED BY <3>1, <3>2
  <2> QED BY <1>1, <2>1, <2>2, <2>3, <2>4, <2>5, <2>6, <2>7, <2>8
          DEF ListenerStep
<1>2. ASSUME NEW r \in Requests, DeviceStep(r) PROVE VersionInv'
  <2>1. ASSUME NEW d \in Devices, DeleteDeviceCheck(r, d) PROVE VersionInv'
    <3>1. /\ pc' = [pc EXCEPT ![r] = "deleteDeviceCommit"]
          /\ \A q \in Requests \ {r} : arg'[q] = arg[q]
          /\ Existing' = Existing
          /\ UNCHANGED <<mapping, settingsLock, rowLock, updates>>
      BY <1>0, <2>1 DEF DeleteDeviceCheck, Continue, Existing
    <3>2. LocksHeld'
      BY <1>0, <3>1, LocksKept DEF VersionInv, LocksHeld
    <3>3. CreatedFresh'
      BY <1>0, <3>1 DEF VersionInv, CreatedFresh
    <3> QED BY <3>1, <3>2, <3>3 DEF VersionInv, NoLostUpdate
  <2>2. CASE DeleteDeviceCommit(r)
    BY <2>2, RefuseVersions DEF DeleteDeviceCommit, Refuse
  <2> QED BY <1>2, <2>1, <2>2 DEF DeviceStep
<1>3. ASSUME NEW r \in Requests, RangeStep(r) PROVE VersionInv'
  <2>1. ASSUME NEW range \in Range, RangeLock(r, range) PROVE VersionInv'
    <3>1. /\ pc' = [pc EXCEPT ![r] = "rangeCommit"]
          /\ \A q \in Requests \ {r} : arg'[q] = arg[q]
          /\ settingsLock = {} /\ settingsLock' = {r}
          /\ Existing' = Existing
          /\ UNCHANGED <<mapping, rowLock, updates>>
      BY <1>0, <2>1 DEF RangeLock, Continue, Existing
    <3> QED BY <1>0, <3>1 DEF VersionInv, LocksHeld, CreatedFresh, NoLostUpdate
  <2>2. CASE RangeCommit(r)
    BY <2>2, RefuseVersions DEF RangeCommit
  <2> QED BY <1>3, <2>1, <2>2 DEF RangeStep
<1>4. ASSUME UNCHANGED <<mapping, settingsLock, rowLock, pc, arg, updates>>
      PROVE  VersionInv'
  BY <1>4 DEF VersionInv, LocksHeld, CreatedFresh, NoLostUpdate, Existing
<1>5. ASSUME NEW d \in Devices, NEW s \in {"enabled", "disabled"},
             CreateDevice(d, s) \/ UpdateDevice(d, s)
      PROVE  VersionInv'
  BY <1>4, <1>5 DEF CreateDevice, UpdateDevice
<1>6. ASSUME NEW m \in Mappings, NEW d \in Devices,
             RecordEvent(m, d) \/ RetentionCleanup(m, d)
      PROVE  VersionInv'
  BY <1>4, <1>6 DEF RecordEvent, RetentionCleanup
<1>7. CASE UNCHANGED vars
  BY <1>4, <1>7 DEF vars
<1> QED BY <1>1, <1>2, <1>3, <1>5, <1>6, <1>7 DEF Next

(* The row locks protect what VersionInv says of them in every state.      *)
THEOREM VersionsCorrect == Spec => []VersionInv
<1>1. Init => VersionInv
  BY DEF Init, VersionInv, LocksHeld, CreatedFresh, NoLostUpdate, Existing,
         CreateSteps, UpdateSteps, MappingSteps
<1> QED BY <1>1, TypeCorrect, VersionStep, PTL DEF Spec

(* ListenerService.update loses no update, for any number of concurrent    *)
(* editors of a mapping.                                                   *)
THEOREM OptimisticVersions == Spec => []NoLostUpdate
<1>1. VersionInv => NoLostUpdate
  BY DEF VersionInv
<1> QED BY <1>1, VersionsCorrect, PTL

-----------------------------------------------------------------------------
(***************************************************************************)
(* The tables.                                                             *)
(***************************************************************************)
\* The flush of create() or update(): one row is written.
Stores(r) ==
    /\ pc[r] \in {"createCommit", "updateCommit"} /\ Flushable(r)
    /\ End(r) /\ UNCHANGED <<udpRange, device, events>>
    /\ mapping'[arg[r].m] # NoRow
    /\ mapping'[arg[r].m].device = arg[r].d
    /\ mapping'[arg[r].m].port = arg[r].port
    /\ pc[r] = "updateCommit" => updates'[arg[r].m] # 0
    /\ \A m \in Mappings \ {arg[r].m} :
           mapping'[m] = mapping[m] /\ updates'[m] = updates[m]

\* The DELETE of a mapping without events.
Removes(r) ==
    /\ pc[r] = "deleteCommit"
    /\ End(r) /\ UNCHANGED <<udpRange, device, events>>
    /\ \A d \in Devices : <<arg[r].m, d>> \notin events
    /\ mapping'[arg[r].m] = NoRow
    /\ \A m \in Mappings \ {arg[r].m} :
           mapping'[m] = mapping[m] /\ updates'[m] = updates[m]

\* Nothing else writes listener_mappings.
LEMMA MappingChanges ==
    ASSUME TypeOK, [Next]_vars
    PROVE  \/ UNCHANGED <<mapping, updates>>
           \/ \E r \in Requests : Stores(r) \/ Removes(r)
<1>0. \A r \in Requests : arg[r] \in Args /\ arg[r].m \in Mappings
  BY DEF TypeOK, Args
<1>1. ASSUME NEW r \in Requests, CreateCommit(r), ~Refuse(r) PROVE Stores(r)
  <2> DEFINE row == [device |-> arg[r].d, port |-> arg[r].port,
                     enabled |-> arg[r].enabled, version |-> 1]
  <2>1. /\ pc[r] = "createCommit" /\ Flushable(r) /\ End(r)
        /\ mapping' = [mapping EXCEPT ![arg[r].m] = row]
        /\ updates' = [updates EXCEPT ![arg[r].m] = 0]
        /\ UNCHANGED <<udpRange, device, events>>
    BY <1>1 DEF CreateCommit
  <2>2. row # NoRow
    <3>1. arg[r].port \in Ports
      BY <2>1 DEF TypeOK
    <3> QED BY <1>0, <3>1, NoRowDistinct DEF Args, MappingRow
  <2> QED BY <1>0, <2>1, <2>2 DEF TypeOK, Stores
<1>2. ASSUME NEW r \in Requests, UpdateCommit(r), ~Refuse(r) PROVE Stores(r)
  <2> DEFINE row == [device |-> arg[r].d, port |-> arg[r].port,
                     enabled |-> arg[r].enabled, version |-> arg[r].version + 1]
  <2>1. /\ pc[r] = "updateCommit" /\ Flushable(r) /\ End(r)
        /\ mapping' = [mapping EXCEPT ![arg[r].m] = row]
        /\ updates' = [updates EXCEPT ![arg[r].m] = @ + 1]
        /\ UNCHANGED <<udpRange, device, events>>
    BY <1>2 DEF UpdateCommit
  <2>2. row # NoRow
    <3>1. arg[r].port \in Ports
      BY <2>1 DEF TypeOK, UpdateSteps
    <3> QED BY <1>0, <3>1, NoRowDistinct DEF Args, MappingRow
  <2>3. updates[arg[r].m] + 1 # 0
    BY <1>0 DEF TypeOK
  <2> QED BY <1>0, <2>1, <2>2, <2>3 DEF TypeOK, Stores
<1>3. ASSUME NEW r \in Requests, DeleteCommit(r), ~Refuse(r) PROVE Removes(r)
  BY <1>0, <1>3 DEF DeleteCommit, Removes, TypeOK
<1>4. ASSUME NEW r \in Requests, Refuse(r) PROVE UNCHANGED <<mapping, updates>>
  BY <1>4 DEF Refuse
<1>5. ASSUME NEW r \in Requests, ListenerStep(r)
      PROVE  UNCHANGED <<mapping, updates>> \/ Stores(r) \/ Removes(r)
  BY <1>1, <1>2, <1>3, <1>4, <1>5
  DEF ListenerStep, CreateLock, UpdateLock, DeleteCheck, CreateCheck,
      UpdateCheck
<1>6. ASSUME NEW r \in Requests, DeviceStep(r) \/ RangeStep(r)
      PROVE  UNCHANGED <<mapping, updates>>
  BY <1>4, <1>6 DEF DeviceStep, DeleteDeviceCheck, DeleteDeviceCommit,
                    RangeStep, RangeLock, RangeCommit
<1> QED BY <1>5, <1>6 DEF Next, CreateDevice, UpdateDevice, RecordEvent,
                          RetentionCleanup, vars

(* No two mappings have the same port, whatever creations and updates race  *)
(* between their check and their commit: the unique constraint decides.     *)
THEOREM PortsUnique == Spec => []UniquePorts
<1>1. Init => UniquePorts
  BY DEF Init, UniquePorts, Existing
<1>2. TypeOK /\ UniquePorts /\ [Next]_vars => UniquePorts'
  <2> SUFFICES ASSUME TypeOK, UniquePorts, [Next]_vars PROVE UniquePorts'
    OBVIOUS
  <2>1. CASE UNCHANGED <<mapping, updates>>
    BY <2>1 DEF UniquePorts, Existing
  <2>2. ASSUME NEW r \in Requests, Stores(r) PROVE UniquePorts'
    BY <2>2 DEF Stores, Flushable, PortTaken, UniquePorts, Existing
  <2>3. ASSUME NEW r \in Requests, Removes(r) PROVE UniquePorts'
    BY <2>3 DEF Removes, UniquePorts, Existing
  <2> QED BY <2>1, <2>2, <2>3, MappingChanges
<1> QED BY <1>1, <1>2, TypeCorrect, PTL DEF Spec

\* When the mappings stay, so do the devices and events that are referred to.
LEMMA ReferencesKept ==
    ASSUME TypeOK, ReferencesValid, [Next]_vars, UNCHANGED mapping
    PROVE  ReferencesValid'
<1>0. \A m \in Existing : mapping[m].device \in Devices
  BY DEF TypeOK, Existing, MappingRow
<1>1. CASE UNCHANGED <<device, events>>
  BY <1>1 DEF ReferencesValid, Existing
<1>2. ASSUME NEW r \in Requests, DeleteDeviceCommit(r) PROVE ReferencesValid'
  <2>1. CASE Refuse(r)
    BY <1>1, <2>1 DEF Refuse
  <2>2. CASE ~Refuse(r)
    <3>1. /\ ~DeviceInUse(arg[r].d) /\ UNCHANGED events
          /\ device' = [device EXCEPT ![arg[r].d] = "absent"]
      BY <1>2, <2>2 DEF DeleteDeviceCommit
    <3>2. device \in [Devices -> {"absent", "enabled", "disabled"}]
      BY DEF TypeOK
    <3>3. \A m \in Existing : mapping[m].device # arg[r].d
      BY <3>1 DEF DeviceInUse
    <3>4. \A m \in Existing : device'[mapping[m].device] # "absent"
      BY <1>0, <3>1, <3>2, <3>3 DEF ReferencesValid
    <3> QED BY <1>0, <3>1, <3>2, <3>4
            DEF DeviceInUse, ReferencesValid, Existing
  <2> QED BY <2>1, <2>2
<1>3. ASSUME NEW d \in Devices, NEW s \in {"enabled", "disabled"},
             CreateDevice(d, s) \/ UpdateDevice(d, s)
      PROVE  ReferencesValid'
  BY <1>0, <1>3 DEF CreateDevice, UpdateDevice, ReferencesValid, TypeOK, Existing
<1>4. ASSUME NEW m \in Mappings, NEW d \in Devices,
             RecordEvent(m, d) \/ RetentionCleanup(m, d)
      PROVE  ReferencesValid'
  BY <1>4 DEF RecordEvent, RetentionCleanup, ReferencesValid, Existing
<1>5. ASSUME NEW r \in Requests, ListenerStep(r) \/ RangeStep(r)
      PROVE  UNCHANGED <<device, events>>
  BY <1>5 DEF ListenerStep, CreateLock, UpdateLock, DeleteCheck, CreateCheck,
              CreateCommit, UpdateCheck, UpdateCommit, DeleteCommit, Refuse,
              RangeStep, RangeLock, RangeCommit
<1>6. ASSUME NEW r \in Requests, DeviceStep(r)
      PROVE  UNCHANGED <<device, events>> \/ DeleteDeviceCommit(r)
  BY <1>6 DEF DeviceStep, DeleteDeviceCheck
<1> QED BY <1>1, <1>2, <1>3, <1>4, <1>5, <1>6 DEF Next, vars

(* No mapping or event refers to a row that is gone, whichever creations,   *)
(* updates and wakes race with the two-step deletions of DeviceService and  *)
(* ListenerService; also for an event whose device the mapping has left,    *)
(* which a listener thread with an old snapshot records.                    *)
THEOREM NoDanglingReference == Spec => []ReferencesValid
<1>1. Init => ReferencesValid
  BY DEF Init, ReferencesValid, Existing
<1>2. TypeOK /\ ReferencesValid /\ [Next]_vars => ReferencesValid'
  <2> SUFFICES ASSUME TypeOK, ReferencesValid, [Next]_vars
               PROVE  ReferencesValid'
    OBVIOUS
  <2>1. CASE UNCHANGED <<mapping, updates>>
    BY <2>1, ReferencesKept
  <2>2. ASSUME NEW r \in Requests, Stores(r) PROVE ReferencesValid'
    <3>1. arg[r].m \in Mappings
      BY DEF TypeOK, Args
    <3> QED BY <2>2, <3>1 DEF Stores, Flushable, ReferencesValid, Existing
  <2>3. ASSUME NEW r \in Requests, Removes(r) PROVE ReferencesValid'
    BY <2>3 DEF Removes, ReferencesValid, Existing
  <2> QED BY <2>1, <2>2, <2>3, MappingChanges
<1> QED BY <1>1, <1>2, TypeCorrect, PTL DEF Spec

-----------------------------------------------------------------------------
(***************************************************************************)
(* The UDP range.  create() and update_udp_range() share the row lock on   *)
(* application_settings, so what one has validated the other cannot undo.  *)
(***************************************************************************)
\* A request that commits a mapping leaves what others have checked alone.
LEMMA StoresChecked ==
    ASSUME TypeOK, VersionInv, CheckedUnderLock, CreatedInRange,
           NEW r \in Requests, Stores(r) \/ Removes(r)
    PROVE  CheckedUnderLock' /\ CreatedInRange'
<1>1. /\ arg[r].m \in Mappings /\ udpRange' = udpRange
      /\ pc'[r] = "idle"
      /\ \A q \in Requests \ {r} : pc'[q] = pc[q] /\ arg'[q] = arg[q]
  BY EndFrame DEF TypeOK, Args, Stores, Removes
<1>2. CASE Removes(r)
  BY <1>1, <1>2 DEF Removes, CheckedUnderLock, CreatedInRange, Existing
<1>3. CASE Stores(r) /\ pc[r] = "updateCommit"
  BY <1>1, <1>3 DEF Stores, CheckedUnderLock, CreatedInRange, Existing
<1>4. CASE Stores(r) /\ pc[r] = "createCommit"
  <2>1. \A q \in Requests \ {r} : pc[q] # "rangeCommit"
    BY <1>4 DEF VersionInv, LocksHeld, CreateSteps
  <2> QED BY <1>1, <1>4, <2>1
          DEF Stores, CheckedUnderLock, CreatedInRange, Existing
<1> QED BY <1>2, <1>3, <1>4 DEF Stores

\* The range changes only when the request that holds the lock commits it.
LEMMA RangeChecked ==
    ASSUME TypeOK, VersionInv, CheckedUnderLock, CreatedInRange, [Next]_vars,
           UNCHANGED <<mapping, updates>>
    PROVE  CheckedUnderLock' /\ CreatedInRange'
<1>0. /\ Existing' = Existing
      /\ pc \in [Requests -> MappingSteps \cup
                     {"idle", "deleteDeviceCommit", "rangeCommit"}]
      /\ arg \in [Requests -> Args]
  BY DEF TypeOK, Existing
\* A request moves to a step that has nothing to remember.
<1>1. ASSUME NEW r \in Requests, UNCHANGED udpRange,
             \A q \in Requests \ {r} : pc'[q] = pc[q] /\ arg'[q] = arg[q],
             pc'[r] \notin {"createCommit", "rangeCommit"}
      PROVE  CheckedUnderLock' /\ CreatedInRange'
  BY <1>0, <1>1 DEF CheckedUnderLock, CreatedInRange
<1>2. ASSUME NEW r \in Requests, Refuse(r)
      PROVE  CheckedUnderLock' /\ CreatedInRange'
  BY <1>1, <1>2, EndFrame DEF Refuse
<1>3. ASSUME NEW r \in Requests, CreateCheck(r)
      PROVE  CheckedUnderLock' /\ CreatedInRange'
  <2>1. ASSUME NEW p \in Ports, CreateValid(r, p),
               Continue(r, "createCommit", [arg[r] EXCEPT !.port = p]),
               UNCHANGED udpRange
        PROVE  CheckedUnderLock' /\ CreatedInRange'
    <3>1. /\ pc'[r] = "createCommit" /\ arg'[r].port = p
          /\ InRange(p, udpRange)
          /\ \A q \in Requests \ {r} : pc'[q] = pc[q] /\ arg'[q] = arg[q]
      <4>1. arg[r] \in Args
        BY <1>0
      <4> QED BY <1>0, <2>1, <4>1 DEF Continue, CreateValid, Args
    <3> QED BY <1>0, <2>1, <3>1 DEF CheckedUnderLock, CreatedInRange
  <2> QED BY <1>2, <1>3, <2>1 DEF CreateCheck
<1>4. ASSUME NEW r \in Requests, ListenerStep(r)
      PROVE  CheckedUnderLock' /\ CreatedInRange'
  <2>1. ASSUME NEW step \in {"createCheck", "deleteCommit", "updateCheck",
                             "updateCommit", "deleteDeviceCommit"},
               NEW args, Continue(r, step, args), UNCHANGED udpRange
        PROVE  CheckedUnderLock' /\ CreatedInRange'
    BY <1>0, <1>1, <2>1 DEF Continue
  <2>2. CASE CreateCommit(r) \/ UpdateCommit(r) \/ DeleteCommit(r)
    BY <1>1, <1>2, <2>2, EndFrame DEF CreateCommit, UpdateCommit, DeleteCommit
  <2> QED BY <1>2, <1>3, <1>4, <2>1, <2>2
          DEF ListenerStep, CreateLock, UpdateLock, DeleteCheck, UpdateCheck
<1>5. ASSUME NEW r \in Requests, DeviceStep(r)
      PROVE  CheckedUnderLock' /\ CreatedInRange'
  <2>1. ASSUME NEW d \in Devices, DeleteDeviceCheck(r, d)
        PROVE  CheckedUnderLock' /\ CreatedInRange'
    BY <1>0, <1>1, <2>1 DEF DeleteDeviceCheck, Continue
  <2>2. CASE DeleteDeviceCommit(r)
    BY <1>1, <1>2, <2>2, EndFrame DEF DeleteDeviceCommit
  <2> QED BY <1>5, <2>1, <2>2 DEF DeviceStep
<1>6. ASSUME NEW r \in Requests, RangeStep(r)
      PROVE  CheckedUnderLock' /\ CreatedInRange'
  <2>1. ASSUME NEW range \in Range, RangeLock(r, range)
        PROVE  CheckedUnderLock' /\ CreatedInRange'
    <3>1. /\ pc'[r] = "rangeCommit" /\ arg'[r].range = range
          /\ \A q \in Requests \ {r} : pc'[q] = pc[q] /\ arg'[q] = arg[q]
          /\ ~Excluded(range) /\ UNCHANGED udpRange
      BY <1>0, <2>1, NoArgsType DEF RangeLock, Continue, Args
    <3> QED BY <1>0, <3>1 DEF CheckedUnderLock, CreatedInRange, Excluded
  <2>2. CASE RangeCommit(r)
    <3>1. /\ pc[r] = "rangeCommit" /\ udpRange' = arg[r].range
          /\ pc'[r] = "idle"
          /\ \A q \in Requests \ {r} : pc'[q] = pc[q] /\ arg'[q] = arg[q]
      BY <2>2, EndFrame DEF RangeCommit
    <3>2. \A q \in Requests \ {r} : pc[q] # "createCommit"
      BY <3>1 DEF VersionInv, LocksHeld, CreateSteps
    <3> QED BY <1>0, <3>1, <3>2 DEF CheckedUnderLock, CreatedInRange
  <2> QED BY <1>6, <2>1, <2>2 DEF RangeStep
<1>7. ASSUME UNCHANGED <<udpRange, pc, arg>>
      PROVE  CheckedUnderLock' /\ CreatedInRange'
  BY <1>0, <1>7 DEF CheckedUnderLock, CreatedInRange
<1> QED BY <1>4, <1>5, <1>6, <1>7 DEF Next, CreateDevice, UpdateDevice,
                                      RecordEvent, RetentionCleanup, vars

(* A mapping that nobody has edited since its creation is in the active     *)
(* range, however creations and range changes overlap.                      *)
THEOREM CreationsInRange == Spec => []CreatedInRange
<1>1. Init => CheckedUnderLock /\ CreatedInRange
  BY DEF Init, CheckedUnderLock, CreatedInRange, Existing
<1>2. TypeOK /\ VersionInv /\ CheckedUnderLock /\ CreatedInRange /\ [Next]_vars
          => CheckedUnderLock' /\ CreatedInRange'
  BY MappingChanges, StoresChecked, RangeChecked
<1> QED BY <1>1, <1>2, TypeCorrect, VersionsCorrect, PTL DEF Spec
=============================================================================
