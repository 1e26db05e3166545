--------------------------- MODULE JournalProofs ----------------------------
(***************************************************************************)
(* Proofs about Journal for any number of rows, processes and requests,    *)
(* any retention settings and any period of the dashboard.                 *)
(***************************************************************************)
EXTENDS Journal, FiniteSetTheorems, TLAPS

CleanerType == [step : Steps, now : Time, days : Settings \cup {Nothing}]
ViewType == [open : BOOLEAN, end : Time, series : [Codes -> Nat],
             bucket : 0 .. Hours]

\* The values clean-ups and dashboards start from are well typed.
LEMMA StartTypes ==
    /\ \A step \in Steps : At(step) \in CleanerType
    /\ \A c \in Cleaners : NotRunning[c] \in CleanerType
    /\ NoView \in ViewType
<1>1. \A step \in Steps : At(step) \in CleanerType
  BY JournalAssumption DEF At, CleanerType, Time
<1>2. \A c \in Cleaners : NotRunning[c] \in CleanerType
  BY <1>1 DEF NotRunning, Steps
<1>3. NoView \in ViewType
  BY JournalAssumption DEF NoView, NoCounts, ViewType, Time
<1> QED BY <1>1, <1>2, <1>3

\* A new row is a row, and takes the place of none.
LEMMA NewRowType ==
    ASSUME TypeOK, NEW i \in Ids, NEW table \in Tables, NEW code \in Codes,
           NEW made \in Time, NewRow(i, table, code, made)
    PROVE  /\ row' \in [Ids -> Row \cup {Nothing}]
           /\ row[i] = Nothing /\ row'[i] # Nothing /\ i \notin seen
           /\ row'[i].table = table /\ row'[i].code = code
           /\ table = "wake" => row'[i].at = made
           /\ \A j \in Ids \ {i} : row'[j] = row[j]
<1> DEFINE new == [table |-> table, code |-> code,
                   at |-> IF table = "session" THEN made + SessionLength
                          ELSE made]
<1>1. new \in Row
  BY JournalAssumption DEF Row, Time
<1>2. row' = [row EXCEPT ![i] = new] /\ row[i] = Nothing /\ i \notin seen
  BY DEF NewRow
<1>3. row'[i] = new /\ \A j \in Ids \ {i} : row'[j] = row[j]
  BY <1>2 DEF TypeOK
<1> QED BY <1>1, <1>2, <1>3, NothingDistinct DEF TypeOK

\* The cardinalities the proofs compare are those of finite sets.
LEMMA SubsetsFinite ==
    ASSUME NEW S, S \subseteq Ids
    PROVE  IsFiniteSet(S) /\ Cardinality(S) \in Nat
BY JournalAssumption, FS_Subset, FS_CardinalityType

LEMMA CountsType ==
    ASSUME NEW S, S \subseteq Ids
    PROVE  Counts(S) \in [Codes -> Nat]
<1>1. \A c \in Codes : {i \in S : row[i].code = c} \subseteq Ids
  OBVIOUS
<1> QED BY <1>1, SubsetsFinite DEF Counts

-----------------------------------------------------------------------------
(* Type correctness is inductive.                                          *)
LEMMA TypeStep == TypeOK /\ [Next]_vars => TypeOK'
<1> SUFFICES ASSUME TypeOK, [Next]_vars PROVE TypeOK'
    OBVIOUS
<1>0. cleaner \in [Cleaners -> CleanerType] /\ view \in ViewType
  BY DEF TypeOK, CleanerType, ViewType
<1>1. ASSUME NEW c \in Cleaners, StartWorker(c) PROVE TypeOK'
  BY <1>1 DEF TypeOK, StartWorker, Goto, Steps, cleanVars, viewVars
<1>2. ASSUME NEW c \in Cleaners, Cleanup(c) PROVE TypeOK'
  <2>1. [At("settings") EXCEPT !.now = clock] \in CleanerType
    BY StartTypes DEF TypeOK, CleanerType, Steps
  <2>2. cleaner' \in [Cleaners -> CleanerType]
    BY <1>0, <1>2, <2>1 DEF Cleanup, Locked
  <2> QED BY <1>2, <2>2 DEF TypeOK, Cleanup, viewVars, CleanerType
<1>3. ASSUME NEW c \in Cleaners, ReadSettings(c) PROVE TypeOK'
  BY <1>3 DEF TypeOK, ReadSettings, Steps, viewVars
<1>4. ASSUME NEW c \in Cleaners, Delete(c) PROVE TypeOK'
  <2>1. cleaner' \in [Cleaners -> CleanerType]
    BY <1>0, <1>4, StartTypes DEF Delete, ToFinally, Steps
  <2>2. row' \in [Ids -> Row \cup {Nothing}]
    BY <1>4 DEF TypeOK, Delete
  <2> QED BY <1>4, <2>1, <2>2 DEF TypeOK, Delete, viewVars, CleanerType
<1>5. ASSUME NEW c \in Cleaners, Unlock(c) PROVE TypeOK'
  <2>1. cleaner' \in [Cleaners -> CleanerType]
    BY <1>0, <1>5, StartTypes DEF Unlock, Return, Steps
  <2> QED BY <1>5, <2>1 DEF TypeOK, Unlock, viewVars, CleanerType
<1>6. ASSUME NEW c \in Cleaners, CleanupFails(c) PROVE TypeOK'
  <2>1. cleaner' \in [Cleaners -> CleanerType]
    BY <1>0, <1>6, StartTypes DEF CleanupFails, ToFinally, Steps
  <2> QED BY <1>6, <2>1, JournalAssumption
          DEF TypeOK, CleanupFails, viewVars, CleanerType
<1>7. ASSUME NEW c \in Cleaners, ProcessEnds(c) PROVE TypeOK'
  <2>1. cleaner' \in [Cleaners -> CleanerType]
    BY <1>0, <1>7, StartTypes DEF ProcessEnds
  <2> QED BY <1>7, <2>1, JournalAssumption
          DEF TypeOK, ProcessEnds, viewVars, CleanerType
<1>8. ASSUME NEW i \in Ids, NEW table \in Tables, NEW code \in Codes,
             NEW made \in Time, Insert(i, table, code, made)
      PROVE  TypeOK'
  <2>1. NewRow(i, table, code, made)
    BY <1>8 DEF Insert
  <2> QED BY <1>8, <2>1, NewRowType DEF TypeOK, Insert, cleanVars
<1>9. ASSUME NEW new \in Settings, NEW i \in Ids, NEW made \in Time,
             UpdateRetention(new, i, made)
      PROVE  TypeOK'
  <2>1. NewRow(i, "audit", "success", made)
    BY <1>9 DEF UpdateRetention
  <2>2. row' \in [Ids -> Row \cup {Nothing}]
    BY <2>1, NewRowType, JournalAssumption DEF Tables
  <2> QED BY <1>9, <2>2, JournalAssumption
          DEF TypeOK, UpdateRetention, viewVars
<1>10. CASE DashboardBegin \/ DashboardReturn
  <2>1. view' \in ViewType
    BY <1>10, StartTypes DEF DashboardBegin, DashboardReturn, ViewType, TypeOK
  <2>2. seen' \subseteq Ids
    BY <1>10 DEF DashboardBegin, DashboardReturn, In, Existing
  <2> QED BY <1>10, <2>1, <2>2
          DEF TypeOK, DashboardBegin, DashboardReturn, cleanVars, ViewType
<1>11. CASE DashboardBucket
  <2> DEFINE bucket == Counts({i \in In("wake") : InBucket(i)})
             series == [c \in Codes |-> view.series[c] + bucket[c]]
  <2>1. bucket \in [Codes -> Nat]
    BY CountsType DEF In, Existing
  <2> HIDE DEF bucket
  <2>2. series \in [Codes -> Nat]
    BY <1>0, <2>1 DEF ViewType
  <2>3. view' = [view EXCEPT !.bucket = view.bucket + 1, !.series = series]
    BY <1>11 DEF DashboardBucket, bucket
  <2> HIDE DEF series
  <2>4. view.bucket < Hours
    BY <1>11 DEF DashboardBucket
  <2>5. view.bucket + 1 \in 0 .. Hours
    BY <1>0, <2>4, JournalAssumption DEF ViewType
  <2>6. view' \in ViewType
    BY <1>0, <2>2, <2>3, <2>5 DEF ViewType
  <2> QED BY <1>11, <2>6
          DEF TypeOK, DashboardBucket, cleanVars, ViewType
<1>12. CASE Tick
  BY <1>12, JournalAssumption DEF TypeOK, Tick, Time, cleanVars, viewVars
<1>13. CASE UNCHANGED vars
  BY <1>13 DEF TypeOK, vars
<1> QED BY <1>1, <1>2, <1>3, <1>4, <1>5, <1>6, <1>7, <1>8, <1>9, <1>10, <1>11,
           <1>12, <1>13
        DEF Next, WorkerStep, CleanupStep, Cleaners

(* Every field keeps its type, the two counters their bounds.               *)
THEOREM TypeCorrect == Spec => []TypeOK
<1>1. Init => TypeOK
  BY StartTypes, JournalAssumption
  DEF Init, TypeOK, CleanerType, ViewType, NotRunning, Time
<1> QED BY <1>1, TypeStep, PTL DEF Spec

-----------------------------------------------------------------------------
(***************************************************************************)
(* The advisory lock and the settings of the clean-up that holds it.       *)
(***************************************************************************)
\* A clean-up that moves leaves the others where they are.
LEMMA CleanerFrame ==
    ASSUME TypeOK, NEW c \in Cleaners, NEW v, cleaner' = [cleaner EXCEPT ![c] = v]
    PROVE  cleaner'[c] = v /\ \A d \in Cleaners \ {c} : cleaner'[d] = cleaner[d]
BY DEF TypeOK

LEMMA LockStep == TypeOK /\ LockInv /\ [Next]_vars => LockInv'
<1> SUFFICES ASSUME TypeOK, LockInv, [Next]_vars PROVE LockInv'
    OBVIOUS
<1>0. /\ clock \in Nat /\ clock' \in Nat
      /\ \A c \in Cleaners : cleaner[c].now \in Nat
  BY TypeStep DEF TypeOK, Time
<1>1. ASSUME NEW c \in Cleaners, StartWorker(c) PROVE LockInv'
  BY <1>1 DEF LockInv, StartWorker, Goto, TypeOK
<1>2. ASSUME NEW c \in Cleaners, Cleanup(c) PROVE LockInv'
  <2>1. /\ cleaner'[c] = [At("settings") EXCEPT !.now = clock]
        /\ \A d \in Cleaners \ {c} : cleaner'[d] = cleaner[d]
    BY <1>2, CleanerFrame DEF Cleanup, Locked
  <2>2. cleaner'[c].step = "settings" /\ cleaner'[c].now = clock
    BY <2>1 DEF At
  <2>3. \A d \in Cleaners \ {c} : cleaner'[d] = cleaner[d]
    BY <2>1
  <2>4. /\ advisory = {} /\ advisory' = {c} /\ inForce' = {days}
        /\ days' = days /\ clock' = clock
    BY <1>2 DEF Cleanup
  <2>5. \A d \in Cleaners \ {c} :
            cleaner'[d].step \notin {"settings", "delete", "unlock"}
    BY <2>3, <2>4 DEF LockInv
  <2> QED BY <1>0, <2>2, <2>3, <2>4, <2>5 DEF LockInv
<1>3. ASSUME NEW c \in Cleaners, ReadSettings(c) PROVE LockInv'
  BY <1>3 DEF LockInv, ReadSettings, TypeOK
<1>4. ASSUME NEW c \in Cleaners, Delete(c) \/ CleanupFails(c) PROVE LockInv'
  <2>0. /\ cleaner'[c] = At("unlock")
        /\ \A d \in Cleaners \ {c} : cleaner'[d] = cleaner[d]
    BY <1>4, CleanerFrame DEF Delete, CleanupFails, ToFinally
  <2>1. cleaner'[c].step = "unlock" /\ cleaner'[c].now = 0
    BY <2>0 DEF At
  <2> QED BY <1>0, <1>4, <2>0, <2>1 DEF LockInv, Delete, CleanupFails
<1>5. ASSUME NEW c \in Cleaners, Unlock(c) PROVE LockInv'
  <2>0. /\ cleaner'[c] = At("idle")
        /\ \A d \in Cleaners \ {c} : cleaner'[d] = cleaner[d]
    BY <1>5, CleanerFrame DEF Unlock, Return
  <2>1. cleaner'[c].step = "idle" /\ cleaner'[c].now = 0
    BY <2>0 DEF At
  <2> QED BY <1>0, <1>5, <2>0, <2>1 DEF LockInv, Unlock
<1>6. ASSUME NEW c \in Cleaners, ProcessEnds(c) PROVE LockInv'
  <2>0. /\ cleaner'[c] = NotRunning[c]
        /\ \A d \in Cleaners \ {c} : cleaner'[d] = cleaner[d]
    BY <1>6, CleanerFrame DEF ProcessEnds
  <2>1. cleaner'[c].step \in {"off", "idle"} /\ cleaner'[c].now = 0
    BY <2>0 DEF At, NotRunning
  <2> QED BY <1>0, <1>6, <2>0, <2>1 DEF LockInv, ProcessEnds
<1>7. ASSUME NEW i \in Ids, NEW table \in Tables, NEW code \in Codes,
             NEW made \in Time, Insert(i, table, code, made)
      PROVE  LockInv'
  BY <1>7 DEF LockInv, Insert, cleanVars
<1>8. ASSUME NEW new \in Settings, NEW i \in Ids, NEW made \in Time,
             UpdateRetention(new, i, made)
      PROVE  LockInv'
  BY <1>8 DEF LockInv, UpdateRetention
<1>9. CASE DashboardBegin \/ DashboardReturn \/ DashboardBucket
  BY <1>9 DEF LockInv, DashboardBegin, DashboardReturn, DashboardBucket,
              cleanVars
<1>10. CASE Tick
  BY <1>0, <1>10 DEF LockInv, Tick, cleanVars
<1>11. CASE UNCHANGED vars
  BY <1>11 DEF LockInv, vars
<1> QED BY <1>1, <1>2, <1>3, <1>4, <1>5, <1>6, <1>7, <1>8, <1>9, <1>10, <1>11
        DEF Next, WorkerStep, CleanupStep, Cleaners

LEMMA LockCorrect == Spec => []LockInv
<1>1. Init => LockInv
  BY DEF Init, LockInv, NotRunning, At
<1> QED BY <1>1, LockStep, TypeCorrect, PTL DEF Spec

(* pg_try_advisory_lock admits one clean-up among all web processes and     *)
(* administrators, and a clean-up that raises or is killed gives it back.   *)
THEOREM CleanersExclude == Spec => []OneCleaner
<1>1. LockInv => OneCleaner
  <2> SUFFICES ASSUME LockInv PROVE Cardinality(advisory) <= 1
    BY DEF LockInv, OneCleaner
  <2>1. CASE advisory = {}
    BY <2>1, FS_EmptySet
  <2>2. ASSUME NEW c \in advisory PROVE Cardinality(advisory) <= 1
    <3>1. advisory = {c}
      BY DEF LockInv
    <3> QED BY <3>1, FS_Singleton
  <2> QED BY <2>1, <2>2
<1> QED BY <1>1, LockCorrect, PTL

(* A clean-up removes only rows that are older than settings that were in   *)
(* force while it held the lock, and sessions that have expired.            *)
THEOREM DeletionsJustified == Spec => NoEarlyDeletion
<1> DEFINE Justified(i) ==
        CASE row[i].table = "session" -> row[i].at < clock
          [] row[i].table = "wake" ->
                 \E kept \in inForce : clock - row[i].at > kept.wake
          [] row[i].table = "audit" ->
                 \E kept \in inForce : clock - row[i].at > kept.audit
<1>1. ASSUME TypeOK, LockInv, [Next]_vars, NEW i \in Existing, row'[i] = Nothing
      PROVE  Justified(i)
  <2>1. ASSUME NEW c \in Cleaners, Delete(c) PROVE Justified(i)
    <3> DEFINE now == cleaner[c].now
               kept == cleaner[c].days
    <3>1. /\ now \in Nat /\ clock \in Nat /\ now <= clock
          /\ kept \in inForce /\ kept \in Settings
      BY <1>1, <2>1, NothingDistinct DEF TypeOK, LockInv, Delete, Time
    <3>2. row[i] \in Row
      BY <1>1 DEF TypeOK, Existing
    <3>3. Expired(i, now, kept)
      BY <1>1, <2>1 DEF Delete, Existing
    <3>4. kept.wake \in Nat /\ kept.audit \in Nat
      BY <3>1, JournalAssumption
    <3> HIDE DEF now, kept
    <3>5. row[i].at \in Int /\ row[i].table \in Tables
      BY <3>2, JournalAssumption DEF Row
    <3>6. CASE row[i].table = "session"
      BY <3>1, <3>3, <3>5, <3>6 DEF Expired
    <3>7. CASE row[i].table = "wake"
      <4>1. row[i].at < now - kept.wake
        BY <3>3, <3>7 DEF Expired
      <4>2. clock - row[i].at > kept.wake
        BY <3>1, <3>4, <3>5, <4>1
      <4> QED BY <3>1, <3>7, <4>2
    <3>8. CASE row[i].table = "audit"
      <4>1. row[i].at < now - kept.audit
        BY <3>3, <3>8 DEF Expired
      <4>2. clock - row[i].at > kept.audit
        BY <3>1, <3>4, <3>5, <4>1
      <4> QED BY <3>1, <3>8, <4>2
    <3> QED BY <3>5, <3>6, <3>7, <3>8 DEF Tables
  <2>2. ASSUME NEW j \in Ids, NEW table \in Tables, NEW code \in Codes,
               NEW made \in Time, NewRow(j, table, code, made)
        PROVE  FALSE
    BY <1>1, <2>2, NewRowType DEF Existing
  <2>3. UNCHANGED row => FALSE
    BY <1>1 DEF Existing
  <2> QED BY <1>1, <2>1, <2>2, <2>3, JournalAssumption
          DEF Next, WorkerStep, CleanupStep, Cleaners, StartWorker, Cleanup,
              ReadSettings, Unlock, CleanupFails, ProcessEnds, Insert,
              UpdateRetention, DashboardBegin, DashboardBucket,
              DashboardReturn, Tick, vars, Tables
<1>2. TypeOK /\ LockInv /\ [Next]_vars
          => [\A i \in Existing : row'[i] = Nothing => Justified(i)]_vars
  BY <1>1
<1> QED BY <1>2, TypeCorrect, LockCorrect, PTL DEF Spec, NoEarlyDeletion

-----------------------------------------------------------------------------
(***************************************************************************)
(* The dashboard's series.  Counted(c) only grows while a dashboard is     *)
(* made: an event that is removed stays in it, whatever its code was.      *)
(***************************************************************************)
\* A larger set of rows has no smaller cardinality.
LEMMA CardinalityGrows ==
    ASSUME NEW S, NEW T, S \subseteq T, T \subseteq Ids
    PROVE  Cardinality(S) \in Nat /\ Cardinality(T) \in Nat
           /\ Cardinality(S) <= Cardinality(T)
<1>1. S \in SUBSET T /\ S \subseteq Ids
  OBVIOUS
<1> QED BY <1>1, SubsetsFinite, FS_Subset

LEMMA DisjointUnion ==
    ASSUME NEW S, NEW T, S \subseteq Ids, T \subseteq Ids, S \cap T = {}
    PROVE  Cardinality(S \cup T) = Cardinality(S) + Cardinality(T)
<1>1. /\ IsFiniteSet(S) /\ Cardinality(S) \in Nat
      /\ IsFiniteSet(T) /\ Cardinality(T) \in Nat
  BY SubsetsFinite
<1>2. Cardinality(S \cup T)
          = Cardinality(S) + Cardinality(T) - Cardinality(S \cap T)
  BY <1>1, FS_Union
<1>3. Cardinality(S \cap T) = 0
  BY FS_EmptySet
<1> QED BY <1>1, <1>2, <1>3

\* A step that leaves the view and all rows of the history alone, but for rows
\* that it removes or adds to the history.
LEMMA SeriesFrame ==
    ASSUME TypeOK, TypeOK', SeriesInv, UNCHANGED view,
           seen \subseteq seen',
           \A i \in seen : row'[i] = row[i] \/ row'[i] = Nothing,
           \A i \in In("wake")' : view.open /\ row'[i].at >= Start => i \in seen'
    PROVE  SeriesInv'
<1>1. ASSUME NEW c \in Codes PROVE view'.series[c] <= Cardinality(Counted(c)')
  <2>1. Counted(c) \subseteq Counted(c)' /\ Counted(c)' \subseteq Ids
    BY DEF Counted, BucketStart, Start, TypeOK
  <2>2. /\ Cardinality(Counted(c)) \in Nat /\ Cardinality(Counted(c)') \in Nat
        /\ Cardinality(Counted(c)) <= Cardinality(Counted(c)')
    BY <2>1, CardinalityGrows
  <2>3. view.series[c] \in Nat /\ view.series[c] <= Cardinality(Counted(c))
    BY DEF TypeOK, SeriesInv
  <2> QED BY <2>2, <2>3
<1> QED BY <1>1 DEF SeriesInv, Start

\* A query counts rows that no earlier bucket has: they are new to Counted(c).
LEMMA BucketStep ==
    ASSUME TypeOK, TypeOK', SeriesInv, DashboardBucket
    PROVE  SeriesInv'
<1> DEFINE bucket == Counts({i \in In("wake") : InBucket(i)})
           series == [c \in Codes |-> view.series[c] + bucket[c]]
<1>0. /\ view \in ViewType /\ view.open /\ UNCHANGED <<row, seen>>
      /\ view' = [view EXCEPT !.bucket = view.bucket + 1, !.series = series]
  BY DEF DashboardBucket, TypeOK, ViewType
<1> HIDE DEF series
<1>1. /\ view.open /\ view'.end = view.end /\ UNCHANGED <<row, seen>>
      /\ view'.bucket = view.bucket + 1 /\ view'.series = series
      /\ view.bucket \in Nat /\ view.end \in Nat /\ Hours \in Nat
  BY <1>0, JournalAssumption DEF ViewType, Time
<1>2. BucketStart' = BucketStart + 1 /\ BucketStart \in Int /\ Start <= BucketStart
      /\ Start \in Int /\ Start' = Start
  BY <1>1 DEF BucketStart, Start
<1>3. ASSUME NEW c \in Codes PROVE view'.series[c] <= Cardinality(Counted(c)')
  <2> DEFINE now == {i \in {j \in In("wake") : InBucket(j)} : row[i].code = c}
  <2>1. view'.series[c] = view.series[c] + Cardinality(now)
    BY <1>1 DEF series, Counts
  <2>2. \A i \in Ids : row[i] # Nothing => row[i].at \in Int
    BY JournalAssumption DEF TypeOK, Row
  <2>3. now \subseteq seen
    BY <1>1, <1>2, <2>2 DEF In, Existing, InBucket, SeriesInv
  <2>4. now \cap Counted(c) = {}
    BY <1>2, <2>2 DEF Counted, InBucket, In, Existing
  <2>5. now \subseteq Counted(c)'
    BY <1>1, <1>2, <2>2, <2>3 DEF Counted, InBucket, In, Existing
  <2>6. Counted(c) \subseteq Counted(c)' /\ Counted(c)' \subseteq Ids
    <3>1. ASSUME NEW i \in Counted(c) PROVE i \in Counted(c)'
      BY <1>1, <1>2, <2>2 DEF Counted, TypeOK
    <3> QED BY <3>1 DEF Counted, TypeOK
  <2> HIDE DEF now
  <2> DEFINE old == Counted(c)
             all == Counted(c)'
  <2>7. view.series[c] \in Nat /\ view.series[c] <= Cardinality(old)
    BY DEF TypeOK, SeriesInv
  <2> HIDE DEF old, all
  <2>8. /\ old \subseteq Ids /\ now \subseteq Ids /\ old \cap now = {}
        /\ old \cup now \subseteq all /\ all \subseteq Ids
    BY <2>4, <2>5, <2>6 DEF old, all
  <2>9. Cardinality(old \cup now) = Cardinality(old) + Cardinality(now)
    BY <2>8, DisjointUnion
  <2>10. Cardinality(old \cup now) <= Cardinality(all)
         /\ Cardinality(old \cup now) \in Nat /\ Cardinality(all) \in Nat
    BY <2>8, CardinalityGrows
  <2>11. Cardinality(old) \in Nat /\ Cardinality(now) \in Nat
    BY <2>8, SubsetsFinite
  <2>12. view'.series[c] <= Cardinality(all)
    BY <2>1, <2>7, <2>9, <2>10, <2>11
  <2> QED BY <2>12 DEF all
<1>4. In("wake")' = In("wake")
  BY <1>1 DEF In, Existing
<1> QED BY <1>1, <1>2, <1>3, <1>4 DEF SeriesInv

LEMMA SeriesStep == TypeOK /\ SeriesInv /\ [Next]_vars => SeriesInv'
<1> SUFFICES ASSUME TypeOK, SeriesInv, [Next]_vars PROVE SeriesInv'
    OBVIOUS
<1>0. TypeOK'
  BY TypeStep
<1>1. CASE UNCHANGED <<row, view, seen>>
  BY <1>1 DEF SeriesInv, Counted, BucketStart, Start, In, Existing
<1>2. ASSUME NEW c \in Cleaners, Delete(c) PROVE SeriesInv'
  <2>1. UNCHANGED <<view, seen>>
        /\ \A i \in Ids : row'[i] = row[i] \/ row'[i] = Nothing
    BY <1>2 DEF Delete, viewVars, TypeOK
  <2>2. \A i \in In("wake")' : i \in In("wake") /\ row'[i] = row[i]
    BY <2>1 DEF In, Existing
  <2> QED BY <1>0, <2>1, <2>2, SeriesFrame DEF SeriesInv, TypeOK
<1>3. ASSUME NEW i \in Ids, NEW table \in Tables, NEW code \in Codes,
             NEW made \in Time, Insert(i, table, code, made)
      PROVE  SeriesInv'
  <2>1. NewRow(i, table, code, made) /\ UNCHANGED view /\ seen \subseteq seen'
    BY <1>3 DEF Insert
  <2>2. /\ i \notin seen /\ \A j \in Ids \ {i} : row'[j] = row[j]
        /\ row'[i].table = table /\ (table = "wake" => row'[i].at = made)
    BY <2>1, NewRowType
  <2>3. \A j \in seen : row'[j] = row[j]
    BY <2>2 DEF TypeOK
  <2>4. ASSUME NEW j \in In("wake")', view.open, row'[j].at >= Start
        PROVE  j \in seen'
    <3>1. CASE j = i
      BY <1>3, <2>2, <2>4, <3>1 DEF Insert, In
    <3>2. CASE j # i
      BY <2>1, <2>2, <2>4, <3>2 DEF SeriesInv, In, Existing
    <3> QED BY <3>1, <3>2
  <2> QED BY <1>0, <2>1, <2>3, <2>4, SeriesFrame
<1>4. ASSUME NEW new \in Settings, NEW i \in Ids, NEW made \in Time,
             UpdateRetention(new, i, made)
      PROVE  SeriesInv'
  <2>1. NewRow(i, "audit", "success", made) /\ UNCHANGED <<view, seen>>
    BY <1>4 DEF UpdateRetention, viewVars
  <2>2. /\ i \notin seen /\ \A j \in Ids \ {i} : row'[j] = row[j]
        /\ row'[i].table = "audit"
    BY <2>1, NewRowType, JournalAssumption DEF Tables
  <2>3. \A j \in seen : row'[j] = row[j]
    BY <2>2 DEF TypeOK
  <2>4. \A j \in In("wake")' : j \in In("wake") /\ row'[j] = row[j]
    BY <2>2 DEF In, Existing
  <2> QED BY <1>0, <2>1, <2>3, <2>4, SeriesFrame DEF SeriesInv
<1>5. CASE DashboardBegin \/ DashboardReturn
  <2>0. view' \in {NoView, [open |-> TRUE, end |-> clock, series |-> NoCounts,
                            bucket |-> 0]}
    BY <1>5 DEF DashboardBegin, DashboardReturn, NoView
  <2>1. view'.series = NoCounts
    BY <2>0 DEF NoView
  <2>2. ASSUME NEW c \in Codes PROVE view'.series[c] <= Cardinality(Counted(c)')
    <3>1. Counted(c)' \subseteq Ids
      BY <1>0 DEF Counted, TypeOK
    <3>2. Cardinality(Counted(c)') \in Nat
      BY <3>1, SubsetsFinite
    <3> QED BY <2>1, <3>2 DEF NoCounts
  <2>3. \A i \in In("wake")' : view'.open /\ row'[i].at >= Start' => i \in seen'
    <3>1. CASE DashboardReturn
      BY <3>1 DEF DashboardReturn, NoView
    <3>2. CASE DashboardBegin
      <4>1. view' = [open |-> TRUE, end |-> clock, series |-> NoCounts,
                     bucket |-> 0]
        BY <3>2 DEF DashboardBegin, NoView
      <4>2. Start' = clock - Hours /\ In("wake")' = In("wake") /\ row' = row
        BY <3>2, <4>1 DEF DashboardBegin, Start, In, Existing
      <4> QED BY <3>2, <4>2 DEF DashboardBegin
    <3> QED BY <1>5, <3>1, <3>2
  <2> QED BY <2>2, <2>3 DEF SeriesInv
<1>6. CASE DashboardBucket
  BY <1>0, <1>6, BucketStep
<1> QED BY <1>1, <1>2, <1>3, <1>4, <1>5, <1>6
        DEF Next, WorkerStep, CleanupStep, Cleaners, StartWorker, Cleanup,
            ReadSettings, Unlock, CleanupFails, ProcessEnds, Tick, vars, viewVars

(* Whatever arrives and expires between the queries of a dashboard, it      *)
(* counts no event twice and none that was never there.                     *)
THEOREM SeriesFaithful == Spec => []SeriesCountsOnce
<1>1. Init => SeriesInv
  <2> SUFFICES ASSUME Init PROVE SeriesInv
    OBVIOUS
  <2>1. \A c \in Codes : Counted(c) = {}
    BY DEF Init, Counted
  <2> QED BY <2>1, FS_EmptySet
          DEF Init, SeriesInv, NoView, NoCounts, In, Existing
<1>2. TypeOK /\ SeriesInv => SeriesCountsOnce
  <2> SUFFICES ASSUME TypeOK, SeriesInv PROVE SeriesCountsOnce
    OBVIOUS
  <2> DEFINE visible == {i \in seen : row[i] # Nothing}
             removed == Cardinality(seen) - Cardinality(visible)
  <2> SUFFICES ASSUME NEW c \in Codes
               PROVE  view.series[c] <= Counts(visible)[c] + removed
    BY DEF SeriesCountsOnce
  <2> DEFINE coded == {i \in visible : row[i].code = c}
             gone == seen \ visible
  <2>1. /\ coded \subseteq Ids /\ gone \subseteq Ids /\ visible \subseteq seen
        /\ seen \subseteq Ids /\ visible \subseteq Ids /\ coded \cap gone = {}
        /\ seen = visible \cup gone /\ visible \cap gone = {}
        /\ Counted(c) \subseteq coded \cup gone /\ coded \cup gone \subseteq Ids
    BY DEF TypeOK, Counted
  <2>2. Counts(visible)[c] = Cardinality(coded)
    BY DEF Counts
  <2>3. view.series[c] \in Nat /\ view.series[c] <= Cardinality(Counted(c))
    BY DEF TypeOK, SeriesInv
  <2> HIDE DEF coded, gone, visible
  <2>4. /\ Cardinality(coded) \in Nat /\ Cardinality(gone) \in Nat
        /\ Cardinality(visible) \in Nat
    BY <2>1, SubsetsFinite
  <2>5. Cardinality(seen) = Cardinality(visible) + Cardinality(gone)
    BY <2>1, DisjointUnion
  <2>6. Cardinality(coded \cup gone) = Cardinality(coded) + Cardinality(gone)
    BY <2>1, DisjointUnion
  <2>7. Cardinality(Counted(c)) <= Cardinality(coded \cup gone)
        /\ Cardinality(Counted(c)) \in Nat
    BY <2>1, CardinalityGrows
  <2> QED BY <2>2, <2>3, <2>4, <2>5, <2>6, <2>7
<1> QED BY <1>1, <1>2, SeriesStep, TypeCorrect, PTL DEF Spec
=============================================================================
