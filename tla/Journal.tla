------------------------------ MODULE Journal -------------------------------
(***************************************************************************)
(* The journal of the web application: the rows of wake_events,            *)
(* audit_events and user_sessions with their times, the retention clean-up *)
(* that every process runs hourly and administrators run on demand, and    *)
(* the dashboard (app/application/observability_service.py).               *)
(*                                                                         *)
(* Granularity.  Every query is a step and sees what is committed when it  *)
(* runs (READ COMMITTED).  A row appears when its transaction commits, and *)
(* carries the time it was made at, up to CommitLag earlier.               *)
(* The three DELETEs of a clean-up and their commit are one step: nobody   *)
(* sees them before the commit, and an error undoes all of them.           *)
(*                                                                         *)
(* Abstractions.  One unit of time stands for a bucket of the dashboard    *)
(* and for a day of retention.  The dashboard's totals for the whole       *)
(* period and its list of recent events come from queries of their own,    *)
(* and the paged lists from single queries; they are left out.             *)
(***************************************************************************)
EXTENDS Integers, FiniteSets

CONSTANTS
    Ids,            \* ids of rows
    Processes,      \* web processes, each with a RetentionWorker
    Requests,       \* workers that run run_retention
    Codes,          \* result codes of wake events
    Settings,       \* values of the two retention columns, in days
    Defaults,       \* the retention settings of a new installation
    SessionLength,  \* session_hours
    Hours,          \* the period of the dashboard, in buckets
    MaxTime,        \* bound: the clock stops here
    CommitLag,      \* bound: between the time of a row and its commit
    MaxUpdates,     \* bound: changes of the retention settings
    MaxFailures,    \* bound: failed clean-ups and killed processes
    Nothing

Tables == {"wake", "audit", "session"}
Cleaners == Processes \cup Requests
Time == 0 .. MaxTime

ASSUME JournalAssumption ==
    /\ Settings \subseteq [wake : Nat \ {0}, audit : Nat \ {0}]
    /\ "success" \in Codes
    /\ Defaults \in Settings
    /\ Hours \in Nat \ {0} /\ SessionLength \in Nat
    /\ Processes \cap Requests = {}
    /\ IsFiniteSet(Ids)
    /\ MaxTime \in Nat /\ MaxUpdates \in Nat /\ MaxFailures \in Nat

VARIABLES
    clock,
    row,            \* the tables
    days,           \* the two retention columns of application_settings
    advisory,       \* cleaners whose connection has the advisory lock
    cleaner,        \* where each clean-up is
    view,           \* the dashboard in progress
    updates,        \* changes of the settings so far
    failures,       \* failures so far
    inForce,        \* history: settings since the advisory lock was taken
    seen            \* history: rows of the period since the dashboard began

cleanVars == <<advisory, cleaner, inForce>>
viewVars == <<view, seen>>
vars == <<clock, row, days, advisory, cleaner, view, updates, failures,
          inForce, seen>>

Row == [table : Tables, at : 0 .. MaxTime + SessionLength, code : Codes]
ASSUME NothingDistinct == Nothing \notin Row

Steps == {"off", "idle", "settings", "delete", "unlock"}
\* A clean-up, the time it started at and the settings it has read.
At(step) == [step |-> step, now |-> 0, days |-> Nothing]

NotRunning ==
    [c \in Cleaners |-> At(IF c \in Processes THEN "off" ELSE "idle")]

NoCounts == [c \in Codes |-> 0]
NoView == [open |-> FALSE, end |-> 0, series |-> NoCounts, bucket |-> 0]

Existing == {i \in Ids : row[i] # Nothing}
In(table) == {i \in Existing : row[i].table = table}

Init ==
    /\ clock = 0
    /\ row = [i \in Ids |-> Nothing]
    /\ days = Defaults
    /\ advisory = {}
    /\ cleaner = NotRunning
    /\ view = NoView
    /\ updates = 0 /\ failures = 0
    /\ inForce = {} /\ seen = {}

-----------------------------------------------------------------------------
(***************************************************************************)
(* The dashboard counts wake events by result_code in one query per bucket *)
(* of the period that ends when it begins.                                 *)
(***************************************************************************)
Start == view.end - Hours
BucketStart == Start + view.bucket

\* Mutant: buckets include both of their ends.
InBucketTwice(i) == BucketStart <= row[i].at /\ row[i].at <= BucketStart + 1

InBucket(i) == BucketStart <= row[i].at /\ row[i].at < BucketStart + 1

Counts(S) == [c \in Codes |-> Cardinality({i \in S : row[i].code = c})]

DashboardBegin ==
    /\ ~view.open
    /\ view' = [NoView EXCEPT !.open = TRUE, !.end = clock]
    /\ seen' = {i \in In("wake") : row[i].at >= clock - Hours}
    /\ UNCHANGED <<clock, row, days, cleanVars, updates, failures>>

DashboardBucket ==
    /\ view.open /\ view.bucket < Hours
    /\ LET bucket == Counts({i \in In("wake") : InBucket(i)})
       IN  view' = [view EXCEPT !.bucket = @ + 1,
               !.series = [c \in Codes |-> view.series[c] + bucket[c]]]
    /\ UNCHANGED <<clock, row, days, cleanVars, updates, failures, seen>>

DashboardReturn ==
    /\ view.open /\ view.bucket = Hours
    /\ view' = NoView
    /\ seen' = {}
    /\ UNCHANGED <<clock, row, days, cleanVars, updates, failures>>

-----------------------------------------------------------------------------
(***************************************************************************)
(* Rows are inserted by listener threads, services and logins.             *)
(***************************************************************************)
\* A transaction that began at made commits the new row i.
NewRow(i, table, code, made) ==
    /\ row[i] = Nothing /\ i \notin seen
    /\ made \in clock - CommitLag .. clock
    /\ row' = [row EXCEPT ![i] = [table |-> table, code |-> code,
           at |-> IF table = "session" THEN made + SessionLength ELSE made]]

Insert(i, table, code, made) ==
    /\ NewRow(i, table, code, made)
    /\ table # "wake" => code = "success"
    /\ seen' = IF view.open /\ table = "wake" /\ made >= Start
               THEN seen \cup {i} ELSE seen
    /\ UNCHANGED <<clock, days, cleanVars, view, updates, failures>>

\* update_retention, which also writes an audit event.
UpdateRetention(new, i, made) ==
    /\ NewRow(i, "audit", "success", made)
    /\ new # days /\ updates < MaxUpdates
    /\ days' = new
    /\ updates' = updates + 1
    /\ inForce' = IF advisory = {} THEN inForce ELSE inForce \cup {new}
    /\ UNCHANGED <<clock, advisory, cleaner, viewVars, failures>>

-----------------------------------------------------------------------------
(***************************************************************************)
(* RetentionWorker and RetentionService.cleanup.                           *)
(***************************************************************************)
Goto(c, step) == cleaner' = [cleaner EXCEPT ![c].step = step]
ToFinally(c) == cleaner' = [cleaner EXCEPT ![c] = At("unlock")]
Return(c) == cleaner' = [cleaner EXCEPT ![c] = At("idle")]

StartWorker(p) ==
    /\ cleaner[p].step = "off"
    /\ Goto(p, "idle")
    /\ UNCHANGED <<clock, row, days, advisory, inForce, viewVars,
                   updates, failures>>

\* The clean-up that has the advisory lock, and the time it began at.
Locked(c) ==
    cleaner' = [cleaner EXCEPT ![c] = [At("settings") EXCEPT !.now = clock]]

\* Mutant: the result of pg_try_advisory_lock is ignored.
CleanupUnlocked(c) ==
    /\ cleaner[c].step = "idle"
    /\ Locked(c)
    /\ advisory' = advisory \cup {c}
    /\ inForce' = {days}
    /\ UNCHANGED <<clock, row, days, viewVars, updates, failures>>

\* The hour is over, or an administrator asks for a clean-up.  When
\* pg_try_advisory_lock says no, cleanup returns and nothing has changed.
Cleanup(c) ==
    /\ cleaner[c].step = "idle" /\ advisory = {}
    /\ Locked(c)
    /\ advisory' = {c}
    /\ inForce' = {days}
    /\ UNCHANGED <<clock, row, days, viewVars, updates, failures>>

ReadSettings(c) ==
    /\ cleaner[c].step = "settings"
    /\ cleaner' = [cleaner EXCEPT ![c].step = "delete", ![c].days = days]
    /\ UNCHANGED <<clock, row, days, advisory, inForce, viewVars,
                   updates, failures>>

\* Mutant: wake events are kept as long as audit events and the reverse.
ExpiredSwapped(i, now, kept) ==
    row[i].at < now - (CASE row[i].table = "wake" -> kept.audit
                         [] row[i].table = "audit" -> kept.wake
                         [] OTHER -> 0)

Expired(i, now, kept) ==
    row[i].at < now - (CASE row[i].table = "wake" -> kept.wake
                         [] row[i].table = "audit" -> kept.audit
                         [] OTHER -> 0)

Delete(c) ==
    /\ cleaner[c].step = "delete"
    /\ row' = [i \in Ids |->
           IF i \in Existing /\ Expired(i, cleaner[c].now, cleaner[c].days)
           THEN Nothing ELSE row[i]]
    /\ ToFinally(c)
    /\ UNCHANGED <<clock, days, advisory, inForce, viewVars,
                   updates, failures>>

Unlock(c) ==
    /\ cleaner[c].step = "unlock"
    /\ advisory' = advisory \ {c}
    /\ inForce' = {}
    /\ Return(c)
    /\ UNCHANGED <<clock, row, days, viewVars, updates, failures>>

\* Mutant: the lock is given up only after a clean-up that succeeded.
CleanupFailsLocked(c) ==
    /\ cleaner[c].step \in {"settings", "delete"} /\ failures < MaxFailures
    /\ failures' = failures + 1
    /\ Return(c)
    /\ UNCHANGED <<clock, row, days, advisory, inForce, viewVars, updates>>

\* A query raises: the transaction is rolled back and the finally clause runs.
CleanupFails(c) ==
    /\ cleaner[c].step \in {"settings", "delete"} /\ failures < MaxFailures
    /\ failures' = failures + 1
    /\ ToFinally(c)
    /\ UNCHANGED <<clock, row, days, advisory, inForce, viewVars, updates>>

\* The process of a clean-up stops or is killed; PostgreSQL ends the session
\* of its connection, and the lock with it.
ProcessEnds(c) ==
    /\ cleaner[c] # NotRunning[c] /\ failures < MaxFailures
    /\ failures' = failures + 1
    /\ cleaner' = [cleaner EXCEPT ![c] = NotRunning[c]]
    /\ advisory' = advisory \ {c}
    /\ inForce' = IF c \in advisory THEN {} ELSE inForce
    /\ UNCHANGED <<clock, row, days, viewVars, updates>>

Tick ==
    /\ clock < MaxTime
    /\ clock' = clock + 1
    /\ UNCHANGED <<row, days, cleanVars, viewVars, updates, failures>>

-----------------------------------------------------------------------------
CleanupStep(c) ==
    \/ ReadSettings(c) \/ Delete(c) \/ Unlock(c)

WorkerStep(p) == StartWorker(p) \/ Cleanup(p) \/ CleanupStep(p)

Next ==
    \/ \E p \in Processes : WorkerStep(p)
    \/ \E r \in Requests : Cleanup(r) \/ CleanupStep(r)
    \/ \E c \in Cleaners : CleanupFails(c) \/ ProcessEnds(c)
    \/ \E i \in Ids, table \in Tables, code \in Codes, made \in Time :
           Insert(i, table, code, made)
    \/ \E new \in Settings, i \in Ids, made \in Time :
           UpdateRetention(new, i, made)
    \/ DashboardBegin \/ DashboardBucket \/ DashboardReturn
    \/ Tick

Spec == Init /\ [][Next]_vars

\* The worker thread is scheduled and its hourly wait ends; a clean-up that an
\* administrator has asked for goes on.  Nobody has to ask for one.
Fairness ==
    /\ \A p \in Processes : WF_vars(WorkerStep(p))
    /\ \A r \in Requests : WF_vars(CleanupStep(r))

FairSpec == Spec /\ Fairness

-----------------------------------------------------------------------------
(***************************************************************************)
(* Properties.                                                             *)
(***************************************************************************)
TypeOK ==
    /\ clock \in Time
    /\ row \in [Ids -> Row \cup {Nothing}]
    /\ days \in Settings /\ inForce \subseteq Settings
    /\ advisory \subseteq Cleaners
    /\ cleaner \in [Cleaners -> [step : Steps, now : Time,
                                 days : Settings \cup {Nothing}]]
    /\ view \in [open : BOOLEAN, end : Time, series : [Codes -> Nat],
                 bucket : 0 .. Hours]
    /\ updates \in 0 .. MaxUpdates /\ failures \in 0 .. MaxFailures
    /\ seen \subseteq Ids

(* docs/design/06: the advisory lock "permits only one cleanup transaction  *)
(* across multiple processes", and a clean-up that raises or whose process  *)
(* dies does not keep it.                                                   *)
OneCleaner ==
    /\ \A c \in Cleaners :
           cleaner[c].step \in {"settings", "delete", "unlock"} <=> c \in advisory
    /\ Cardinality(advisory) <= 1

(* cleanup() never removes a row that the retention settings protect: a     *)
(* removed row is older, now, than settings that were in force while the    *)
(* clean-up ran, although administrators change them meanwhile; a session that is   *)
(* removed has expired.                                                     *)
NoEarlyDeletion ==
    [][\A i \in Existing : row'[i] = Nothing =>
          CASE row[i].table = "session" -> row[i].at < clock
            [] row[i].table = "wake" ->
                   \E kept \in inForce : clock - row[i].at > kept.wake
            [] row[i].table = "audit" ->
                   \E kept \in inForce : clock - row[i].at > kept.audit]_vars

(* A dashboard never counts an event in two buckets, and none that was not  *)
(* there while it was made, although events arrive and expire between its   *)
(* queries: by result code, the series adds up to at most the events of the *)
(* period that were visible at some time.                                   *)
SeriesCountsOnce ==
    LET visible == {i \in seen : row[i] # Nothing}
        removed == Cardinality(seen) - Cardinality(visible)
    IN  \A c \in Codes :
            view.series[c] <= Counts(visible)[c] + removed

(* The advisory lock has one holder, and the holder is the clean-up that    *)
(* runs; the settings a clean-up goes by were in force since it has the     *)
(* lock, and its time is not in the future.                                 *)
LockInv ==
    /\ \A c \in Cleaners :
           cleaner[c].step \in {"settings", "delete", "unlock"} <=> c \in advisory
    /\ \A c, d \in advisory : c = d
    /\ \A c \in Cleaners :
           /\ cleaner[c].step = "settings" => days \in inForce
           /\ cleaner[c].step = "delete" => cleaner[c].days \in inForce
           /\ cleaner[c].now <= clock

(* Every wake event of the period is known to the history, and what the     *)
(* series holds by now are events of the buckets so far or removed ones.    *)
Counted(c) ==
    {i \in seen : row[i] # Nothing => row[i].code = c /\ row[i].at < BucketStart}

SeriesInv ==
    /\ \A i \in In("wake") : view.open /\ row[i].at >= Start => i \in seen
    /\ \A c \in Codes : view.series[c] <= Cardinality(Counted(c))

(* No row stays for ever past the retention in force: some process removes  *)
(* it, however clean-ups collide, fail and are killed with the lock held.   *)
ExpiredRemoved ==
    \A i \in Ids :
        []<>~(/\ i \in Existing
              /\ \/ row[i].table = "session" /\ row[i].at < clock
                 \/ row[i].table = "wake" /\ clock - row[i].at > days.wake
                 \/ row[i].table = "audit" /\ clock - row[i].at > days.audit)

=============================================================================
