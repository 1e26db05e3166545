------------------------------ MODULE HostAgent ------------------------------
(***************************************************************************)
(* The host agent (host_agent/server.py): a root service that changes the  *)
(* published UDP range, the firewall and the release of the installation   *)
(* on behalf of the owner, and that keeps its own state in a JSON file.    *)
(*                                                                         *)
(* Every request has a thread of its own; a deployment, an upgrade or a    *)
(* rollback goes on in a thread that start_job creates, and here keeps the *)
(* identity of its request.  One step is one command, one file or one      *)
(* critical section.  A command may fail, and the agent may be restarted,  *)
(* by a crash or by the refresh that follows an upgrade, between any two   *)
(* steps.                                                                  *)
(*                                                                         *)
(* Published ranges are nested: range n contains every range below it, and *)
(* the firewall rule of a range is named by the range.  Releases are       *)
(* ordered, and the schema of a release is named by the release.           *)
(***************************************************************************)
EXTENDS Integers, FiniteSets

CONSTANTS
    Threads,        \* the requests that are explored, also the job ids
    MaxNetwork,     \* number of published ranges
    MaxRelease,     \* number of releases
    Ops,            \* the operations the owner asks for
    OneAtATime,     \* the owner waits for an operation before the next one
    Failing,        \* the <<operation, command>> pairs that may fail
    MaxFailures,    \* bound: commands that fail
    MaxCrashes,     \* bound: crashes of the agent
    MaxJobs         \* jobs kept in the state file, 20 in the code

Operations == {"apply", "deployment", "upgrade", "rollback"}
Commands == {"env", "ufw", "compose", "health", "release", "backup", "files",
             "restore"}

ASSUME HostAgentAssumption ==
    /\ MaxNetwork \in Nat \ {0}
    /\ MaxRelease \in Nat \ {0}
    /\ Ops \subseteq Operations
    /\ OneAtATime \in BOOLEAN
    /\ Failing \subseteq Operations \X Commands
    /\ MaxFailures \in Nat
    /\ MaxCrashes \in Nat
    /\ MaxJobs \in Nat \ {0}

Networks == 1 .. MaxNetwork
Releases == 1 .. MaxRelease
None == 0           \* no rule, a key that is not set, an empty database
Mixed == 0          \* runtime files of two releases
Absent == -1        \* no such file; no such key in the rollback record

VARIABLES
    env,            \* .env.web: the published range and the image
    ufw,            \* the WOLT-managed rules of the firewall
    runtime,        \* the release of the Compose, script and agent files
    app,            \* the application's container
    db,             \* the database: its schema, and whether it has the data
    active,         \* application_settings: the range listeners may use
    dump,           \* database backup made by each upgrade
    files,          \* runtime backup made by each upgrade
    store,          \* the state file
    jobs,           \* HostController.jobs, in memory
    th,             \* the thread of each request
    refresh,        \* an agent refresh is scheduled
    failures, crashes,      \* counters for the bounds
    alarm           \* history: automatic_upgrade_rollback_failed was logged

host == <<env, ufw, runtime, app, db, dump, files>>
vars == <<host, active, store, jobs, th, refresh, failures, crashes, alarm>>

Rules == Networks \cup {None}
EnvFile == [net : Networks, img : Releases]
EnvChanges == [net : Networks \cup {None}, img : Releases \cup {None}]
Container == [net : Networks, img : Releases, up : BOOLEAN]
Database == [schema : Releases \cup {None}, data : BOOLEAN]
EmptyDatabase == [schema |-> None, data |-> FALSE]
NoDump == [schema |-> Absent, data |-> FALSE]
Rollback == [env : EnvChanges, firewall : Rules \cup {Absent},
             backup : SUBSET Threads]
NoChanges == [net |-> None, img |-> None]
NoRollback == [env |-> NoChanges, firewall |-> Absent, backup |-> {}]
\* "unhealthy" is failed with the error deployment_health_check_failed.
JobStatus == {"none", "running", "succeeded", "failed", "unhealthy"}
State == [firewall : Rules, rollback : Rollback, jobs : [Threads -> JobStatus]]
NoJobs == [t \in Threads |-> "none"]
NoState == [firewall |-> None, rollback |-> NoRollback, jobs |-> NoJobs]

JobSteps == {"check", "save", "saveLoad", "saveWrite", "refresh", "depRead",
             "prepare", "backup", "copyFiles", "deployFiles", "unmix",
             "rollback", "env", "up", "health", "restoreFiles", "dbStop",
             "dbDrop", "dbLoad", "recLoad", "unlink", "recWrite"}
FirewallSteps == {"fwRead", "fwDelete", "fwAdd", "fwLoad", "fwWrite",
                  "rmRead", "rmDelete", "rmWrite"}
Thread == [pc : JobSteps \cup FirewallSteps \cup {"idle", "done", "dead"},
           op : Operations,         \* the request
           arg : Nat,               \* its range or its release
           undo : BOOLEAN,          \* the changes are being taken back
           status : JobStatus,      \* what _save_job is called with
           env : EnvChanges,        \* rollback_env
           firewall : Rules \cup {Absent},  \* previous_firewall
           backup : SUBSET Threads, \* whose backups to restore
           copy : State]            \* the state as it was read
NewThread == [pc |-> "idle", op |-> "apply", arg |-> None, undo |-> FALSE,
              status |-> "none", env |-> NoChanges, firewall |-> Absent,
              backup |-> {}, copy |-> NoState]

\* The installation runs one release and publishes one range, which covers the
\* active one; the agent has no rule yet.
Init ==
    /\ env \in EnvFile
    /\ ufw = {}
    /\ runtime = env.img
    /\ app = [net |-> env.net, img |-> env.img, up |-> TRUE]
    /\ db = [schema |-> env.img, data |-> TRUE]
    /\ active \in 1 .. env.net
    /\ dump = [t \in Threads |-> NoDump]
    /\ files = [t \in Threads |-> Absent]
    /\ store = NoState
    /\ jobs = NoJobs
    /\ th = [t \in Threads |-> NewThread]
    /\ refresh = FALSE
    /\ failures = 0
    /\ crashes = 0
    /\ alarm = {}

-----------------------------------------------------------------------------
At(t, step) == th[t].pc = step

\* A thread that ends leaves what it was asked for and its outcome, no locals.
Ended(t, how) ==
    [NewThread EXCEPT !.pc = how, !.op = th[t].op, !.status = th[t].status]
Goto(t, step) ==
    th' = [th EXCEPT ![t] = IF step = "done" THEN Ended(t, step)
                            ELSE [@ EXCEPT !.pc = step]]
Over(t) == th[t].pc \in {"idle", "done", "dead"}
Calm == \A t \in Threads : Over(t)
OwnerFree == OneAtATime => Calm

\* _save_job is called with the outcome of the job.
Finish(t, outcome) ==
    th' = [th EXCEPT ![t].pc = "save", ![t].status = outcome]

\* Leaves everything alone but the thread itself.
ThreadOnly ==
    UNCHANGED <<host, active, store, jobs, refresh, failures, crashes, alarm>>
\* Leaves everything alone but the thread and the host.
HostOnly == UNCHANGED <<active, store, jobs, refresh, failures, crashes, alarm>>

-----------------------------------------------------------------------------
(***************************************************************************)
(* Requests.  The route of a deployment compares the range with the active *)
(* one before it calls the agent.                                          *)
(***************************************************************************)
RequestDeployment(t, n) ==
    /\ "deployment" \in Ops /\ At(t, "idle") /\ OwnerFree
    /\ app.up
    /\ active <= n
    /\ th' = [th EXCEPT ![t].pc = "check", ![t].op = "deployment", ![t].arg = n]
    /\ ThreadOnly

RequestUpgrade(t, r) ==
    /\ "upgrade" \in Ops /\ At(t, "idle") /\ OwnerFree
    /\ app.up
    /\ th' = [th EXCEPT ![t].pc = "check", ![t].op = "upgrade", ![t].arg = r]
    /\ ThreadOnly

RequestRollback(t) ==
    /\ "rollback" \in Ops /\ At(t, "idle") /\ OwnerFree
    /\ app.up
    /\ th' = [th EXCEPT ![t].pc = "check", ![t].op = "rollback"]
    /\ ThreadOnly

RequestFirewall(t, n) ==
    /\ "apply" \in Ops /\ At(t, "idle") /\ OwnerFree
    /\ app.up
    /\ th' = [th EXCEPT ![t].pc = "fwRead", ![t].op = "apply", ![t].arg = n]
    /\ ThreadOnly

\* update_udp_range in the application, within the range its own container
\* publishes; how it excludes mappings is in Inventory.
SetActiveRange(n) ==
    /\ app.up /\ OwnerFree
    /\ n <= app.net
    /\ n # active
    /\ active' = n
    /\ UNCHANGED <<host, store, jobs, th, refresh, failures, crashes, alarm>>

-----------------------------------------------------------------------------
(***************************************************************************)
(* start_job and _save_job.  The check and the registration of the job are *)
(* two critical sections; the state file is read and written under a lock, *)
(* but not between the two.                                                *)
(***************************************************************************)
StartJob(t) ==
    /\ At(t, "check")
    /\ IF \E u \in Threads : jobs[u] = "running"
       THEN Goto(t, "done")
       ELSE Finish(t, "running")
    /\ ThreadOnly

\* Mutant: the outcome is not written to the file.
SaveJobInMemory(t) ==
    /\ At(t, "save")
    /\ jobs' = [jobs EXCEPT ![t] = th[t].status]
    /\ Goto(t, IF th[t].status = "running" THEN "saveLoad" ELSE "done")
    /\ UNCHANGED <<host, active, store, refresh, failures, crashes, alarm>>

SaveJob(t) ==
    /\ At(t, "save")
    /\ jobs' = [jobs EXCEPT ![t] = th[t].status]
    /\ Goto(t, "saveLoad")
    /\ UNCHANGED <<host, active, store, refresh, failures, crashes, alarm>>

SaveLoad(t) ==
    /\ At(t, "saveLoad")
    /\ th' = [th EXCEPT ![t].pc = "saveWrite", ![t].copy = store]
    /\ ThreadOnly

\* An upgrade, and a rollback that restored runtime files, refresh the agent.
RestartAgent(t) == \/ th[t].op = "upgrade"
                   \/ th[t].op = "rollback" /\ th[t].backup # {}

AfterSave(t) ==
    CASE th[t].status \in {"failed", "unhealthy"} -> "done"
      [] th[t].status = "succeeded" ->
            IF RestartAgent(t) THEN "refresh" ELSE "done"
      [] OTHER -> CASE th[t].op = "deployment" -> "depRead"
                    [] th[t].op = "upgrade" -> "prepare"
                    [] OTHER -> "rollback"

\* Beyond MaxJobs the first jobs of the file go: it is sorted by id, and ids
\* are random.
SaveWrite(t) ==
    /\ At(t, "saveWrite")
    /\ LET saved == [th[t].copy.jobs EXCEPT ![t] = th[t].status]
           recorded == {u \in Threads : saved[u] # "none"}
       IN \E gone \in SUBSET (recorded \ {t}) :
            /\ Cardinality(gone) =
                 IF Cardinality(recorded) > MaxJobs
                 THEN Cardinality(recorded) - MaxJobs ELSE 0
            /\ store' = [th[t].copy EXCEPT !.jobs =
                 [u \in Threads |-> IF u \in gone THEN "none" ELSE saved[u]]]
    /\ Goto(t, AfterSave(t))
    /\ UNCHANGED <<host, active, jobs, refresh, failures, crashes, alarm>>

\* _schedule_agent_refresh: without systemd-run or the installer it is put off.
ScheduleRefresh(t) ==
    /\ At(t, "refresh")
    /\ refresh' \in {refresh, TRUE}
    /\ Goto(t, "done")
    /\ UNCHANGED <<host, active, store, jobs, failures, crashes, alarm>>

-----------------------------------------------------------------------------
(***************************************************************************)
(* apply_firewall and remove_firewall, called by a request or by a job.    *)
(***************************************************************************)
\* The rule that is to be in force: taking changes back, the previous one.
WantedRule(t) == IF th[t].undo \/ th[t].op = "rollback"
                 THEN th[t].firewall ELSE th[t].arg

FirewallEntry(t) == IF WantedRule(t) = None THEN "rmRead" ELSE "fwRead"
AfterFirewall(t) == IF th[t].op = "apply" THEN "done" ELSE "up"

\* Mutant: the previous rule is not removed.
ReadPreviousKeeps(t) ==
    /\ At(t, "fwRead")
    /\ th' = [th EXCEPT ![t].copy = store,
                ![t].pc = "fwAdd"]
    /\ ThreadOnly

ReadPrevious(t) ==
    /\ At(t, "fwRead")
    /\ th' = [th EXCEPT ![t].copy = store,
                ![t].pc = IF store.firewall \in {None, WantedRule(t)}
                          THEN "fwAdd" ELSE "fwDelete"]
    /\ ThreadOnly

DeletePrevious(t) ==
    /\ At(t, "fwDelete")
    /\ ufw' = ufw \ {th[t].copy.firewall}
    /\ Goto(t, "fwAdd")
    /\ UNCHANGED <<env, runtime, app, db, dump, files>> /\ HostOnly

AddRule(t) ==
    /\ At(t, "fwAdd")
    /\ ufw' = ufw \cup {WantedRule(t)}
    /\ Goto(t, "fwLoad")
    /\ UNCHANGED <<env, runtime, app, db, dump, files>> /\ HostOnly

LoadForRule(t) ==
    /\ At(t, "fwLoad")
    /\ th' = [th EXCEPT ![t].pc = "fwWrite", ![t].copy = store]
    /\ ThreadOnly

WriteRule(t) ==
    /\ At(t, "fwWrite")
    /\ store' = [th[t].copy EXCEPT !.firewall = WantedRule(t)]
    /\ Goto(t, AfterFirewall(t))
    /\ UNCHANGED <<host, active, jobs, refresh, failures, crashes, alarm>>

ReadRule(t) ==
    /\ At(t, "rmRead")
    /\ th' = [th EXCEPT ![t].copy = store,
                ![t].pc = IF store.firewall = None THEN AfterFirewall(t)
                          ELSE "rmDelete"]
    /\ ThreadOnly

DeleteRule(t) ==
    /\ At(t, "rmDelete")
    /\ ufw' = ufw \ {th[t].copy.firewall}
    /\ Goto(t, "rmWrite")
    /\ UNCHANGED <<env, runtime, app, db, dump, files>> /\ HostOnly

ForgetRule(t) ==
    /\ At(t, "rmWrite")
    /\ store' = [th[t].copy EXCEPT !.firewall = None]
    /\ Goto(t, AfterFirewall(t))
    /\ UNCHANGED <<host, active, jobs, refresh, failures, crashes, alarm>>

-----------------------------------------------------------------------------
(***************************************************************************)
(* How a job begins: it reads what it will have to restore.                *)
(***************************************************************************)
DeploymentReads(t) ==
    /\ At(t, "depRead")
    /\ th' = [th EXCEPT ![t].pc = "env",
                ![t].env = [NoChanges EXCEPT !.net = env.net],
                ![t].firewall = store.firewall]
    /\ ThreadOnly

\* _verified_image, the pull and _extract_runtime change nothing that lasts.
PrepareRelease(t) ==
    /\ At(t, "prepare")
    /\ th' = [th EXCEPT ![t].pc = "backup",
                ![t].env = [NoChanges EXCEPT !.img = env.img],
                ![t].backup = {t}]
    /\ ThreadOnly

DatabaseBackup(t) ==
    /\ At(t, "backup")
    /\ dump' = [dump EXCEPT ![t] = db]
    /\ Goto(t, "copyFiles")
    /\ UNCHANGED <<env, ufw, runtime, app, db, files>> /\ HostOnly

CopyRuntime(t) ==
    /\ At(t, "copyFiles")
    /\ files' = [files EXCEPT ![t] = runtime]
    /\ Goto(t, "deployFiles")
    /\ UNCHANGED <<env, ufw, runtime, app, db, dump>> /\ HostOnly

DeployRuntime(t) ==
    /\ At(t, "deployFiles")
    /\ runtime' = th[t].arg
    /\ Goto(t, "env")
    /\ UNCHANGED <<env, ufw, app, db, dump, files>> /\ HostOnly

ReadRollback(t) ==
    /\ At(t, "rollback")
    /\ LET rollback == store.rollback
       IN IF rollback.env = NoChanges
          THEN Finish(t, "failed")
          ELSE th' = [th EXCEPT ![t].pc = "env", ![t].env = rollback.env,
                        ![t].firewall = rollback.firewall,
                        ![t].backup = rollback.backup]
    /\ ThreadOnly

-----------------------------------------------------------------------------
(***************************************************************************)
(* The commands that jobs share.                                           *)
(***************************************************************************)
\* Mutant: the other keys of the file are not preserved.
UpdateOverwrites(file, changes) ==
    [net |-> changes.net, img |-> changes.img]

Update(file, changes) ==
    [net |-> IF changes.net = None THEN file.net ELSE changes.net,
     img |-> IF changes.img = None THEN file.img ELSE changes.img]

\* The keys the job changes, or those it puts back.
Changes(t) ==
    CASE th[t].undo \/ th[t].op = "rollback" -> th[t].env
      [] th[t].op = "deployment" /\ ~th[t].undo ->
            [NoChanges EXCEPT !.net = th[t].arg]
      [] OTHER -> [NoChanges EXCEPT !.img = th[t].arg]

\* Mutant: a deployment that is taken back leaves the firewall alone.
AfterEnvKeepsRule(t) ==
    CASE th[t].op = "deployment" -> IF th[t].undo THEN "up" ELSE FirewallEntry(t)
      [] th[t].op = "upgrade" -> IF th[t].undo THEN "restoreFiles" ELSE "up"
      [] OTHER -> IF th[t].backup # {} THEN "restoreFiles" ELSE FirewallEntry(t)

AfterEnv(t) ==
    CASE th[t].op = "deployment" -> FirewallEntry(t)
      [] th[t].op = "upgrade" -> IF th[t].undo THEN "restoreFiles" ELSE "up"
      [] OTHER -> IF th[t].backup # {} THEN "restoreFiles" ELSE FirewallEntry(t)

UpdateEnv(t) ==
    /\ At(t, "env")
    /\ env' = Update(env, Changes(t))
    /\ Goto(t, AfterEnv(t))
    /\ UNCHANGED <<ufw, runtime, app, db, dump, files>> /\ HostOnly

\* Compose recreates the application from .env.web; at its start the image
\* migrates an older, or an empty, database to its own schema.
Migrate(d, release) ==
    IF d.schema <= release THEN [d EXCEPT !.schema = release] ELSE d

RecreateApp ==
    /\ app' = [net |-> env.net, img |-> env.img, up |-> TRUE]
    /\ db' = Migrate(db, env.img)

ComposeUp(t) ==
    /\ At(t, "up")
    /\ RecreateApp
    /\ IF ~th[t].undo THEN Goto(t, "health")
       ELSE Finish(t, IF th[t].op = "deployment" THEN "unhealthy" ELSE "failed")
    /\ UNCHANGED <<env, ufw, runtime, dump, files>> /\ HostOnly

\* The readiness endpoint: the database answers with the schema of the image.
Ready == app.up /\ db.schema = app.img

\* A job that takes its changes back starts with the environment.
Undo(t) == th' = [th EXCEPT ![t].undo = TRUE, ![t].pc = "env"]

HealthCheck(t) ==
    /\ At(t, "health")
    /\ IF Ready
       THEN IF th[t].op = "rollback" THEN Finish(t, "succeeded")
            ELSE Goto(t, "recLoad")
       ELSE IF th[t].op = "rollback" THEN Finish(t, "failed")
            ELSE Undo(t)
    /\ ThreadOnly

\* _restore_runtime: of a failed upgrade or of a rollback.
RestoreRuntime(t) ==
    \E b \in th[t].backup :
        /\ At(t, "restoreFiles")
        /\ files[b] # Absent
        /\ runtime' = files[b]
        /\ Goto(t, "dbStop")
        /\ UNCHANGED <<env, ufw, app, db, dump, files>> /\ HostOnly

\* _database_restore: stop the application, drop and create the database, and
\* load the backup.
StopApp(t) ==
    \E b \in th[t].backup :
        /\ At(t, "dbStop")
        /\ dump[b] # NoDump
        /\ app' = [app EXCEPT !.up = FALSE]
        /\ Goto(t, "dbDrop")
        /\ UNCHANGED <<env, ufw, runtime, db, dump, files>> /\ HostOnly

DropDatabase(t) ==
    /\ At(t, "dbDrop")
    /\ db' = EmptyDatabase
    /\ Goto(t, "dbLoad")
    /\ UNCHANGED <<env, ufw, runtime, app, dump, files>> /\ HostOnly

LoadDatabase(t) ==
    \E b \in th[t].backup :
        /\ At(t, "dbLoad")
        /\ dump[b] # NoDump
        /\ db' = dump[b]
        /\ Goto(t, "up")
        /\ UNCHANGED <<env, ufw, runtime, app, dump, files>> /\ HostOnly

-----------------------------------------------------------------------------
(***************************************************************************)
(* A successful job records how to take it back.  An upgrade first removes *)
(* the backups of the record it replaces.                                  *)
(***************************************************************************)
LoadForRecord(t) ==
    /\ At(t, "recLoad")
    /\ th' = [th EXCEPT ![t].copy = store,
                ![t].pc = IF /\ th[t].op = "upgrade"
                             /\ store.rollback.backup # {}
                          THEN "unlink" ELSE "recWrite"]
    /\ ThreadOnly

\* Mutant: the new backups are removed, not the previous ones.
UnlinkNew(t) ==
    /\ At(t, "unlink")
    /\ LET old == th[t].backup
       IN /\ dump' = [u \in Threads |-> IF u \in old THEN NoDump ELSE dump[u]]
          /\ files' = [u \in Threads |-> IF u \in old THEN Absent ELSE files[u]]
    /\ Goto(t, "recWrite")
    /\ UNCHANGED <<env, ufw, runtime, app, db>> /\ HostOnly

UnlinkPrevious(t) ==
    /\ At(t, "unlink")
    /\ LET old == th[t].copy.rollback.backup
       IN /\ dump' = [u \in Threads |-> IF u \in old THEN NoDump ELSE dump[u]]
          /\ files' = [u \in Threads |-> IF u \in old THEN Absent ELSE files[u]]
    /\ Goto(t, "recWrite")
    /\ UNCHANGED <<env, ufw, runtime, app, db>> /\ HostOnly

WriteRecord(t) ==
    /\ At(t, "recWrite")
    /\ store' = [th[t].copy EXCEPT !.rollback =
                    [env |-> th[t].env, firewall |-> th[t].firewall,
                     backup |-> th[t].backup]]
    /\ Finish(t, "succeeded")
    /\ UNCHANGED <<host, active, jobs, refresh, failures, crashes, alarm>>

-----------------------------------------------------------------------------
(***************************************************************************)
(* Failures.                                                               *)
(***************************************************************************)
CommandAt(step) ==
    CASE step = "env" -> "env"
      [] step \in {"fwDelete", "fwAdd", "rmDelete"} -> "ufw"
      [] step \in {"up", "dbStop"} -> "compose"
      [] step = "health" -> "health"
      [] step = "prepare" -> "release"
      [] step = "backup" -> "backup"
      [] step \in {"copyFiles", "deployFiles", "restoreFiles", "unmix"} -> "files"
      [] step \in {"dbDrop", "dbLoad"} -> "restore"
      [] OTHER -> "none"

\* Mutant: only a failed health check takes an upgrade back.
RaiseUnhealthyOnly(t) ==
    LET step == th[t].pc
    IN  CASE th[t].op = "apply" -> Goto(t, "done")
          [] step = "deployFiles" -> Goto(t, "unmix")
          [] /\ th[t].op = "upgrade" /\ ~th[t].undo
             /\ step = "health" -> Undo(t)
          [] /\ th[t].op = "deployment" /\ step = "health" -> Undo(t)
          [] OTHER -> Finish(t, "failed")

\* Where the exception goes: an upgrade takes its changes back once there are
\* both backups, _deploy_runtime restores the files itself, a deployment takes
\* its changes back only after the health check, and every other exception
\* makes the job fail.
Raise(t) ==
    LET step == th[t].pc
    IN  CASE th[t].op = "apply" -> Goto(t, "done")
          [] step = "deployFiles" -> Goto(t, "unmix")
          [] /\ th[t].op = "upgrade" /\ ~th[t].undo
             /\ step \in {"env", "up", "health"} -> Undo(t)
          [] /\ th[t].op = "deployment" /\ step = "health" -> Undo(t)
          [] OTHER -> Finish(t, "failed")

\* The handler of the automatic rollback logs that it failed.
Log(t) == alarm' = IF th[t].op = "upgrade" /\ th[t].undo
                   THEN alarm \cup {t} ELSE alarm

\* Mutant: a failed restore removes the backup it read.
PartialEffectCleans(t) ==
    /\ app' \in IF At(t, "up") THEN {app, [app EXCEPT !.up = FALSE]} ELSE {app}
    /\ runtime' \in IF th[t].pc \in {"deployFiles", "restoreFiles", "unmix"}
                    THEN {runtime, Mixed} ELSE {runtime}
    /\ dump' = IF At(t, "dbLoad") THEN [dump EXCEPT ![t] = NoDump] ELSE dump
    /\ UNCHANGED <<env, ufw, db, files>>

\* What a command that fails may have done.
PartialEffect(t) ==
    /\ app' \in IF At(t, "up") THEN {app, [app EXCEPT !.up = FALSE]} ELSE {app}
    /\ runtime' \in IF th[t].pc \in {"deployFiles", "restoreFiles", "unmix"}
                    THEN {runtime, Mixed} ELSE {runtime}
    /\ db' \in IF At(t, "dbDrop") THEN {db, EmptyDatabase} ELSE {db}
    /\ UNCHANGED <<env, ufw, dump, files>>

CommandFails(t) ==
    /\ <<th[t].op, CommandAt(th[t].pc)>> \in Failing
    /\ ~Over(t)
    /\ failures < MaxFailures
    /\ failures' = failures + 1
    /\ PartialEffect(t)
    /\ Raise(t)
    /\ Log(t)
    /\ UNCHANGED <<active, store, jobs, refresh, crashes>>

\* _deploy_runtime restores the files and raises again.
RestoreAfterDeploy(t) ==
    /\ At(t, "unmix")
    /\ runtime' = files[t]
    /\ Finish(t, "failed")
    /\ UNCHANGED <<env, ufw, app, db, dump, files>> /\ HostOnly

\* The backup that a rollback names is gone.
BackupUnavailable(t) ==
    /\ \E b \in th[t].backup :
        \/ At(t, "restoreFiles") /\ files[b] = Absent
        \/ th[t].pc \in {"dbStop", "dbLoad"} /\ dump[b] = NoDump
    /\ Raise(t)
    /\ Log(t)
    /\ UNCHANGED <<host, active, store, jobs, refresh, failures, crashes>>

-----------------------------------------------------------------------------
(***************************************************************************)
(* The agent is restarted: its threads and jobs are gone, the state file   *)
(* stays, and nothing resumes a job.                                       *)
(***************************************************************************)
KillThreads ==
    /\ th' = [t \in Threads |-> IF Over(t) THEN th[t]
                                ELSE Ended(t, "dead")]
    /\ jobs' = NoJobs

Crash ==
    /\ crashes < MaxCrashes
    /\ crashes' = crashes + 1
    /\ KillThreads
    /\ runtime' \in IF \E t \in Threads :
                         th[t].pc \in {"deployFiles", "restoreFiles", "unmix"}
                    THEN {runtime, Mixed} ELSE {runtime}
    /\ UNCHANGED <<env, ufw, app, db, dump, files, active, store, refresh,
                   failures, alarm>>

\* Five seconds after it was scheduled the installer restarts the agent and
\* recreates the application.
AgentRefresh ==
    /\ refresh
    /\ refresh' = FALSE
    /\ KillThreads
    /\ RecreateApp
    /\ UNCHANGED <<env, ufw, runtime, dump, files, active, store, failures,
                   crashes, alarm>>

\* The administrator starts an application that a failed job left stopped.
OperatorStarts ==
    /\ ~app.up /\ Calm
    /\ RecreateApp
    /\ UNCHANGED <<env, ufw, runtime, dump, files, active, store, jobs, th,
                   refresh, failures, crashes, alarm>>

-----------------------------------------------------------------------------
JobStep(t) ==
    \/ StartJob(t) \/ SaveJob(t) \/ SaveLoad(t) \/ SaveWrite(t)
    \/ ScheduleRefresh(t)
    \/ DeploymentReads(t) \/ PrepareRelease(t) \/ DatabaseBackup(t)
    \/ CopyRuntime(t) \/ DeployRuntime(t) \/ RestoreAfterDeploy(t)
    \/ ReadRollback(t)
    \/ UpdateEnv(t) \/ ComposeUp(t) \/ HealthCheck(t)
    \/ RestoreRuntime(t) \/ StopApp(t) \/ DropDatabase(t) \/ LoadDatabase(t)
    \/ LoadForRecord(t) \/ UnlinkPrevious(t) \/ WriteRecord(t)
    \/ BackupUnavailable(t)

FirewallStep(t) ==
    \/ ReadPrevious(t) \/ DeletePrevious(t) \/ AddRule(t)
    \/ LoadForRule(t) \/ WriteRule(t)
    \/ ReadRule(t) \/ DeleteRule(t) \/ ForgetRule(t)

Step(t) == JobStep(t) \/ FirewallStep(t) \/ CommandFails(t)

Request(t) ==
    \/ \E n \in Networks : RequestDeployment(t, n) \/ RequestFirewall(t, n)
    \/ \E r \in Releases : RequestUpgrade(t, r)
    \/ RequestRollback(t)

Next ==
    \/ \E t \in Threads : Request(t) \/ Step(t)
    \/ \E n \in Networks : SetActiveRange(n)
    \/ Crash
    \/ AgentRefresh
    \/ OperatorStarts

Spec == Init /\ [][Next]_vars

-----------------------------------------------------------------------------
TypeOK ==
    /\ env \in EnvFile
    /\ ufw \subseteq Networks
    /\ runtime \in Releases \cup {Mixed}
    /\ app \in Container
    /\ db \in Database
    /\ active \in Networks
    /\ dump \in [Threads -> Database \cup {NoDump}]
    /\ files \in [Threads -> Releases \cup {Mixed, Absent}]
    /\ store \in State
    /\ jobs \in [Threads -> JobStatus]
    /\ th \in [Threads -> Thread]
    /\ refresh \in BOOLEAN
    /\ failures \in 0 .. MaxFailures
    /\ crashes \in 0 .. MaxCrashes
    /\ alarm \subseteq Threads

Uninterrupted == \A t \in Threads : ~At(t, "dead")
Undisturbed == Calm /\ Uninterrupted

\* A deployment failed before its health check; it is not taken back.
DeploymentBroke ==
    \E t \in Threads :
        At(t, "done") /\ th[t].op = "deployment" /\ th[t].status = "failed"

\* Whatever fails during an upgrade, and however often the owner upgrades,
\* downgrades and rolls back, the installation ends up on one release: the
\* environment, the container, the runtime files and the database agree, and the
\* data is there.  The exception is an automatic rollback that failed itself,
\* which the agent logs as critical, and a deployment whose compose command
\* failed may leave the application stopped (server.py, _execute_job).
CoherentRelease ==
    Undisturbed /\ alarm = {} =>
        /\ app.up \/ DeploymentBroke
        /\ app.img = env.img
        /\ runtime = env.img
        /\ db = [schema |-> env.img, data |-> TRUE]

\* The rollback record names backups that exist and that belong to the release
\* it goes back to (server.py, the end of an upgrade in _execute_job).
RollbackIntact ==
    Undisturbed /\ alarm = {} =>
        \A b \in store.rollback.backup :
            /\ dump[b].schema = store.rollback.env.img
            /\ files[b] = store.rollback.env.img

\* The users' data is in the database or in a backup on disk
\* (server.py, _database_backup, _database_restore and the unlink of the
\* previous backup).
DataRecoverable == db.data \/ \E t \in Threads : dump[t].data

\* The firewall has no managed rule but the recorded one
\* (server.py, apply_firewall and remove_firewall).
FirewallOwned == Undisturbed => ufw \subseteq {store.firewall}

\* In an agent that was never interrupted, a deployment that fails with
\* deployment_health_check_failed leaves the published range, the container, the
\* recorded rule and the firewall as it found them, whichever commands of this
\* or of earlier operations failed (server.py, the deployment in _execute_job).
\* Nothing takes back a deployment whose firewall or compose command fails.
DeploymentRestored ==
    Uninterrupted => \A t \in Threads :
        At(t, "save") /\ th[t].op = "deployment" /\ th[t].status = "unhealthy" =>
            /\ env.net = th[t].env.net
            /\ app.net = th[t].env.net
            /\ store.firewall = th[t].firewall
            /\ ufw = {th[t].firewall} \ {None}

\* The outcome of a job that has ended is in the state file, where it outlives
\* the agent (server.py, _save_job).
JobsSurvive ==
    \A t \in Threads :
        At(t, "done") /\ th[t].status # "none" => store.jobs[t] = th[t].status

=============================================================================
