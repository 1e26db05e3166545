--------------------------- MODULE HostAgentProofs ---------------------------
(***************************************************************************)
(* Proofs about HostAgent for any number of operations, ranges, releases,  *)
(* failures and restarts.                                                  *)
(***************************************************************************)
EXTENDS HostAgent, FiniteSetTheorems, TLAPS

Pcs == JobSteps \cup FirewallSteps \cup {"idle", "done", "dead"}
Active == JobSteps \cup FirewallSteps

FirewallAdds == {"fwRead", "fwDelete", "fwAdd", "fwLoad", "fwWrite"}
SaveSteps == {"save", "saveLoad", "saveWrite"}
RestoreSteps == {"restoreFiles", "dbStop", "dbDrop", "dbLoad"}
UpgradeSteps == {"prepare", "backup", "copyFiles", "deployFiles", "unmix"}
RecordSteps == {"recLoad", "unlink", "recWrite"}
Failed == {"failed", "unhealthy"}
\* Where a job has read what it will have to restore.
Prepared == {"env", "up", "health"} \cup RecordSteps \cup FirewallSteps
              \cup RestoreSteps

\* A record of a deployment names the rule it goes back to.
RecordOK(rollback) ==
    rollback.env # NoChanges /\ rollback.backup = {} => rollback.firewall \in Rules

\* What a thread's program counter says of its locals.
RowOK(t, x) ==
    /\ x.pc \in Active => x.op \in Ops
    /\ x.pc \in Active /\ x.op \in {"apply", "deployment"} => x.arg \in Networks
    /\ x.pc \in Active /\ x.op = "upgrade" => x.arg \in Releases
    /\ x.op = "apply" => /\ x.pc \in {"idle", "done", "dead"} \cup FirewallAdds
                         /\ ~x.undo
    /\ x.pc \in UpgradeSteps => x.op = "upgrade" /\ ~x.undo
    /\ x.pc = "depRead" => x.op = "deployment" /\ ~x.undo
    /\ x.pc = "rollback" => x.op = "rollback" /\ ~x.undo
    /\ x.pc \in {"check", "health"} => ~x.undo
    /\ x.pc \in RestoreSteps => x.op = "rollback" \/ (x.op = "upgrade" /\ x.undo)
    /\ x.pc \in FirewallSteps => x.op # "upgrade"
    /\ x.pc \in RecordSteps => x.op \in {"deployment", "upgrade"} /\ ~x.undo
    /\ x.op # "rollback" => x.backup \subseteq {t}
    /\ x.op = "deployment" => x.backup = {}
    /\ x.op = "upgrade" /\ x.pc \in (UpgradeSteps \ {"prepare"}) \cup Prepared =>
           x.backup = {t}
    /\ x.op = "deployment" /\ x.pc \in Prepared => x.firewall \in Rules
    /\ x.op = "rollback" /\ x.pc \in Prepared /\ x.backup = {} =>
           x.firewall \in Rules
    /\ x.pc \in FirewallAdds /\ (x.undo \/ x.op = "rollback") =>
           x.firewall \in Networks
    /\ x.undo /\ x.pc \in SaveSteps => x.status \in Failed
    /\ x.pc = "idle" => x = NewThread
    /\ RecordOK(x.copy.rollback)

\* The job has recorded its backups, or has ended.
Committed(t) ==
    \/ th[t].pc \in {"done", "dead", "refresh"}
    \/ th[t].pc \in SaveSteps /\ th[t].status = "succeeded"

\* Whose backups the state file, or a copy of it in memory, names.
Recorded == store.rollback.backup
              \cup UNION {th[t].copy.rollback.backup : t \in Threads}

\* Backups are named only by jobs that have recorded them, so no other job
\* removes the backup of one at work.
ControlInv ==
    /\ \A t \in Threads : RowOK(t, th[t])
    /\ RecordOK(store.rollback)
    /\ \A t \in Recorded : Committed(t)
    /\ \A t \in Threads : th[t].pc \in {"deployFiles", "unmix"} =>
           files[t] # Absent

\* Jobs that may still restore the backup they have made.
Restorer(t) ==
    /\ th[t].op = "upgrade"
    /\ th[t].pc \in {"copyFiles", "deployFiles", "unmix", "env", "up", "health"}
                      \cup RestoreSteps

\* A backup that nobody will remove any more.
Kept(t) ==
    /\ dump[t].data
    /\ t \notin Recorded
    /\ th[t].undo \/ th[t].pc \in {"done", "dead"}

\* The data is in the database, and in the backup of every job that may still
\* restore it; or it is in a backup that stays.
DataInv ==
    \/ db.data /\ \A t \in Threads : Restorer(t) => dump[t].data
    \/ \E t \in Threads : Kept(t)

\* With one operation at a time.
Alone == \A t, u \in Threads : ~Over(t) /\ ~Over(u) => t = u

\* Steps that rely on the copy of the state file.
CopySteps == {"saveWrite", "fwWrite", "fwDelete", "rmDelete", "rmWrite", "unlink",
              "recWrite"}

\* The copy that a thread is about to use is still the state file.
CopyInv == \A t \in Threads : th[t].pc \in CopySteps => th[t].copy = store

\* The rules in force are the wanted one while it is being recorded, and
\* otherwise the recorded one.
RulesInv ==
    Uninterrupted =>
        /\ \A t \in Threads :
               /\ th[t].pc \in {"fwAdd", "fwLoad", "fwWrite"} =>
                      ufw \subseteq {WantedRule(t)}
               /\ th[t].pc = "rmWrite" => ufw = {}
        /\ (\A t \in Threads : th[t].pc \notin {"fwLoad", "fwWrite"}) =>
               ufw \subseteq {store.firewall}

\* A job has an outcome once it has been checked, and the file has it at its end.
OutcomeInv ==
    \A t \in Threads :
        /\ th[t].op = "apply" \/ th[t].pc = "check" =>
               th[t].status = "none" \/ th[t].pc \in {"done", "dead"}
        /\ th[t].pc \in {"done", "refresh"} /\ th[t].status # "none" =>
               store.jobs[t] = th[t].status

\* Every command may fail but those of a rollback, which nothing takes back.  Nor
\* may a restore of the runtime files right after a failed copy of them fail as
\* well: nothing would report it.
Recoverable ==
    /\ Failing \subseteq {"upgrade", "apply", "deployment"} \X Commands
    /\ MaxFailures <= 1 \/ <<"upgrade", "files">> \notin Failing

\* The database of a release, with the users' data.
DatabaseOf(release) == [schema |-> release, data |-> TRUE]

\* The installation is on one release, with its data.
Settled ==
    /\ app.img = env.img
    /\ runtime = env.img
    /\ db = DatabaseOf(env.img)

Coherent == app.up /\ Settled

\* A deployment failed, which may have stopped the application.
Broke(t) ==
    /\ th[t].op = "deployment" /\ th[t].status = "failed"
    /\ th[t].pc \in SaveSteps \cup {"done"}

\* Both backups of a job are those of a release.
Saved(b, release) ==
    /\ dump[b] = DatabaseOf(release)
    /\ files[b] = release

Intact ==
    /\ store.rollback.backup = {} <=> store.rollback.env.img = None
    /\ \A b \in store.rollback.backup : Saved(b, store.rollback.env.img)

\* A job that restores backups: an upgrade that is taken back, or a rollback.
Restoring(t) ==
    \/ th[t].op = "upgrade" /\ th[t].undo
    \/ th[t].op = "rollback" /\ th[t].backup # {}

\* Between two releases.
Unsettled(t) ==
    \/ th[t].pc \in RestoreSteps \cup {"unmix"}
    \/ th[t].op = "upgrade" /\ th[t].pc \in {"env", "up", "health"}
    \/ Restoring(t) /\ th[t].pc = "up"

\* What a job has to go back to: th[t].env.img is the release it came from.
WayBack(t) ==
    /\ th[t].op = "deployment" /\ th[t].pc \in Prepared => th[t].env.img = None
    /\ th[t].op = "rollback" /\ th[t].pc \in Prepared =>
           /\ th[t].backup = {} <=> th[t].env.img = None
           /\ \A b \in th[t].backup : Saved(b, th[t].env.img)
    /\ th[t].op = "upgrade" /\ th[t].pc \in (UpgradeSteps \ {"prepare"}) \cup Prepared =>
           th[t].env.img # None
    /\ th[t].pc = "copyFiles" => dump[t] = DatabaseOf(th[t].env.img)
    /\ th[t].op = "upgrade" /\ th[t].pc \in {"deployFiles", "unmix"} \cup Prepared =>
           Saved(t, th[t].env.img)

\* How far a job is between two releases.
Progress(t) ==
    /\ th[t].pc \in UpgradeSteps \ {"prepare"} => env.img = th[t].env.img
    /\ th[t].pc = "unmix" =>
           /\ failures > 0
           /\ app.up /\ app.img = env.img
           /\ db = DatabaseOf(env.img)
    /\ th[t].op = "upgrade" /\ ~th[t].undo /\ th[t].pc \in {"env", "up", "health"} =>
           runtime = th[t].arg /\ db.data
    /\ th[t].op = "upgrade" /\ ~th[t].undo /\ th[t].pc \in {"up", "health"} =>
           env.img = th[t].arg
    /\ th[t].op = "upgrade" /\ ~th[t].undo /\ th[t].pc = "health" =>
           app.up /\ app.img = th[t].arg
    /\ th[t].pc \in RestoreSteps => env.img = th[t].env.img
    /\ th[t].pc \in {"dbStop", "dbDrop", "dbLoad"} => runtime = th[t].env.img
    /\ th[t].pc \in FirewallSteps => ~Restoring(t)
    /\ th[t].pc = "unlink" => th[t].op = "upgrade"
    /\ Restoring(t) /\ th[t].pc = "up" =>
           /\ env.img = th[t].env.img
           /\ runtime = th[t].env.img
           /\ db = DatabaseOf(th[t].env.img)

\* A job outside its critical part leaves one release; between the removal of
\* the previous backups and the new record an upgrade leaves no record to use.
Sound(t) ==
    /\ Unsettled(t) \/ Coherent \/ (Settled /\ Broke(t))
    /\ Intact \/ (th[t].pc = "recWrite" /\ th[t].op = "upgrade")
    /\ WayBack(t)
    /\ Progress(t)

ReleaseInv ==
    Uninterrupted /\ alarm = {} =>
        /\ Calm => /\ Settled /\ Intact
                   /\ app.up \/ \E t \in Threads : Broke(t)
        /\ \A t \in Threads : ~Over(t) => Sound(t)

\* A deployment is unhealthy only once it is taken back, and how far that is.
RangeBack(t) ==
    /\ th[t].op = "deployment" /\ th[t].pc \in Prepared => th[t].env.net # None
    /\ th[t].op = "deployment" /\ th[t].undo =>
           /\ th[t].pc \in FirewallSteps \cup {"up"} => env.net = th[t].env.net
           /\ th[t].pc \in {"rmRead", "rmDelete", "rmWrite"} => th[t].firewall = None
           /\ th[t].pc \in {"fwLoad", "fwWrite"} => ufw = {th[t].firewall}
           /\ th[t].pc = "up" => /\ store.firewall = th[t].firewall
                                 /\ ufw = {th[t].firewall} \ {None}
    /\ th[t].op = "deployment" /\ th[t].pc \in SaveSteps
         /\ th[t].status = "unhealthy" =>
           /\ env.net = th[t].env.net
           /\ app.net = th[t].env.net
           /\ store.firewall = th[t].firewall
           /\ ufw = {th[t].firewall} \ {None}

RangeInv == Uninterrupted => \A t \in Threads : RangeBack(t)

-----------------------------------------------------------------------------
(***************************************************************************)
(* What a step does to the row of its thread.                              *)
(***************************************************************************)
LEMMA ConstantTypes ==
    /\ NoChanges \in EnvChanges /\ NoRollback \in Rollback
    /\ NoJobs \in [Threads -> JobStatus] /\ NoState \in State
    /\ NewThread \in Thread /\ RecordOK(NoRollback)
    /\ NoState.rollback = NoRollback /\ NoState.firewall = None
    /\ NoRollback.backup = {}
<1>1. NoChanges \in EnvChanges
  BY DEF NoChanges, EnvChanges
<1>2. NoRollback \in Rollback /\ NoRollback.env = NoChanges
      /\ NoRollback.backup = {}
  BY <1>1 DEF NoRollback, Rollback
<1>3. NoJobs \in [Threads -> JobStatus]
  BY DEF NoJobs, JobStatus
<1>4. NoState \in State /\ NoState.rollback = NoRollback /\ NoState.firewall = None
  BY <1>2, <1>3 DEF NoState, State, Rules
<1>5. NewThread \in Thread
  BY <1>1, <1>4 DEF NewThread, Thread, Operations, JobStatus, None
<1> QED BY <1>1, <1>2, <1>3, <1>4, <1>5 DEF RecordOK

Framed(t) ==
    /\ th' \in [Threads -> Thread]
    /\ \A u \in Threads \ {t} : th'[u] = th[u]

\* The locals but program counter, outcome, undo and copy.
Locals(t) ==
    /\ th'[t].op = th[t].op /\ th'[t].arg = th[t].arg
    /\ th'[t].env = th[t].env /\ th'[t].firewall = th[t].firewall
    /\ th'[t].backup = th[t].backup

LEMMA RowFrame ==
    ASSUME TypeOK, NEW t \in Threads, NEW x \in Thread, th' = [th EXCEPT ![t] = x]
    PROVE  Framed(t) /\ th'[t] = x
BY DEF TypeOK, Framed

LEMMA GotoRow ==
    ASSUME TypeOK, NEW t \in Threads, NEW step \in Pcs \ {"done"}, Goto(t, step)
    PROVE  /\ Framed(t) /\ Locals(t) /\ th'[t].pc = step
           /\ th'[t].status = th[t].status /\ th'[t].undo = th[t].undo
           /\ th'[t].copy = th[t].copy
<1> DEFINE x == [th[t] EXCEPT !.pc = step]
<1>1. th[t] \in Thread
  BY DEF TypeOK
<1>2. /\ x \in Thread /\ x.pc = step /\ x.op = th[t].op /\ x.arg = th[t].arg
      /\ x.undo = th[t].undo /\ x.status = th[t].status /\ x.env = th[t].env
      /\ x.firewall = th[t].firewall /\ x.backup = th[t].backup
      /\ x.copy = th[t].copy
  BY <1>1 DEF Thread, Pcs
<1>3. th' = [th EXCEPT ![t] = x]
  BY DEF Goto
<1> HIDE DEF x
<1> QED BY <1>2, <1>3, RowFrame DEF Locals

LEMMA EndedRow ==
    ASSUME TypeOK, NEW t \in Threads, NEW how \in {"done", "dead"}
    PROVE  /\ Ended(t, how) \in Thread /\ Ended(t, how).pc = how
           /\ Ended(t, how).status = th[t].status /\ Ended(t, how).op = th[t].op
           /\ Ended(t, how).undo = FALSE /\ Ended(t, how).backup = {}
           /\ Ended(t, how).copy = NoState
<1>1. th[t].status \in JobStatus /\ th[t].op \in Operations
  BY DEF TypeOK, Thread
<1> QED BY <1>1, ConstantTypes DEF Ended, NewThread, Thread

LEMMA DoneRow ==
    ASSUME TypeOK, NEW t \in Threads, Goto(t, "done")
    PROVE  /\ Framed(t) /\ th'[t] = Ended(t, "done")
BY EndedRow, RowFrame DEF Goto

LEMMA FinishRow ==
    ASSUME TypeOK, NEW t \in Threads, NEW outcome \in JobStatus, Finish(t, outcome)
    PROVE  /\ Framed(t) /\ Locals(t) /\ th'[t].pc = "save"
           /\ th'[t].status = outcome /\ th'[t].undo = th[t].undo
           /\ th'[t].copy = th[t].copy
<1> DEFINE x == [th[t] EXCEPT !.pc = "save", !.status = outcome]
<1>1. th[t] \in Thread /\ th \in [Threads -> Thread]
  BY DEF TypeOK
<1>2. /\ x \in Thread /\ x.pc = "save" /\ x.op = th[t].op /\ x.arg = th[t].arg
      /\ x.undo = th[t].undo /\ x.status = outcome /\ x.env = th[t].env
      /\ x.firewall = th[t].firewall /\ x.backup = th[t].backup
      /\ x.copy = th[t].copy
  BY <1>1 DEF Thread, JobSteps
<1>3. th' = [th EXCEPT ![t] = x]
  BY <1>1 DEF Finish
<1> HIDE DEF x
<1> QED BY <1>2, <1>3, RowFrame DEF Locals

LEMMA UndoRow ==
    ASSUME TypeOK, NEW t \in Threads, Undo(t)
    PROVE  /\ Framed(t) /\ Locals(t) /\ th'[t].pc = "env"
           /\ th'[t].status = th[t].status /\ th'[t].undo = TRUE
           /\ th'[t].copy = th[t].copy
<1> DEFINE x == [th[t] EXCEPT !.undo = TRUE, !.pc = "env"]
<1>1. th[t] \in Thread /\ th \in [Threads -> Thread]
  BY DEF TypeOK
<1>2. /\ x \in Thread /\ x.pc = "env" /\ x.op = th[t].op /\ x.arg = th[t].arg
      /\ x.undo = TRUE /\ x.status = th[t].status /\ x.env = th[t].env
      /\ x.firewall = th[t].firewall /\ x.backup = th[t].backup
      /\ x.copy = th[t].copy
  BY <1>1 DEF Thread, JobSteps
<1>3. th' = [th EXCEPT ![t] = x]
  BY <1>1 DEF Undo
<1> HIDE DEF x
<1> QED BY <1>2, <1>3, RowFrame DEF Locals

\* Reading the state file.
LEMMA LoadRow ==
    ASSUME TypeOK, NEW t \in Threads, NEW step \in Pcs,
           \/ th' = [th EXCEPT ![t].pc = step, ![t].copy = store]
           \/ th' = [th EXCEPT ![t].copy = store, ![t].pc = step]
    PROVE  /\ Framed(t) /\ Locals(t) /\ th'[t].pc = step
           /\ th'[t].status = th[t].status /\ th'[t].undo = th[t].undo
           /\ th'[t].copy = store
<1> DEFINE x == [th[t] EXCEPT !.pc = step, !.copy = store]
<1>1. th[t] \in Thread /\ th \in [Threads -> Thread] /\ store \in State
  BY DEF TypeOK
<1>2. /\ x \in Thread /\ x.pc = step /\ x.op = th[t].op /\ x.arg = th[t].arg
      /\ x.undo = th[t].undo /\ x.status = th[t].status /\ x.env = th[t].env
      /\ x.firewall = th[t].firewall /\ x.backup = th[t].backup
      /\ x.copy = store
  BY <1>1 DEF Thread, Pcs
<1>3. [th[t] EXCEPT !.copy = store, !.pc = step] = x
  BY <1>1 DEF Thread
<1>4. th' = [th EXCEPT ![t] = x]
  BY <1>1, <1>3
<1> HIDE DEF x
<1> QED BY <1>2, <1>4, RowFrame DEF Locals

-----------------------------------------------------------------------------
(***************************************************************************)
(* One step of a thread keeps its control.                                 *)
(***************************************************************************)
Retired(t) == th[t].undo \/ th[t].pc \in {"done", "dead"}

RowStep(t) ==
    /\ Framed(t)
    /\ RowOK(t, th'[t])
    /\ Committed(t) => Committed(t)'
    /\ Retired(t) => Retired(t)'
    /\ Restorer(t)' => Restorer(t) \/ At(t, "backup")
    /\ th'[t].copy \in {th[t].copy, store, NoState}
    /\ th'[t].pc \in {"deployFiles", "unmix"} =>
           th[t].pc \in {"copyFiles", "deployFiles"}

LEMMA DoneStep ==
    ASSUME TypeOK, NEW t \in Threads, Goto(t, "done")
    PROVE  RowStep(t)
<1>1. Framed(t) /\ th'[t] = Ended(t, "done")
  BY DoneRow
<1>2. /\ th'[t].pc = "done" /\ th'[t].undo = FALSE
      /\ th'[t].backup = {} /\ th'[t].copy = NoState
  BY <1>1, EndedRow
<1>3. RecordOK(th'[t].copy.rollback)
  BY <1>2, ConstantTypes
<1>4. RowOK(t, th'[t])
  BY <1>2, <1>3 DEF RowOK, Active, JobSteps, FirewallSteps, FirewallAdds,
        UpgradeSteps, RestoreSteps, RecordSteps, SaveSteps, Prepared
<1> QED BY <1>1, <1>2, <1>4 DEF RowStep, Committed, Retired, Restorer, RestoreSteps

\* Where a job may end, and with which outcome.
MayFinish(t, outcome) ==
    /\ outcome \in JobStatus
    /\ th[t].pc \in Active \ (SaveSteps \cup {"refresh"})
    /\ th[t].op # "apply"
    /\ th[t].undo => outcome \in Failed

LEMMA FinishStep ==
    ASSUME TypeOK, ControlInv, NEW t \in Threads, NEW outcome,
           MayFinish(t, outcome), Finish(t, outcome)
    PROVE  RowStep(t)
<1>1. /\ Framed(t) /\ Locals(t) /\ th'[t].pc = "save"
      /\ th'[t].status = outcome /\ th'[t].undo = th[t].undo
      /\ th'[t].copy = th[t].copy
  BY FinishRow DEF MayFinish
<1>2. RowOK(t, th[t])
  BY DEF ControlInv
<1>3. RowOK(t, th'[t])
  BY <1>1, <1>2 DEF MayFinish, RowOK, Locals, Active, JobSteps, FirewallSteps, FirewallAdds,
        UpgradeSteps, RestoreSteps, RecordSteps, SaveSteps, Prepared
<1>4. ~Committed(t)
  BY DEF MayFinish, Committed, Active, JobSteps, FirewallSteps
<1> QED BY <1>1, <1>3, <1>4
        DEF MayFinish, RowStep, Retired, Restorer, RestoreSteps, Active, JobSteps, FirewallSteps

LEMMA UndoStep ==
    ASSUME TypeOK, ControlInv, NEW t \in Threads, Undo(t),
           \/ th[t].op = "upgrade" /\ th[t].pc \in {"env", "up", "health"}
           \/ th[t].op = "deployment" /\ th[t].pc = "health"
    PROVE  RowStep(t)
<1>1. /\ Framed(t) /\ Locals(t) /\ th'[t].pc = "env" /\ th'[t].undo = TRUE
      /\ th'[t].copy = th[t].copy
  BY UndoRow
<1>2. RowOK(t, th[t])
  BY DEF ControlInv
<1>3. RowOK(t, th'[t])
  BY <1>1, <1>2 DEF RowOK, Locals, Active, JobSteps, FirewallSteps, FirewallAdds,
        UpgradeSteps, RestoreSteps, RecordSteps, SaveSteps, Prepared
<1> QED BY <1>1, <1>3
        DEF RowStep, Committed, Retired, Restorer, RestoreSteps, SaveSteps, Locals

\* A step forward: the program counter moves, and the state file may be read.
Moves(t, step) ==
    \/ Goto(t, step)
    \/ th' = [th EXCEPT ![t].pc = step, ![t].copy = store]
    \/ th' = [th EXCEPT ![t].copy = store, ![t].pc = step]

\* Where it may move to, and what the next step relies on.
MayMove(t, step) ==
    /\ step \in Active /\ th[t].pc \in Active
    /\ Committed(t) =>
           step = "refresh" \/ (step \in SaveSteps /\ th[t].pc \in SaveSteps)
    /\ th[t].pc \in RecordSteps => step \in RecordSteps
    /\ th[t].op = "apply" => step \in FirewallAdds
    /\ step \in UpgradeSteps => th[t].op = "upgrade" /\ ~th[t].undo
    /\ step \in UpgradeSteps \ {"prepare"} =>
           th[t].pc \in UpgradeSteps \ {"prepare"}
    /\ step = "depRead" => th[t].op = "deployment" /\ ~th[t].undo
    /\ step = "rollback" => th[t].op = "rollback" /\ ~th[t].undo
    /\ step \in {"check", "health"} => ~th[t].undo
    /\ step \in RestoreSteps =>
           th[t].op = "rollback" \/ (th[t].op = "upgrade" /\ th[t].undo)
    /\ step \in FirewallSteps => th[t].op # "upgrade"
    /\ step \in RecordSteps =>
           th[t].op \in {"deployment", "upgrade"} /\ ~th[t].undo
    /\ step \in Prepared /\ th[t].op # "apply" =>
           th[t].pc \in Prepared \cup (UpgradeSteps \ {"prepare"})
    /\ step \in FirewallAdds /\ (th[t].undo \/ th[t].op = "rollback") =>
           th[t].firewall \in Networks
    /\ th[t].undo /\ step \in SaveSteps => th[t].pc \in SaveSteps
    /\ step \in {"deployFiles", "unmix"} =>
           th[t].pc \in {"copyFiles", "deployFiles"}
    /\ step = "copyFiles" => At(t, "backup")

LEMMA MoveStep ==
    ASSUME TypeOK, ControlInv, NEW t \in Threads, NEW step, MayMove(t, step),
           Moves(t, step)
    PROVE  RowStep(t)
<1>1. /\ Framed(t) /\ Locals(t) /\ th'[t].pc = step
      /\ th'[t].status = th[t].status /\ th'[t].undo = th[t].undo
      /\ th'[t].copy \in {th[t].copy, store}
  <2>1. step \in Pcs \ {"done"} /\ step \in Pcs
    BY DEF MayMove, Active, Pcs, JobSteps, FirewallSteps
  <2> QED BY <2>1, GotoRow, LoadRow DEF Moves
<1>2. RowOK(t, th[t])
  BY DEF ControlInv
<1>3. RecordOK(th'[t].copy.rollback)
  BY <1>1, <1>2 DEF RowOK, ControlInv
<1>4. /\ step # "idle" /\ th[t].pc # "idle"
      /\ (UpgradeSteps \ {"prepare"}) \cap Prepared = {}
  BY DEF MayMove, Active, JobSteps, FirewallSteps, UpgradeSteps, Prepared, RecordSteps,
         RestoreSteps
<1>5. th[t].pc \in UpgradeSteps => th[t].op = "upgrade"
  BY <1>2 DEF RowOK
<1>6. RowOK(t, th'[t])
  BY <1>1, <1>2, <1>3, <1>4, <1>5 DEF MayMove, RowOK, Locals
<1>7. Committed(t) => Committed(t)'
  BY <1>1 DEF MayMove, Committed, Active, SaveSteps, JobSteps, FirewallSteps
<1>8. Restorer(t)' => Restorer(t) \/ At(t, "backup")
  BY <1>1, <1>2 DEF MayMove, RowOK, Restorer, At, Locals, Prepared, RecordSteps, RestoreSteps,
        UpgradeSteps, FirewallSteps, Active
<1> QED BY <1>1, <1>4, <1>6, <1>7, <1>8 DEF MayMove, RowStep, Retired, Active, JobSteps,
        FirewallSteps

LEMMA RequestStep ==
    ASSUME TypeOK, ControlInv, NEW t \in Threads, Request(t)
    PROVE  RowStep(t)
<1>1. ASSUME NEW step \in {"check", "fwRead"}, NEW o \in Ops,
             NEW a \in Nat, At(t, "idle"),
             th' = [th EXCEPT ![t].pc = step, ![t].op = o, ![t].arg = a],
             step = "fwRead" <=> o = "apply",
             o \in {"apply", "deployment"} => a \in Networks,
             o = "upgrade" => a \in Releases
      PROVE  RowStep(t)
  <2> DEFINE x == [NewThread EXCEPT !.pc = step, !.op = o, !.arg = a]
  <2>1. th[t] = NewThread /\ th \in [Threads -> Thread]
    BY <1>1 DEF ControlInv, RowOK, At, TypeOK
  <2>2. th' = [th EXCEPT ![t] = x]
    BY <1>1, <2>1
  <2>3. /\ x \in Thread /\ x.pc = step /\ x.op = o /\ x.arg = a /\ x.undo = FALSE
        /\ x.status = "none" /\ x.backup = {} /\ x.copy = NoState
    BY <1>1, ConstantTypes, HostAgentAssumption
    DEF NewThread, Thread, JobSteps, FirewallSteps, Operations
  <2>4. NewThread.undo = FALSE /\ NewThread.pc = "idle"
    BY DEF NewThread
  <2> HIDE DEF x
  <2>5. Framed(t) /\ th'[t] = x
    BY <2>2, <2>3, RowFrame
  <2>6. RowOK(t, x)
    BY <1>1, <2>3, ConstantTypes DEF RowOK, Active, JobSteps, FirewallSteps,
       FirewallAdds, UpgradeSteps, RestoreSteps, RecordSteps, SaveSteps, Prepared
  <2> QED BY <2>1, <2>3, <2>4, <2>5, <2>6
          DEF RowStep, Committed, Retired, Restorer, SaveSteps, RestoreSteps
<1>2. Networks \subseteq Nat /\ Releases \subseteq Nat
  BY HostAgentAssumption DEF Networks, Releases
<1>3. ASSUME NEW n \in Networks, RequestDeployment(t, n) PROVE RowStep(t)
  BY <1>1, <1>2, <1>3 DEF RequestDeployment
<1>4. ASSUME NEW n \in Networks, RequestFirewall(t, n) PROVE RowStep(t)
  BY <1>1, <1>2, <1>4 DEF RequestFirewall
<1>5. ASSUME NEW r \in Releases, RequestUpgrade(t, r) PROVE RowStep(t)
  BY <1>1, <1>2, <1>5 DEF RequestUpgrade
<1>6. CASE RequestRollback(t)
  <2>1. th[t].arg = 0
    BY <1>6 DEF RequestRollback, ControlInv, RowOK, At, NewThread, None
  <2>2. th' = [th EXCEPT ![t].pc = "check", ![t].op = "rollback", ![t].arg = 0]
    <3>1. th \in [Threads -> Thread] /\ th[t] \in Thread
      BY DEF TypeOK
    <3>2. [th[t] EXCEPT !.pc = "check", !.op = "rollback", !.arg = 0] =
            [th[t] EXCEPT !.pc = "check", !.op = "rollback"]
      BY <2>1, <3>1 DEF Thread
    <3> QED BY <1>6, <3>1, <3>2 DEF RequestRollback
  <2> QED BY <1>1, <1>6, <2>2 DEF RequestRollback
<1> QED BY <1>3, <1>4, <1>5, <1>6 DEF Request

\* The steps that change other locals.
LEMMA ReadingSteps ==
    ASSUME TypeOK, ControlInv, NEW t \in Threads,
           DeploymentReads(t) \/ PrepareRelease(t) \/ ReadRollback(t)
    PROVE  RowStep(t)
<1>1. /\ th \in [Threads -> Thread] /\ th[t] \in Thread /\ RowOK(t, th[t])
      /\ env \in EnvFile /\ store \in State /\ store.rollback \in Rollback
      /\ store.rollback.env \in EnvChanges /\ store.rollback.backup \in SUBSET Threads
      /\ store.rollback.firewall \in Rules \cup {Absent}
      /\ store.firewall \in Rules /\ RecordOK(store.rollback)
  BY DEF TypeOK, ControlInv, State, Rollback
<1>2. ASSUME NEW x \in Thread, th' = [th EXCEPT ![t] = x],
             th[t].pc \in {"depRead", "prepare", "rollback"},
             x.pc \in {"env", "backup"}, x.op = th[t].op, x.arg = th[t].arg,
             x.undo = th[t].undo, x.copy = th[t].copy,
             x.pc = "backup" <=> th[t].op = "upgrade",
             th[t].op = "upgrade" => x.backup = {t},
             th[t].op = "deployment" => x.backup = {} /\ x.firewall \in Rules,
             th[t].op = "rollback" /\ x.backup = {} => x.firewall \in Rules
      PROVE  RowStep(t)
  <2>1. Framed(t) /\ th'[t] = x
    BY <1>2, RowFrame
  <2>2. RowOK(t, x)
    BY <1>1, <1>2 DEF RowOK, Active, JobSteps, FirewallSteps, FirewallAdds,
          UpgradeSteps, RestoreSteps, RecordSteps, SaveSteps, Prepared
  <2> QED BY <1>1, <1>2, <2>1, <2>2 DEF RowStep, RowOK, Committed, Retired, Restorer,
          SaveSteps, RestoreSteps, UpgradeSteps, At
<1>3. CASE DeploymentReads(t)
  <2> DEFINE changes == [NoChanges EXCEPT !.net = env.net]
             x == [th[t] EXCEPT !.pc = "env", !.env = changes,
                                !.firewall = store.firewall]
  <2>1. changes \in EnvChanges
    BY <1>1 DEF NoChanges, EnvChanges, EnvFile
  <2>2. th' = [th EXCEPT ![t] = x] /\ th[t].pc = "depRead"
    BY <1>1, <1>3 DEF DeploymentReads, At
  <2> HIDE DEF changes
  <2>3. /\ x \in Thread /\ x.pc = "env" /\ x.op = th[t].op /\ x.arg = th[t].arg
        /\ x.undo = th[t].undo /\ x.copy = th[t].copy /\ x.backup = th[t].backup
        /\ x.firewall = store.firewall
    BY <1>1, <2>1 DEF Thread, JobSteps
  <2>4. th[t].op = "deployment" /\ th[t].backup = {}
    BY <1>1, <2>2 DEF RowOK
  <2> HIDE DEF x
  <2> QED BY <1>1, <1>2, <2>2, <2>3, <2>4
<1>4. CASE PrepareRelease(t)
  <2> DEFINE changes == [NoChanges EXCEPT !.img = env.img]
             x == [th[t] EXCEPT !.pc = "backup", !.env = changes, !.backup = {t}]
  <2>1. changes \in EnvChanges
    BY <1>1 DEF NoChanges, EnvChanges, EnvFile
  <2>2. th' = [th EXCEPT ![t] = x] /\ th[t].pc = "prepare"
    BY <1>1, <1>4 DEF PrepareRelease, At
  <2> HIDE DEF changes
  <2>3. /\ x \in Thread /\ x.pc = "backup" /\ x.op = th[t].op /\ x.arg = th[t].arg
        /\ x.undo = th[t].undo /\ x.copy = th[t].copy /\ x.backup = {t}
    BY <1>1, <2>1 DEF Thread, JobSteps
  <2>4. th[t].op = "upgrade"
    BY <1>1, <2>2 DEF RowOK, UpgradeSteps
  <2> HIDE DEF x
  <2> QED BY <1>1, <1>2, <2>2, <2>3, <2>4
<1>5. CASE ReadRollback(t)
  <2>1. th[t].pc = "rollback" /\ th[t].op = "rollback" /\ ~th[t].undo
    BY <1>1, <1>5 DEF ReadRollback, At, RowOK
  <2>2. CASE store.rollback.env = NoChanges
    <3>1. MayFinish(t, "failed")
      BY <2>1 DEF MayFinish, Active, JobSteps, JobStatus, SaveSteps
    <3> QED BY <1>5, <2>2, <3>1, FinishStep DEF ReadRollback
  <2>3. CASE store.rollback.env # NoChanges
    <3> DEFINE x == [th[t] EXCEPT !.pc = "env", !.env = store.rollback.env,
                                  !.firewall = store.rollback.firewall,
                                  !.backup = store.rollback.backup]
    <3>1. th' = [th EXCEPT ![t] = x]
      BY <1>1, <1>5, <2>3 DEF ReadRollback
    <3>2. /\ x \in Thread /\ x.pc = "env" /\ x.op = th[t].op /\ x.arg = th[t].arg
          /\ x.undo = th[t].undo /\ x.copy = th[t].copy
          /\ x.backup = store.rollback.backup
          /\ x.firewall = store.rollback.firewall
      BY <1>1 DEF Thread, JobSteps
    <3>3. x.backup = {} => x.firewall \in Rules
      BY <1>1, <2>3, <3>2 DEF RecordOK
    <3> HIDE DEF x
    <3> QED BY <1>2, <2>1, <3>1, <3>2, <3>3
  <2> QED BY <2>2, <2>3
<1> QED BY <1>3, <1>4, <1>5

-----------------------------------------------------------------------------
\* The steps of apply_firewall and remove_firewall.
LEMMA RuleSteps ==
    ASSUME TypeOK, ControlInv, NEW t \in Threads, FirewallStep(t)
    PROVE  RowStep(t)
<1> USE DEF Active, JobSteps, FirewallSteps, FirewallAdds, UpgradeSteps,
            RestoreSteps, RecordSteps, SaveSteps, Prepared, At
<1>1. RowOK(t, th[t])
  BY DEF ControlInv
<1>2. th[t].pc \in FirewallSteps
  BY DEF FirewallStep, ReadPrevious, DeletePrevious, AddRule, LoadForRule, WriteRule,
         ReadRule, DeleteRule, ForgetRule
<1>3. th[t].op # "upgrade" /\ ~Committed(t)
  BY <1>1, <1>2 DEF RowOK, Committed
<1>4. /\ th[t].pc \in {"rmRead", "rmDelete", "rmWrite"} => th[t].op # "apply"
      /\ th[t].pc \in FirewallAdds /\ (th[t].undo \/ th[t].op = "rollback") =>
             th[t].firewall \in Networks
  BY <1>1 DEF RowOK
<1>5. ASSUME NEW step \in FirewallAdds \ {"fwRead"}, th[t].pc \in FirewallAdds
      PROVE  MayMove(t, step)
  BY <1>2, <1>3, <1>4, <1>5 DEF MayMove
<1>6. ASSUME NEW step \in {"rmDelete", "rmWrite"}, th[t].op # "apply"
      PROVE  MayMove(t, step)
  BY <1>2, <1>3, <1>6 DEF MayMove
<1>7. th[t].op # "apply" => MayMove(t, "up")
  BY <1>2, <1>3 DEF MayMove
<1>8. ASSUME Moves(t, "up"), th[t].op # "apply" PROVE RowStep(t)
  BY <1>7, <1>8, MoveStep
<1>9. CASE ReadPrevious(t)
  <2>1. th[t].pc \in FirewallAdds /\ (Moves(t, "fwAdd") \/ Moves(t, "fwDelete"))
    BY <1>9 DEF ReadPrevious, Moves
  <2>2. MayMove(t, "fwAdd") /\ MayMove(t, "fwDelete")
    BY <1>5, <2>1
  <2> QED BY <2>1, <2>2, MoveStep
<1>10. CASE DeletePrevious(t)
  <2>1. Moves(t, "fwAdd") /\ MayMove(t, "fwAdd")
    BY <1>5, <1>10 DEF DeletePrevious, Moves
  <2> QED BY <2>1, MoveStep
<1>11. CASE AddRule(t)
  <2>1. Moves(t, "fwLoad") /\ MayMove(t, "fwLoad")
    BY <1>5, <1>11 DEF AddRule, Moves
  <2> QED BY <2>1, MoveStep
<1>12. CASE LoadForRule(t)
  <2>1. Moves(t, "fwWrite") /\ MayMove(t, "fwWrite")
    BY <1>5, <1>12 DEF LoadForRule, Moves
  <2> QED BY <2>1, MoveStep
<1>13. ASSUME Goto(t, AfterFirewall(t)) PROVE RowStep(t)
  <2>1. CASE th[t].op = "apply"
    BY <1>13, <2>1, DoneStep DEF AfterFirewall
  <2>2. CASE th[t].op # "apply"
    BY <1>8, <1>13, <2>2 DEF AfterFirewall, Moves
  <2> QED BY <2>1, <2>2
<1>14. CASE ReadRule(t)
  <2>1. th[t].op # "apply"
    BY <1>4, <1>14 DEF ReadRule
  <2>2. Moves(t, "up") \/ Moves(t, "rmDelete")
    BY <1>14, <2>1 DEF ReadRule, AfterFirewall, Moves
  <2> QED BY <1>6, <1>8, <2>1, <2>2, MoveStep
<1>15. CASE DeleteRule(t)
  <2>1. Moves(t, "rmWrite") /\ MayMove(t, "rmWrite")
    BY <1>4, <1>6, <1>15 DEF DeleteRule, Moves
  <2> QED BY <2>1, MoveStep
<1> QED BY <1>9, <1>10, <1>11, <1>12, <1>13, <1>14, <1>15
        DEF FirewallStep, WriteRule, ForgetRule

\* The steps of start_job and _save_job.
LEMMA SavingSteps ==
    ASSUME TypeOK, ControlInv, NEW t \in Threads,
           \/ StartJob(t) \/ SaveJob(t) \/ SaveLoad(t) \/ SaveWrite(t)
           \/ ScheduleRefresh(t)
    PROVE  RowStep(t)
<1> USE DEF Active, JobSteps, FirewallSteps, FirewallAdds, UpgradeSteps,
            RestoreSteps, RecordSteps, SaveSteps, Prepared, At
<1>1. RowOK(t, th[t]) /\ th[t].op \in Operations
  BY DEF ControlInv, TypeOK, Thread
<1>2. CASE StartJob(t)
  <2>1. MayFinish(t, "running")
    BY <1>1, <1>2 DEF StartJob, RowOK, MayFinish, JobStatus, Failed
  <2> QED BY <1>2, <2>1, DoneStep, FinishStep DEF StartJob
<1>3. CASE SaveJob(t)
  <2>1. Moves(t, "saveLoad") /\ MayMove(t, "saveLoad")
    BY <1>1, <1>3 DEF SaveJob, RowOK, Moves, MayMove
  <2> QED BY <2>1, MoveStep
<1>4. CASE SaveLoad(t)
  <2>1. Moves(t, "saveWrite") /\ MayMove(t, "saveWrite")
    BY <1>1, <1>4 DEF SaveLoad, RowOK, Moves, MayMove
  <2> QED BY <2>1, MoveStep
<1>5. CASE SaveWrite(t)
  <2>1. /\ th[t].pc = "saveWrite" /\ Goto(t, AfterSave(t)) /\ th[t].op # "apply"
        /\ th[t].undo => th[t].status \in Failed
    BY <1>1, <1>5 DEF SaveWrite, RowOK
  <2>2. CASE th[t].status \in Failed
    BY <2>1, <2>2, DoneStep DEF AfterSave, Failed
  <2>3. CASE th[t].status = "succeeded"
    <3>1. Goto(t, "refresh") \/ Goto(t, "done")
      BY <2>1, <2>3 DEF AfterSave
    <3>2. MayMove(t, "refresh")
      BY <2>1 DEF MayMove
    <3> QED BY <3>1, <3>2, DoneStep, MoveStep DEF Moves
  <2>4. CASE th[t].status \notin Failed \cup {"succeeded"}
    <3>1. ~th[t].undo /\ ~Committed(t)
      BY <2>1, <2>4 DEF Committed
    <3>2. CASE th[t].op = "deployment"
      <4>1. Moves(t, "depRead") /\ MayMove(t, "depRead")
        BY <2>1, <2>4, <3>1, <3>2 DEF AfterSave, Failed, Moves, MayMove
      <4> QED BY <4>1, MoveStep
    <3>3. CASE th[t].op = "upgrade"
      <4>1. Moves(t, "prepare") /\ MayMove(t, "prepare")
        BY <2>1, <2>4, <3>1, <3>3 DEF AfterSave, Failed, Moves, MayMove
      <4> QED BY <4>1, MoveStep
    <3>4. CASE th[t].op = "rollback"
      <4>1. Moves(t, "rollback") /\ MayMove(t, "rollback")
        BY <2>1, <2>4, <3>1, <3>4 DEF AfterSave, Failed, Moves, MayMove
      <4> QED BY <4>1, MoveStep
    <3> QED BY <1>1, <2>1, <3>2, <3>3, <3>4 DEF Operations
  <2> QED BY <2>2, <2>3, <2>4
<1>6. CASE ScheduleRefresh(t)
  BY <1>6, DoneStep DEF ScheduleRefresh
<1> QED BY <1>2, <1>3, <1>4, <1>5, <1>6

\* The commands of an upgrade before its changes, and the record it ends with.
LEMMA UpgradingSteps ==
    ASSUME TypeOK, ControlInv, NEW t \in Threads,
           \/ DatabaseBackup(t) \/ CopyRuntime(t) \/ DeployRuntime(t)
           \/ RestoreAfterDeploy(t)
           \/ LoadForRecord(t) \/ UnlinkPrevious(t) \/ WriteRecord(t)
    PROVE  RowStep(t)
<1> USE DEF Active, JobSteps, FirewallSteps, FirewallAdds, UpgradeSteps,
            RestoreSteps, RecordSteps, SaveSteps, Prepared, At
<1>1. RowOK(t, th[t]) /\ th[t].op \in Operations
  BY DEF ControlInv, TypeOK, Thread
<1>2. CASE DatabaseBackup(t)
  <2>1. Moves(t, "copyFiles") /\ MayMove(t, "copyFiles")
    BY <1>1, <1>2 DEF DatabaseBackup, RowOK, Moves, MayMove, Committed
  <2> QED BY <2>1, MoveStep
<1>3. CASE CopyRuntime(t)
  <2>1. Moves(t, "deployFiles") /\ MayMove(t, "deployFiles")
    BY <1>1, <1>3 DEF CopyRuntime, RowOK, Moves, MayMove, Committed
  <2> QED BY <2>1, MoveStep
<1>4. CASE DeployRuntime(t)
  <2>1. Moves(t, "env") /\ MayMove(t, "env")
    BY <1>1, <1>4 DEF DeployRuntime, RowOK, Moves, MayMove, Committed
  <2> QED BY <2>1, MoveStep
<1>5. CASE RestoreAfterDeploy(t)
  <2>1. MayFinish(t, "failed")
    BY <1>1, <1>5 DEF RestoreAfterDeploy, RowOK, MayFinish, JobStatus, Failed
  <2> QED BY <1>5, <2>1, FinishStep DEF RestoreAfterDeploy
<1>6. ASSUME th[t].pc \in RecordSteps
      PROVE  MayMove(t, "unlink") /\ MayMove(t, "recWrite")
  BY <1>1, <1>6 DEF RowOK, MayMove, Committed
<1>7. CASE LoadForRecord(t)
  <2>1. th[t].pc \in RecordSteps /\ (Moves(t, "unlink") \/ Moves(t, "recWrite"))
    BY <1>7 DEF LoadForRecord, Moves
  <2> QED BY <1>6, <2>1, MoveStep
<1>8. CASE UnlinkPrevious(t)
  <2>1. th[t].pc \in RecordSteps /\ Moves(t, "recWrite")
    BY <1>8 DEF UnlinkPrevious, Moves
  <2> QED BY <1>6, <2>1, MoveStep
<1>9. CASE WriteRecord(t)
  <2>1. MayFinish(t, "succeeded")
    BY <1>1, <1>9 DEF WriteRecord, RowOK, MayFinish, JobStatus, Failed
  <2> QED BY <1>9, <2>1, FinishStep DEF WriteRecord
<1> QED BY <1>2, <1>3, <1>4, <1>5, <1>7, <1>8, <1>9

\* The commands that jobs share.
LEMMA SharedSteps ==
    ASSUME TypeOK, ControlInv, NEW t \in Threads,
           \/ UpdateEnv(t) \/ ComposeUp(t) \/ HealthCheck(t)
           \/ RestoreRuntime(t) \/ StopApp(t) \/ DropDatabase(t) \/ LoadDatabase(t)
    PROVE  RowStep(t)
<1> USE DEF Active, JobSteps, FirewallSteps, FirewallAdds, UpgradeSteps,
            RestoreSteps, RecordSteps, SaveSteps, Prepared, At
<1>1. RowOK(t, th[t]) /\ th[t].op \in Operations
  BY DEF ControlInv, TypeOK, Thread
<1>2. CASE UpdateEnv(t)
  <2>1. th[t].pc = "env" /\ Goto(t, AfterEnv(t)) /\ ~Committed(t)
        /\ th[t].op # "apply"
    BY <1>1, <1>2 DEF UpdateEnv, RowOK, Committed
  <2>2. CASE th[t].op = "upgrade"
    <3>1. CASE th[t].undo
      <4>1. Moves(t, "restoreFiles") /\ MayMove(t, "restoreFiles")
        BY <2>1, <2>2, <3>1 DEF AfterEnv, Moves, MayMove
      <4> QED BY <4>1, MoveStep
    <3>2. CASE ~th[t].undo
      <4>1. Moves(t, "up") /\ MayMove(t, "up")
        BY <2>1, <2>2, <3>2 DEF AfterEnv, Moves, MayMove
      <4> QED BY <4>1, MoveStep
    <3> QED BY <3>1, <3>2
  <2>3. ASSUME th[t].op \in {"deployment", "rollback"}, th[t].backup = {},
               AfterEnv(t) = FirewallEntry(t)
        PROVE  RowStep(t)
    <3>1. CASE WantedRule(t) = None
      <4>1. Moves(t, "rmRead") /\ MayMove(t, "rmRead")
        BY <2>1, <2>3, <3>1 DEF FirewallEntry, Moves, MayMove
      <4> QED BY <4>1, MoveStep
    <3>2. CASE WantedRule(t) # None
      <4>1. th[t].undo \/ th[t].op = "rollback" => th[t].firewall \in Networks
        BY <1>1, <2>1, <2>3, <3>2 DEF WantedRule, RowOK, Rules
      <4>2. Moves(t, "fwRead") /\ MayMove(t, "fwRead")
        BY <2>1, <2>3, <3>2, <4>1 DEF FirewallEntry, Moves, MayMove
      <4> QED BY <4>2, MoveStep
    <3> QED BY <3>1, <3>2
  <2>4. CASE th[t].op = "deployment"
    BY <1>1, <2>3, <2>4 DEF AfterEnv, RowOK
  <2>5. CASE th[t].op = "rollback" /\ th[t].backup = {}
    BY <2>3, <2>5 DEF AfterEnv
  <2>6. CASE th[t].op = "rollback" /\ th[t].backup # {}
    <3>1. Moves(t, "restoreFiles") /\ MayMove(t, "restoreFiles")
      BY <2>1, <2>6 DEF AfterEnv, Moves, MayMove
    <3> QED BY <3>1, MoveStep
  <2> QED BY <1>1, <2>1, <2>2, <2>4, <2>5, <2>6 DEF Operations
<1>3. CASE ComposeUp(t)
  <2>1. /\ th[t].undo => \E outcome \in Failed :
                               MayFinish(t, outcome) /\ Finish(t, outcome)
        /\ ~th[t].undo => MayMove(t, "health") /\ Moves(t, "health")
    BY <1>1, <1>3 DEF ComposeUp, RowOK, MayFinish, JobStatus, Failed, Moves, MayMove, Committed
  <2> QED BY <2>1, MoveStep, FinishStep
<1>4. CASE HealthCheck(t)
  <2>1. th[t].pc = "health" /\ th[t].op # "apply" /\ ~th[t].undo
    BY <1>1, <1>4 DEF HealthCheck, RowOK
  <2>2. MayFinish(t, "succeeded") /\ MayFinish(t, "failed")
    BY <2>1 DEF MayFinish, JobStatus, Failed
  <2>3. th[t].op # "rollback" => MayMove(t, "recLoad")
    BY <1>1, <2>1 DEF MayMove, Committed, Operations
  <2>4. th[t].op # "rollback" => th[t].op \in {"deployment", "upgrade"}
    BY <1>1, <2>1 DEF Operations
  <2>5. CASE Finish(t, "succeeded") \/ Finish(t, "failed")
    BY <2>2, <2>5, FinishStep
  <2>6. CASE th[t].op # "rollback" /\ Goto(t, "recLoad")
    BY <2>3, <2>6, MoveStep DEF Moves
  <2>7. CASE th[t].op # "rollback" /\ Undo(t)
    BY <2>1, <2>4, <2>7, UndoStep
  <2> QED BY <1>4, <2>5, <2>6, <2>7 DEF HealthCheck
<1>5. CASE RestoreRuntime(t) \/ StopApp(t) \/ DropDatabase(t) \/ LoadDatabase(t)
  <2>1. th[t].pc \in RestoreSteps
    BY <1>5 DEF RestoreRuntime, StopApp, DropDatabase, LoadDatabase
  <2>2. PICK step \in {"dbStop", "dbDrop", "dbLoad", "up"} : Goto(t, step)
    BY <1>5 DEF RestoreRuntime, StopApp, DropDatabase, LoadDatabase
  <2>3. MayMove(t, step)
    BY <1>1, <2>1, <2>2 DEF RowOK, MayMove, Committed
  <2> QED BY <2>2, <2>3, MoveStep DEF Moves
<1> QED BY <1>2, <1>3, <1>4, <1>5

\* The commands that can fail.
Fallible == {"env", "fwDelete", "fwAdd", "rmDelete", "up", "dbStop", "health",
             "prepare", "backup", "copyFiles", "deployFiles", "restoreFiles",
             "unmix", "dbDrop", "dbLoad"}

LEMMA FailingSteps ==
    ASSUME NEW t, CommandFails(t) PROVE th[t].pc \in Fallible
<1>1. CommandAt(th[t].pc) \in Commands
  BY HostAgentAssumption DEF CommandFails
<1> QED BY <1>1 DEF CommandAt, Commands, Fallible

LEMMA RaiseStep ==
    ASSUME TypeOK, ControlInv, NEW t \in Threads, th[t].pc \in Fallible, Raise(t)
    PROVE  RowStep(t)
<1>1. RowOK(t, th[t]) /\ th[t].op \in Operations
  BY DEF ControlInv, TypeOK, Thread
<1>2. CASE Goto(t, "done")
  BY <1>2, DoneStep
<1>3. CASE th[t].pc = "deployFiles" /\ Goto(t, "unmix")
  <2>1. MayMove(t, "unmix")
    BY <1>1, <1>3 DEF RowOK, MayMove, Committed, Active, JobSteps, FirewallSteps,
          FirewallAdds, UpgradeSteps, RestoreSteps, RecordSteps, SaveSteps, Prepared
  <2> QED BY <1>3, <2>1, MoveStep DEF Moves
<1>4. CASE /\ Undo(t)
           /\ \/ th[t].op = "upgrade" /\ th[t].pc \in {"env", "up", "health"}
              \/ th[t].op = "deployment" /\ th[t].pc = "health"
  BY <1>4, UndoStep
<1>5. CASE th[t].op # "apply" /\ Finish(t, "failed")
  <2>1. MayFinish(t, "failed")
    BY <1>1, <1>5 DEF MayFinish, JobStatus, Failed, Fallible, Active, JobSteps, FirewallSteps,
          SaveSteps
  <2> QED BY <1>5, <2>1, FinishStep
<1> QED BY <1>2, <1>3, <1>4, <1>5 DEF Raise

LEMMA ThreadSteps ==
    ASSUME TypeOK, ControlInv, NEW t \in Threads, Request(t) \/ Step(t)
    PROVE  RowStep(t)
<1>1. CASE CommandFails(t)
  BY <1>1, FailingSteps, RaiseStep DEF CommandFails
<1>2. CASE BackupUnavailable(t)
  BY <1>2, RaiseStep DEF BackupUnavailable, Fallible, At
<1> QED BY <1>1, <1>2, RequestStep, ReadingSteps, RuleSteps, SavingSteps,
           UpgradingSteps, SharedSteps DEF Step, JobStep

-----------------------------------------------------------------------------
(***************************************************************************)
(* Types.                                                                  *)
(***************************************************************************)
\* TypeOK but for the threads.
HostTypes ==
    /\ env \in EnvFile /\ ufw \subseteq Networks /\ app \in Container
    /\ runtime \in Releases \cup {Mixed} /\ db \in Database /\ active \in Networks
    /\ dump \in [Threads -> Database \cup {NoDump}]
    /\ files \in [Threads -> Releases \cup {Mixed, Absent}]
    /\ store \in State /\ jobs \in [Threads -> JobStatus]
    /\ refresh \in BOOLEAN /\ failures \in 0 .. MaxFailures
    /\ crashes \in 0 .. MaxCrashes /\ alarm \subseteq Threads

\* The rule that a thread adds is one of a published range.
LEMMA WantedRuleType ==
    ASSUME ControlInv, NEW t \in Threads, th[t].pc \in FirewallAdds,
           th[t].op \in Operations
    PROVE  WantedRule(t) \in Networks
<1>1. RowOK(t, th[t])
  BY DEF ControlInv
<1> QED BY <1>1 DEF RowOK, WantedRule, FirewallAdds, FirewallSteps, Active, Operations

LEMMA MigrateType ==
    ASSUME NEW d \in Database, NEW r \in Releases
    PROVE  Migrate(d, r) \in Database /\ Migrate(d, r).data = d.data
BY DEF Migrate, Database

LEMMA RecreateType ==
    ASSUME HostTypes, RecreateApp
    PROVE  app' \in Container /\ db' \in Database /\ db'.data = db.data
<1>1. env.net \in Networks /\ env.img \in Releases
  BY DEF HostTypes, EnvFile
<1>2. app' \in Container
  BY <1>1 DEF RecreateApp, Container
<1> QED BY <1>1, <1>2, MigrateType DEF HostTypes, RecreateApp

LEMMA UpdateType ==
    ASSUME TypeOK, ControlInv, NEW t \in Threads, At(t, "env")
    PROVE  Update(env, Changes(t)) \in EnvFile
<1>1. RowOK(t, th[t]) /\ th[t] \in Thread /\ env \in EnvFile
  BY DEF ControlInv, TypeOK
<1>2. /\ th[t].op \in Operations \ {"apply"} /\ th[t].env \in EnvChanges
      /\ th[t].op = "deployment" => th[t].arg \in Networks
      /\ th[t].op = "upgrade" => th[t].arg \in Releases
  BY <1>1 DEF RowOK, Thread, At, Active, JobSteps, FirewallSteps, FirewallAdds
<1>3. Changes(t) \in EnvChanges
  <2>1. ASSUME NEW n \in Networks PROVE [NoChanges EXCEPT !.net = n] \in EnvChanges
    BY DEF NoChanges, EnvChanges
  <2>2. ASSUME NEW r \in Releases PROVE [NoChanges EXCEPT !.img = r] \in EnvChanges
    BY DEF NoChanges, EnvChanges
  <2> QED BY <1>2, <2>1, <2>2 DEF Changes, Operations
<1> HIDE DEF Changes
<1> QED BY <1>1, <1>3 DEF Update, EnvFile, EnvChanges

\* What _save_job, apply_firewall and a successful job write to the file.
LEMMA StoreType ==
    ASSUME TypeOK, ControlInv, NEW t \in Threads,
           SaveWrite(t) \/ WriteRule(t) \/ ForgetRule(t) \/ WriteRecord(t)
    PROVE  store' \in State
<1>1. /\ th[t] \in Thread /\ th[t].copy \in State /\ th[t].status \in JobStatus
      /\ th[t].op \in Operations
      /\ th[t].copy.jobs \in [Threads -> JobStatus]
  BY DEF TypeOK, Thread, State
<1>2. ASSUME NEW f \in Rules PROVE [th[t].copy EXCEPT !.firewall = f] \in State
  BY <1>1 DEF State
<1>3. CASE SaveWrite(t)
  <2> DEFINE saved == [th[t].copy.jobs EXCEPT ![t] = th[t].status]
  <2>1. saved \in [Threads -> JobStatus]
    BY <1>1
  <2>2. PICK gone \in SUBSET Threads : store' = [th[t].copy EXCEPT !.jobs =
                 [u \in Threads |-> IF u \in gone THEN "none" ELSE saved[u]]]
    BY <1>3 DEF SaveWrite
  <2>3. [u \in Threads |-> IF u \in gone THEN "none" ELSE saved[u]]
            \in [Threads -> JobStatus]
    BY <2>1 DEF JobStatus
  <2> HIDE DEF saved
  <2> QED BY <1>1, <2>2, <2>3 DEF State
<1>4. CASE WriteRule(t)
  <2>1. WantedRule(t) \in Rules
    BY <1>1, <1>4, WantedRuleType DEF WriteRule, At, FirewallAdds, Rules
  <2> QED BY <1>2, <1>4, <2>1 DEF WriteRule
<1>5. CASE ForgetRule(t)
  BY <1>2, <1>5 DEF ForgetRule, Rules
<1>6. CASE WriteRecord(t)
  <2> DEFINE record == [env |-> th[t].env, firewall |-> th[t].firewall,
                        backup |-> th[t].backup]
  <2>1. record \in Rollback
    BY <1>1 DEF Thread, Rollback
  <2>2. store' = [th[t].copy EXCEPT !.rollback = record]
    BY <1>6 DEF WriteRecord
  <2> HIDE DEF record
  <2> QED BY <1>1, <2>1, <2>2 DEF State
<1> QED BY <1>3, <1>4, <1>5, <1>6

\* The steps that leave the host alone.
Quiet(t) ==
    \/ Request(t) \/ StartJob(t) \/ SaveJob(t) \/ SaveLoad(t) \/ ScheduleRefresh(t)
    \/ DeploymentReads(t) \/ PrepareRelease(t) \/ ReadRollback(t) \/ HealthCheck(t)
    \/ LoadForRecord(t) \/ BackupUnavailable(t) \/ ReadPrevious(t) \/ LoadForRule(t)
    \/ ReadRule(t)

LEMMA QuietFrame ==
    ASSUME NEW t, Quiet(t)
    PROVE  UNCHANGED <<host, active, store, failures, crashes>>
<1>1. CASE Request(t)
  BY <1>1 DEF Request, RequestDeployment, RequestFirewall, RequestUpgrade,
        RequestRollback, ThreadOnly
<1>2. CASE \/ StartJob(t) \/ SaveJob(t) \/ SaveLoad(t) \/ ScheduleRefresh(t)
           \/ BackupUnavailable(t)
  BY <1>2 DEF StartJob, SaveJob, SaveLoad, ScheduleRefresh, BackupUnavailable, ThreadOnly
<1>3. CASE \/ DeploymentReads(t) \/ PrepareRelease(t) \/ ReadRollback(t)
           \/ HealthCheck(t) \/ LoadForRecord(t) \/ ReadPrevious(t)
           \/ LoadForRule(t) \/ ReadRule(t)
  BY <1>3 DEF DeploymentReads, PrepareRelease, ReadRollback, HealthCheck, LoadForRecord,
        ReadPrevious, LoadForRule, ReadRule, ThreadOnly
<1> QED BY <1>1, <1>2, <1>3 DEF Quiet

LEMMA QuietTypes ==
    ASSUME TypeOK, NEW t \in Threads, Quiet(t)
    PROVE  HostTypes'
<1>1. HostTypes /\ th[t].status \in JobStatus
  BY DEF TypeOK, HostTypes, Thread
<1>2. UNCHANGED <<host, active, store, failures, crashes>>
  BY QuietFrame
<1>3. jobs' \in [Threads -> JobStatus] /\ refresh' \in BOOLEAN /\ alarm' \subseteq Threads
  <2>1. CASE SaveJob(t)
    BY <1>1, <2>1 DEF SaveJob, HostTypes
  <2>2. CASE ScheduleRefresh(t)
    BY <1>1, <2>2 DEF ScheduleRefresh, HostTypes
  <2>3. CASE BackupUnavailable(t)
    BY <1>1, <2>3 DEF BackupUnavailable, Log, HostTypes
  <2>4. CASE Request(t)
    BY <1>1, <2>4 DEF Request, RequestDeployment, RequestFirewall, RequestUpgrade,
          RequestRollback, ThreadOnly, HostTypes
  <2>5. CASE \/ StartJob(t) \/ SaveLoad(t)
             \/ DeploymentReads(t) \/ PrepareRelease(t) \/ ReadRollback(t)
             \/ HealthCheck(t) \/ LoadForRecord(t) \/ ReadPrevious(t)
             \/ LoadForRule(t) \/ ReadRule(t)
    BY <1>1, <2>5 DEF StartJob, SaveLoad, DeploymentReads, PrepareRelease, ReadRollback,
          HealthCheck, LoadForRecord, ReadPrevious, LoadForRule, ReadRule, ThreadOnly,
          HostTypes
  <2> QED BY <2>1, <2>2, <2>3, <2>4, <2>5 DEF Quiet
<1> QED BY <1>1, <1>2, <1>3 DEF HostTypes, host

LEMMA StepTypes ==
    ASSUME TypeOK, ControlInv, NEW t \in Threads, Step(t)
    PROVE  HostTypes'
<1>1. HostTypes /\ th[t] \in Thread /\ RowOK(t, th[t]) /\ th[t].op \in Operations
  BY DEF TypeOK, HostTypes, ControlInv, Thread
<1>2. CASE Quiet(t)
  BY <1>2, QuietTypes
<1>3. CASE SaveWrite(t) \/ WriteRule(t) \/ ForgetRule(t) \/ WriteRecord(t)
  <2>1. UNCHANGED <<host, active, jobs, refresh, failures, crashes, alarm>>
    BY <1>3 DEF SaveWrite, WriteRule, ForgetRule, WriteRecord
  <2>2. store' \in State
    BY <1>3, StoreType
  <2> QED BY <1>1, <2>1, <2>2 DEF HostTypes, host
<1>4. CASE DeletePrevious(t) \/ DeleteRule(t)
  BY <1>1, <1>4 DEF DeletePrevious, DeleteRule, HostOnly, HostTypes
<1>5. CASE AddRule(t)
  <2>1. WantedRule(t) \in Networks
    BY <1>1, <1>5, WantedRuleType DEF AddRule, At, FirewallAdds
  <2> QED BY <1>1, <1>5, <2>1 DEF AddRule, HostOnly, HostTypes
<1>6. CASE DatabaseBackup(t)
  <2>1. dump' \in [Threads -> Database \cup {NoDump}]
    BY <1>1, <1>6 DEF DatabaseBackup, HostTypes
  <2> QED BY <1>1, <1>6, <2>1 DEF DatabaseBackup, HostOnly, HostTypes
<1>7. CASE CopyRuntime(t)
  <2>1. files' \in [Threads -> Releases \cup {Mixed, Absent}]
    BY <1>1, <1>7 DEF CopyRuntime, HostTypes
  <2> QED BY <1>1, <1>7, <2>1 DEF CopyRuntime, HostOnly, HostTypes
<1>8. CASE DeployRuntime(t)
  <2>1. th[t].arg \in Releases
    BY <1>1, <1>8 DEF DeployRuntime, At, RowOK, Active, JobSteps, UpgradeSteps
  <2> QED BY <1>1, <1>8, <2>1 DEF DeployRuntime, HostOnly, HostTypes
<1>9. CASE RestoreAfterDeploy(t)
  <2>1. files[t] \in Releases \cup {Mixed}
    BY <1>1, <1>9 DEF RestoreAfterDeploy, At, ControlInv, HostTypes
  <2> QED BY <1>1, <1>9, <2>1 DEF RestoreAfterDeploy, HostOnly, HostTypes
<1>10. CASE UpdateEnv(t)
  <2>1. env' \in EnvFile
    BY <1>10, UpdateType DEF UpdateEnv
  <2> QED BY <1>1, <1>10, <2>1 DEF UpdateEnv, HostOnly, HostTypes
<1>11. CASE ComposeUp(t)
  <2>1. app' \in Container /\ db' \in Database
    BY <1>1, <1>11, RecreateType DEF ComposeUp
  <2> QED BY <1>1, <1>11, <2>1 DEF ComposeUp, HostOnly, HostTypes
<1>12. th[t].backup \subseteq Threads
  BY <1>1 DEF Thread
<1>13. CASE RestoreRuntime(t)
  <2>1. runtime' \in Releases \cup {Mixed}
    BY <1>1, <1>12, <1>13 DEF RestoreRuntime, HostTypes
  <2> QED BY <1>1, <1>13, <2>1 DEF RestoreRuntime, HostOnly, HostTypes
<1>14. [app EXCEPT !.up = FALSE] \in Container /\ EmptyDatabase \in Database
  BY <1>1 DEF HostTypes, Container, EmptyDatabase, Database
<1>15. CASE StopApp(t)
  BY <1>1, <1>14, <1>15 DEF StopApp, HostOnly, HostTypes
<1>16. CASE DropDatabase(t)
  BY <1>1, <1>14, <1>16 DEF DropDatabase, HostOnly, HostTypes
<1>17. CASE LoadDatabase(t)
  <2>1. db' \in Database
    BY <1>1, <1>12, <1>17 DEF LoadDatabase, HostTypes
  <2> QED BY <1>1, <1>17, <2>1 DEF LoadDatabase, HostOnly, HostTypes
<1>18. CASE UnlinkPrevious(t)
  <2> DEFINE old == th[t].copy.rollback.backup
  <2>1. /\ dump' = [u \in Threads |-> IF u \in old THEN NoDump ELSE dump[u]]
        /\ files' = [u \in Threads |-> IF u \in old THEN Absent ELSE files[u]]
    BY <1>18 DEF UnlinkPrevious
  <2> HIDE DEF old
  <2>2. dump' \in [Threads -> Database \cup {NoDump}]
    BY <1>1, <2>1 DEF HostTypes
  <2>3. files' \in [Threads -> Releases \cup {Mixed, Absent}]
    BY <1>1, <2>1 DEF HostTypes
  <2> QED BY <1>1, <1>18, <2>2, <2>3 DEF UnlinkPrevious, HostOnly, HostTypes
<1>19. CASE CommandFails(t)
  <2>1. failures' \in 0 .. MaxFailures
    BY <1>1, <1>19, HostAgentAssumption DEF CommandFails, HostTypes
  <2>2. alarm' \subseteq Threads
    BY <1>1, <1>19 DEF CommandFails, Log, HostTypes
  <2>3. app' \in Container /\ db' \in Database /\ runtime' \in Releases \cup {Mixed}
    BY <1>1, <1>14, <1>19 DEF CommandFails, PartialEffect, HostTypes
  <2>4. UNCHANGED <<env, ufw, dump, files, active, store, jobs, refresh, crashes>>
    BY <1>19 DEF CommandFails, PartialEffect
  <2> QED BY <1>1, <2>1, <2>2, <2>3, <2>4 DEF HostTypes
<1> QED BY <1>2, <1>3, <1>4, <1>5, <1>6, <1>7, <1>8, <1>9, <1>10, <1>11, <1>13, <1>15,
           <1>16, <1>17, <1>18, <1>19 DEF Quiet, Step, JobStep, FirewallStep

\* A restart of the agent.
LEMMA KillRows ==
    ASSUME TypeOK, ControlInv, KillThreads
    PROVE  /\ th' \in [Threads -> Thread]
           /\ \A u \in Threads : th'[u] = th[u] \/ th'[u] = Ended(u, "dead")
           /\ jobs' \in [Threads -> JobStatus]
BY EndedRow, ConstantTypes DEF KillThreads, TypeOK

LEMMA TypeStep == TypeOK /\ ControlInv /\ [Next]_vars => TypeOK'
<1> SUFFICES ASSUME TypeOK, ControlInv, [Next]_vars PROVE TypeOK'
  OBVIOUS
<1>1. HostTypes
  BY DEF TypeOK, HostTypes
<1>2. ASSUME NEW t \in Threads, Request(t) \/ Step(t) PROVE TypeOK'
  <2>1. th' \in [Threads -> Thread]
    BY <1>2, ThreadSteps DEF RowStep, Framed
  <2>2. HostTypes'
    BY <1>2, StepTypes, QuietTypes DEF Quiet
  <2> QED BY <2>1, <2>2 DEF TypeOK, HostTypes
<1>3. CASE \E n \in Networks : SetActiveRange(n)
  <2>1. active' \in Networks
    BY <1>3 DEF SetActiveRange
  <2> QED BY <1>3, <2>1 DEF SetActiveRange, TypeOK, host
<1>4. CASE Crash
  <2>1. th' \in [Threads -> Thread] /\ jobs' \in [Threads -> JobStatus]
    BY <1>4, KillRows DEF Crash
  <2>2. crashes' \in 0 .. MaxCrashes /\ runtime' \in Releases \cup {Mixed}
    BY <1>1, <1>4, HostAgentAssumption DEF Crash, HostTypes
  <2> QED BY <1>4, <2>1, <2>2 DEF Crash, TypeOK
<1>5. CASE AgentRefresh
  <2>1. th' \in [Threads -> Thread] /\ jobs' \in [Threads -> JobStatus]
    BY <1>5, KillRows DEF AgentRefresh
  <2>2. app' \in Container /\ db' \in Database
    BY <1>1, <1>5, RecreateType DEF AgentRefresh
  <2> QED BY <1>5, <2>1, <2>2 DEF AgentRefresh, TypeOK
<1>6. CASE OperatorStarts
  <2>1. app' \in Container /\ db' \in Database
    BY <1>1, <1>6, RecreateType DEF OperatorStarts
  <2> QED BY <1>6, <2>1 DEF OperatorStarts, TypeOK
<1>7. CASE UNCHANGED vars
  BY <1>7 DEF vars, host, TypeOK
<1> QED BY <1>2, <1>3, <1>4, <1>5, <1>6, <1>7 DEF Next

-----------------------------------------------------------------------------
(***************************************************************************)
(* Control: what a thread has read is what its later steps rely on.        *)
(***************************************************************************)
\* The steps with a command on the host.
HostStep(t) ==
    \/ DeletePrevious(t) \/ DeleteRule(t) \/ AddRule(t)
    \/ DeployRuntime(t) \/ RestoreAfterDeploy(t) \/ UpdateEnv(t) \/ ComposeUp(t)
    \/ RestoreRuntime(t) \/ StopApp(t) \/ DropDatabase(t) \/ LoadDatabase(t)
    \/ CommandFails(t)

LEMMA HostStepFrame ==
    ASSUME NEW t, HostStep(t)
    PROVE  UNCHANGED <<store, dump, files>>
<1>1. CASE DeletePrevious(t) \/ DeleteRule(t) \/ AddRule(t) \/ DeployRuntime(t)
  BY <1>1 DEF DeletePrevious, DeleteRule, AddRule, DeployRuntime, HostOnly
<1>2. CASE RestoreAfterDeploy(t) \/ UpdateEnv(t) \/ ComposeUp(t) \/ RestoreRuntime(t)
  BY <1>2 DEF RestoreAfterDeploy, UpdateEnv, ComposeUp, RestoreRuntime, HostOnly
<1>3. CASE StopApp(t) \/ DropDatabase(t) \/ LoadDatabase(t)
  BY <1>3 DEF StopApp, DropDatabase, LoadDatabase, HostOnly
<1>4. CASE CommandFails(t)
  BY <1>4 DEF CommandFails, PartialEffect
<1> QED BY <1>1, <1>2, <1>3, <1>4 DEF HostStep

\* Every step of a thread is one of these.
LEMMA StepKinds ==
    ASSUME NEW t, Request(t) \/ Step(t)
    PROVE  \/ Quiet(t) \/ HostStep(t)
           \/ SaveWrite(t) \/ WriteRule(t) \/ ForgetRule(t) \/ WriteRecord(t)
           \/ DatabaseBackup(t) \/ CopyRuntime(t) \/ UnlinkPrevious(t)
BY DEF Quiet, HostStep, Step, JobStep, FirewallStep

\* What a step does to the rollback record.
RecordEffect(t) ==
    \/ store'.rollback \in {store.rollback, th[t].copy.rollback}
    \/ /\ At(t, "recWrite") /\ th'[t].pc = "save" /\ th'[t].status = "succeeded"
       /\ store'.rollback = [env |-> th[t].env, firewall |-> th[t].firewall,
                             backup |-> th[t].backup]

LEMMA RecordEffects ==
    ASSUME TypeOK, NEW t \in Threads, Request(t) \/ Step(t)
    PROVE  RecordEffect(t)
<1>1. th[t].copy \in State
  BY DEF TypeOK, Thread
<1>2. CASE UNCHANGED store
  BY <1>2 DEF RecordEffect
<1>3. CASE SaveWrite(t) \/ WriteRule(t) \/ ForgetRule(t)
  <2>1. store'.rollback = th[t].copy.rollback
    <3>1. CASE SaveWrite(t)
      <4>1. PICK j : store' = [th[t].copy EXCEPT !.jobs = j]
        BY <3>1 DEF SaveWrite
      <4> QED BY <1>1, <4>1 DEF State
    <3>2. CASE WriteRule(t)
      BY <1>1, <3>2 DEF WriteRule, State
    <3>3. CASE ForgetRule(t)
      BY <1>1, <3>3 DEF ForgetRule, State
    <3> QED BY <1>3, <3>1, <3>2, <3>3
  <2> QED BY <2>1 DEF RecordEffect
<1>4. CASE WriteRecord(t)
  <2>1. th'[t].pc = "save" /\ th'[t].status = "succeeded"
    BY <1>4, FinishRow DEF WriteRecord, JobStatus
  <2>2. store'.rollback = [env |-> th[t].env, firewall |-> th[t].firewall,
                           backup |-> th[t].backup]
    BY <1>1, <1>4 DEF WriteRecord, State
  <2> QED BY <1>4, <2>1, <2>2 DEF WriteRecord, RecordEffect
<1>5. CASE Quiet(t)
  BY <1>2, <1>5, QuietFrame
<1>6. CASE HostStep(t)
  BY <1>2, <1>6, HostStepFrame
<1>7. CASE DatabaseBackup(t) \/ CopyRuntime(t) \/ UnlinkPrevious(t)
  BY <1>2, <1>7 DEF DatabaseBackup, CopyRuntime, UnlinkPrevious, HostOnly
<1> QED BY <1>3, <1>4, <1>5, <1>6, <1>7, StepKinds

\* A backup is named only once its job has recorded it, and stays named only
\* in copies of the record.
LEMMA RecordedStep ==
    ASSUME TypeOK, ControlInv, NEW t \in Threads, Request(t) \/ Step(t)
    PROVE  \A u \in Recorded' : u \in Recorded \/ (u = t /\ At(t, "recWrite")
                                                   /\ Committed(t)')
<1>1. RowStep(t) /\ RecordEffect(t)
  BY ThreadSteps, RecordEffects
<1>2. /\ \A u \in Threads \ {t} : th'[u] = th[u]
      /\ th'[t].copy \in {th[t].copy, store, NoState}
  BY <1>1 DEF RowStep, Framed
<1>3. NoState.rollback.backup = {}
  BY ConstantTypes
<1>4. \A u \in Threads : \A b \in th'[u].copy.rollback.backup : b \in Recorded
  BY <1>2, <1>3 DEF Recorded
<1>5. ASSUME NEW b \in store'.rollback.backup
      PROVE  b \in Recorded \/ (b = t /\ At(t, "recWrite") /\ Committed(t)')
  <2>1. CASE store'.rollback \in {store.rollback, th[t].copy.rollback}
    BY <1>5, <2>1 DEF Recorded
  <2>2. CASE /\ At(t, "recWrite") /\ th'[t].pc = "save" /\ th'[t].status = "succeeded"
             /\ store'.rollback = [env |-> th[t].env, firewall |-> th[t].firewall,
                                   backup |-> th[t].backup]
    <3>1. th[t].backup \subseteq {t}
      BY <2>2 DEF ControlInv, RowOK, At, RecordSteps
    <3>2. Committed(t)'
      BY <2>2 DEF Committed, SaveSteps
    <3> QED BY <1>5, <2>2, <3>1, <3>2
  <2> QED BY <1>1, <2>1, <2>2 DEF RecordEffect
<1>6. SUFFICES ASSUME NEW b \in Recorded'
               PROVE  b \in Recorded \/ (b = t /\ At(t, "recWrite") /\ Committed(t)')
  OBVIOUS
<1>7. CASE b \in store'.rollback.backup
  BY <1>5, <1>7
<1>8. CASE \E u \in Threads : b \in th'[u].copy.rollback.backup
  BY <1>4, <1>8
<1> QED BY <1>6, <1>7, <1>8 DEF Recorded

\* An upgrade that makes its backups goes on, or fails.
LEMMA BackupSteps ==
    ASSUME TypeOK, ControlInv, NEW t \in Threads, Request(t) \/ Step(t),
           th[t].pc \in {"backup", "copyFiles"}
    PROVE  DatabaseBackup(t) \/ CopyRuntime(t) \/ th'[t].pc = "save"
<1>1. DatabaseBackup(t) \/ CopyRuntime(t) \/ CommandFails(t)
  BY DEF Request, RequestDeployment, RequestFirewall, RequestUpgrade,
         RequestRollback, Step, JobStep, FirewallStep, StartJob, SaveJob, SaveLoad,
         SaveWrite, ScheduleRefresh, DeploymentReads, PrepareRelease, DatabaseBackup,
         CopyRuntime, DeployRuntime, RestoreAfterDeploy, ReadRollback, UpdateEnv,
         ComposeUp, HealthCheck, RestoreRuntime, StopApp, DropDatabase, LoadDatabase,
         LoadForRecord, UnlinkPrevious, WriteRecord, BackupUnavailable, ReadPrevious,
         DeletePrevious, AddRule, LoadForRule, WriteRule, ReadRule, DeleteRule,
         ForgetRule, At
<1>2. CASE CommandFails(t)
  <2>1. th[t].op = "upgrade"
    BY DEF ControlInv, RowOK, UpgradeSteps
  <2>2. Finish(t, "failed")
    BY <1>2, <2>1 DEF CommandFails, Raise
  <2> QED BY <2>2, FinishRow DEF JobStatus
<1> QED BY <1>1, <1>2

\* The copy of the runtime files that _deploy_runtime falls back on.
LEMMA FilesStep ==
    ASSUME TypeOK, ControlInv, NEW t \in Threads, Request(t) \/ Step(t),
           NEW u \in Threads, th'[u].pc \in {"deployFiles", "unmix"}
    PROVE  files'[u] # Absent
<1>1. RowStep(t)
  BY ThreadSteps
<1>2. u # t => th'[u] = th[u]
  BY <1>1 DEF RowStep, Framed
<1>3. files \in [Threads -> Releases \cup {Mixed, Absent}]
      /\ runtime \in Releases \cup {Mixed} /\ Absent \notin Releases \cup {Mixed}
  BY HostAgentAssumption DEF TypeOK, Releases, Mixed, Absent
<1>4. CASE CopyRuntime(t)
  <2>1. files' = [files EXCEPT ![t] = runtime]
    BY <1>4 DEF CopyRuntime
  <2> QED BY <1>2, <1>3, <2>1 DEF ControlInv
<1>5. u = t /\ ~CopyRuntime(t) => th[t].pc = "deployFiles"
  <2>1. SUFFICES ASSUME u = t, ~CopyRuntime(t), th[t].pc = "copyFiles"
                 PROVE  FALSE
    BY <1>1 DEF RowStep
  <2>2. ~DatabaseBackup(t)
    BY <2>1 DEF DatabaseBackup, At
  <2> QED BY <2>1, <2>2, BackupSteps
<1>6. ~CopyRuntime(t) => th[u].pc \in {"deployFiles", "unmix"} /\ files[u] # Absent
  BY <1>2, <1>5 DEF ControlInv
<1>7. CASE UnlinkPrevious(t)
  <2>1. ~CopyRuntime(t)
    BY <1>7 DEF UnlinkPrevious, CopyRuntime, At
  <2>2. u \notin th[t].copy.rollback.backup
    <3>1. ~Committed(u)
      BY <1>6, <2>1 DEF Committed, SaveSteps
    <3>2. th[t].copy.rollback.backup \subseteq Recorded
      BY DEF Recorded
    <3> QED BY <3>1, <3>2 DEF ControlInv
  <2>3. files'[u] = files[u]
    BY <1>7, <2>2 DEF UnlinkPrevious
  <2> QED BY <1>6, <2>1, <2>3
<1>8. CASE UNCHANGED files /\ ~CopyRuntime(t)
  BY <1>6, <1>8
<1>9. CASE \/ Quiet(t) \/ HostStep(t) \/ SaveWrite(t) \/ WriteRule(t) \/ ForgetRule(t)
           \/ WriteRecord(t) \/ DatabaseBackup(t)
  <2>1. UNCHANGED files
    BY <1>9, QuietFrame, HostStepFrame DEF SaveWrite, WriteRule, ForgetRule, WriteRecord,
          DatabaseBackup, host
  <2> QED BY <1>4, <1>8, <2>1
<1> QED BY <1>4, <1>7, <1>9, StepKinds

\* A restart leaves every thread as it was or dead.
LEMMA KilledRows ==
    ASSUME TypeOK, ControlInv, KillThreads, NEW u \in Threads
    PROVE  /\ RowOK(u, th'[u])
           /\ Committed(u) => Committed(u)'
           /\ Retired(u) => Retired(u)'
           /\ Restorer(u)' => Restorer(u)
           /\ th'[u].copy \in {th[u].copy, NoState}
           /\ th'[u].pc \in {"deployFiles", "unmix"} => th'[u] = th[u]
<1>1. CASE th'[u] = th[u]
  BY <1>1 DEF ControlInv, Committed, Retired, Restorer
<1>2. CASE th'[u] = Ended(u, "dead")
  <2>1. /\ th'[u].pc = "dead" /\ th'[u].undo = FALSE
        /\ th'[u].backup = {} /\ th'[u].copy = NoState
    BY <1>2, EndedRow
  <2>2. RecordOK(th'[u].copy.rollback)
    BY <2>1, ConstantTypes
  <2>3. RowOK(u, th'[u])
    BY <2>1, <2>2 DEF RowOK, Active, JobSteps, FirewallSteps, FirewallAdds,
          UpgradeSteps, RestoreSteps, RecordSteps, SaveSteps, Prepared
  <2> QED BY <2>1, <2>3 DEF Committed, Retired, Restorer, RestoreSteps
<1> QED BY <1>1, <1>2, KillRows

LEMMA KilledRecorded ==
    ASSUME TypeOK, ControlInv, KillThreads, UNCHANGED store
    PROVE  \A u \in Recorded' : u \in Recorded
<1>1. \A u \in Threads : th'[u].copy \in {th[u].copy, NoState}
  BY KilledRows
<1>2. NoState.rollback.backup = {}
  BY ConstantTypes
<1> QED BY <1>1, <1>2 DEF Recorded

LEMMA ControlStep == TypeOK /\ ControlInv /\ [Next]_vars => ControlInv'
<1> SUFFICES ASSUME TypeOK, ControlInv, [Next]_vars PROVE ControlInv'
  OBVIOUS
<1>1. Recorded \subseteq Threads
  BY DEF Recorded, TypeOK, Thread, State, Rollback
<1>2. ASSUME NEW t \in Threads, Request(t) \/ Step(t) PROVE ControlInv'
  <2>1. RowStep(t) /\ RecordEffect(t)
    BY <1>2, ThreadSteps, RecordEffects
  <2>2. \A u \in Threads \ {t} : th'[u] = th[u]
    BY <2>1 DEF RowStep, Framed
  <2>3. \A u \in Threads : RowOK(u, th'[u])
    BY <2>1, <2>2 DEF RowStep, ControlInv
  <2>4. \A u \in Threads : Committed(u) => Committed(u)'
    BY <2>1, <2>2 DEF RowStep, Committed
  <2>5. RecordOK(store'.rollback)
    <3>1. CASE store'.rollback \in {store.rollback, th[t].copy.rollback}
      BY <3>1 DEF ControlInv, RowOK
    <3>2. CASE /\ At(t, "recWrite")
               /\ store'.rollback = [env |-> th[t].env, firewall |-> th[t].firewall,
                                     backup |-> th[t].backup]
      <4>1. th[t].op = "deployment" \/ th[t].op = "upgrade"
        BY <3>2 DEF ControlInv, RowOK, At, RecordSteps
      <4>2. th[t].firewall \in Rules \/ th[t].backup = {t}
        BY <3>2, <4>1 DEF ControlInv, RowOK, At, Prepared, RecordSteps
      <4> QED BY <3>2, <4>2 DEF RecordOK
    <3> QED BY <2>1, <3>1, <3>2 DEF RecordEffect
  <2>6. \A u \in Recorded' : Committed(u)'
    BY <1>1, <1>2, <2>4, RecordedStep DEF ControlInv
  <2>7. \A u \in Threads : th'[u].pc \in {"deployFiles", "unmix"} => files'[u] # Absent
    BY <1>2, FilesStep
  <2> QED BY <2>3, <2>5, <2>6, <2>7 DEF ControlInv
<1>3. CASE KillThreads /\ UNCHANGED <<store, files>>
  <2>1. \A u \in Recorded' : Committed(u)'
    BY <1>1, <1>3, KilledRows, KilledRecorded DEF ControlInv
  <2>2. RecordOK(store'.rollback) /\ \A u \in Threads : RowOK(u, th'[u])
    BY <1>3, KilledRows DEF ControlInv
  <2>3. \A u \in Threads : th'[u].pc \in {"deployFiles", "unmix"} => files'[u] # Absent
    BY <1>3, KilledRows DEF ControlInv
  <2> QED BY <2>1, <2>2, <2>3 DEF ControlInv
<1>4. CASE UNCHANGED <<th, store, files>>
  BY <1>4 DEF ControlInv, Recorded, Committed
<1> QED BY <1>2, <1>3, <1>4 DEF Next, SetActiveRange, Crash, AgentRefresh,
           OperatorStarts, vars, host

LEMMA ControlInit == Init => TypeOK /\ ControlInv
<1> SUFFICES ASSUME Init PROVE TypeOK /\ ControlInv
  OBVIOUS
<1>1. /\ env \in EnvFile /\ env.net \in Networks /\ env.img \in Releases
      /\ active \in Networks /\ NoDump \in {NoDump}
  BY HostAgentAssumption DEF Init, EnvFile, Networks
<1>2. TypeOK
  <2>1. app \in Container /\ db \in Database
    BY <1>1 DEF Init, Container, Database
  <2>2. /\ store \in State /\ jobs \in [Threads -> JobStatus]
        /\ th \in [Threads -> Thread]
    BY ConstantTypes DEF Init
  <2>3. failures \in 0 .. MaxFailures /\ crashes \in 0 .. MaxCrashes
    BY HostAgentAssumption DEF Init
  <2>4. /\ dump \in [Threads -> Database \cup {NoDump}]
        /\ files \in [Threads -> Releases \cup {Mixed, Absent}]
    BY DEF Init
  <2> QED BY <1>1, <2>1, <2>2, <2>3, <2>4 DEF Init, TypeOK
<1>3. \A t \in Threads : th[t] = NewThread /\ th[t].copy.rollback.backup = {}
  BY ConstantTypes DEF Init, NewThread
<1>4. store.rollback.backup = {} /\ RecordOK(store.rollback)
  BY ConstantTypes DEF Init
<1>5. \A t \in Threads : RowOK(t, NewThread)
  <2>1. RecordOK(NewThread.copy.rollback)
    BY ConstantTypes DEF NewThread
  <2> QED BY <2>1 DEF RowOK, NewThread, Active, JobSteps, FirewallSteps, FirewallAdds,
          UpgradeSteps, RestoreSteps, RecordSteps, SaveSteps, Prepared
<1>6. Recorded = {}
  BY <1>3, <1>4 DEF Recorded
<1>7. \A t \in Threads : th[t].pc = "idle"
  BY <1>3 DEF NewThread
<1> QED BY <1>2, <1>3, <1>4, <1>5, <1>6, <1>7 DEF ControlInv

LEMMA ControlCorrect == Spec => [](TypeOK /\ ControlInv)
<1>1. TypeOK /\ ControlInv /\ [Next]_vars => (TypeOK /\ ControlInv)'
  BY TypeStep, ControlStep
<1> QED BY <1>1, ControlInit, PTL DEF Spec

\* The host, the state file and the locals of every thread keep their types;
\* that a rule or a release which a job installs is a real one depends on what
\* its earlier steps have read (server.py, _execute_job).
THEOREM TypeCorrect == Spec => []TypeOK
BY ControlCorrect, PTL

-----------------------------------------------------------------------------
(***************************************************************************)
(* The data.  Without rollback requests only an upgrade drops the database,*)
(* and it has a backup of its own that no other job names.                 *)
(***************************************************************************)
DataEffect(t) ==
    \/ dump' = dump /\ db'.data = db.data
    \/ At(t, "backup") /\ dump' = [dump EXCEPT ![t] = db] /\ db' = db
    \/ At(t, "dbDrop") /\ dump' = dump
    \/ At(t, "dbLoad") /\ dump' = dump /\ \E b \in th[t].backup : db' = dump[b]
    \/ /\ At(t, "unlink") /\ db' = db
       /\ dump' = [u \in Threads |->
                      IF u \in th[t].copy.rollback.backup THEN NoDump ELSE dump[u]]

LEMMA DataEffects ==
    ASSUME TypeOK, NEW t \in Threads, Request(t) \/ Step(t)
    PROVE  DataEffect(t)
<1>1. CASE Quiet(t)
  <2>1. UNCHANGED <<dump, db>>
    BY <1>1, QuietFrame DEF host
  <2> QED BY <2>1 DEF DataEffect
<1>2. CASE SaveWrite(t) \/ WriteRule(t) \/ ForgetRule(t) \/ WriteRecord(t)
  <2>1. UNCHANGED <<dump, db>>
    BY <1>2 DEF SaveWrite, WriteRule, ForgetRule, WriteRecord, host
  <2> QED BY <2>1 DEF DataEffect
<1>3. CASE \/ DeletePrevious(t) \/ DeleteRule(t) \/ AddRule(t) \/ CopyRuntime(t)
           \/ DeployRuntime(t) \/ RestoreAfterDeploy(t) \/ UpdateEnv(t)
           \/ RestoreRuntime(t) \/ StopApp(t)
  <2>1. UNCHANGED <<dump, db>>
    BY <1>3 DEF DeletePrevious, DeleteRule, AddRule, CopyRuntime, DeployRuntime,
          RestoreAfterDeploy, UpdateEnv, RestoreRuntime, StopApp
  <2> QED BY <2>1 DEF DataEffect
<1>4. CASE ComposeUp(t)
  <2>1. HostTypes
    BY DEF TypeOK, HostTypes
  <2>2. dump' = dump /\ db'.data = db.data
    BY <1>4, <2>1, RecreateType DEF ComposeUp
  <2> QED BY <2>2 DEF DataEffect
<1>5. CASE DatabaseBackup(t)
  BY <1>5 DEF DatabaseBackup, DataEffect
<1>6. CASE DropDatabase(t)
  BY <1>6 DEF DropDatabase, DataEffect
<1>7. CASE LoadDatabase(t)
  BY <1>7 DEF LoadDatabase, DataEffect
<1>8. CASE UnlinkPrevious(t)
  BY <1>8 DEF UnlinkPrevious, DataEffect
<1>9. CASE CommandFails(t)
  BY <1>9 DEF CommandFails, PartialEffect, DataEffect
<1> QED BY <1>1, <1>2, <1>3, <1>4, <1>5, <1>6, <1>7, <1>8, <1>9, StepKinds DEF HostStep

\* A backup that nobody will remove any more stays.
LEMMA KeptStep ==
    ASSUME TypeOK, ControlInv, NEW t \in Threads, Request(t) \/ Step(t),
           NEW u \in Threads, Kept(u)
    PROVE  Kept(u)'
<1>1. RowStep(t) /\ DataEffect(t)
  BY ThreadSteps, DataEffects
<1>2. RowOK(t, th[t]) /\ dump \in [Threads -> Database \cup {NoDump}]
  BY DEF ControlInv, TypeOK
<1>3. Retired(u) /\ Retired(u)'
  BY <1>1 DEF RowStep, Framed, Kept, Retired
<1>4. u = t => th[t].pc \notin {"backup", "recWrite"}
  BY <1>2, <1>3 DEF RowOK, Retired, UpgradeSteps, RecordSteps
<1>5. u \notin Recorded'
  BY <1>4, RecordedStep DEF Kept, At
<1>6. u \notin th[t].copy.rollback.backup
  BY DEF Kept, Recorded
<1>7. dump'[u] = dump[u]
  BY <1>1, <1>2, <1>4, <1>6 DEF DataEffect, At
<1> QED BY <1>3, <1>5, <1>7 DEF Kept, Retired

LEMMA DataStep ==
    ASSUME "rollback" \notin Ops, TypeOK, ControlInv, DataInv, [Next]_vars
    PROVE  DataInv'
<1>1. ASSUME NEW t \in Threads, Request(t) \/ Step(t) PROVE DataInv'
  <2>1. RowStep(t) /\ DataEffect(t) /\ RowOK(t, th[t]) /\ th[t] \in Thread
        /\ dump \in [Threads -> Database \cup {NoDump}]
    BY <1>1, ThreadSteps, DataEffects DEF ControlInv, TypeOK
  <2>2. CASE \E u \in Threads : Kept(u)
    BY <1>1, <2>2, KeptStep DEF DataInv
  <2>3. CASE db.data /\ \A u \in Threads : Restorer(u) => dump[u].data
    <3>1. \A u \in Threads : Restorer(u)' => Restorer(u) \/ (u = t /\ At(t, "backup"))
      BY <2>1 DEF RowStep, Framed, Restorer
    <3>2. ASSUME th[t].pc \in RestoreSteps
          PROVE  /\ th[t].op = "upgrade" /\ th[t].undo /\ th[t].backup = {t}
                 /\ dump[t].data /\ ~Committed(t)
      <4>1. th[t].op \in Ops
        BY <2>1, <3>2 DEF RowOK, RestoreSteps, Active, JobSteps
      <4>2. th[t].op = "upgrade" /\ th[t].undo
        BY <2>1, <3>2, <4>1 DEF RowOK
      <4> QED BY <2>1, <2>3, <3>2, <4>2
              DEF RowOK, Prepared, RestoreSteps, Restorer, Committed, SaveSteps
    <3>3. CASE dump' = dump /\ db'.data = db.data /\ ~At(t, "backup")
      BY <2>3, <3>1, <3>3 DEF DataInv
    <3>4. CASE At(t, "backup") /\ dump' = dump /\ db'.data = db.data
      <4>1. CASE DatabaseBackup(t)
        <5>1. dump' = [dump EXCEPT ![t] = db] /\ db' = db
          BY <4>1 DEF DatabaseBackup
        <5> QED BY <2>1, <2>3, <3>1, <5>1 DEF DataInv
      <4>2. CASE th'[t].pc = "save"
        <5>1. ~Restorer(t)'
          BY <4>2 DEF Restorer, RestoreSteps
        <5> QED BY <2>3, <3>1, <3>4, <5>1 DEF DataInv
      <4> QED BY <1>1, <3>4, <4>1, <4>2, BackupSteps DEF CopyRuntime, At
    <3>5. CASE At(t, "backup") /\ dump' = [dump EXCEPT ![t] = db] /\ db' = db
      BY <2>1, <2>3, <3>1, <3>5 DEF DataInv
    <3>6. CASE At(t, "dbDrop") /\ dump' = dump
      <4>1. Kept(t)
        BY <3>2, <3>6 DEF Kept, At, RestoreSteps, ControlInv
      <4> QED BY <1>1, <4>1, KeptStep DEF DataInv
    <3>7. CASE At(t, "dbLoad") /\ dump' = dump /\ \E b \in th[t].backup : db' = dump[b]
      <4>1. db'.data
        BY <3>2, <3>7 DEF At, RestoreSteps
      <4> QED BY <2>3, <3>1, <3>7, <4>1 DEF DataInv, At
    <3>8. CASE /\ At(t, "unlink") /\ db' = db
               /\ dump' = [u \in Threads |->
                              IF u \in th[t].copy.rollback.backup THEN NoDump
                              ELSE dump[u]]
      <4>1. \A u \in Recorded : ~Restorer(u)
        BY DEF ControlInv, Committed, Restorer, RestoreSteps, SaveSteps
      <4>2. th[t].copy.rollback.backup \subseteq Recorded
        BY DEF Recorded
      <4> QED BY <2>3, <3>1, <3>8, <4>1, <4>2 DEF DataInv, At
    <3> QED BY <2>1, <3>3, <3>4, <3>5, <3>6, <3>7, <3>8 DEF DataEffect
  <2> QED BY <2>2, <2>3 DEF DataInv
<1>2. CASE KillThreads /\ UNCHANGED <<store, dump>> /\ db'.data = db.data
  <2>1. CASE \E u \in Threads : Kept(u)
    <3>1. PICK u \in Threads : Kept(u)
      BY <2>1
    <3>2. u \notin Recorded' /\ Retired(u)'
      BY <1>2, <3>1, KilledRows, KilledRecorded DEF Kept, Retired
    <3> QED BY <1>2, <3>1, <3>2 DEF DataInv, Kept, Retired
  <2>2. CASE db.data /\ \A u \in Threads : Restorer(u) => dump[u].data
    BY <1>2, <2>2, KilledRows DEF DataInv
  <2> QED BY <2>1, <2>2 DEF DataInv
<1>3. CASE UNCHANGED <<th, store, dump>> /\ db'.data = db.data
  BY <1>3 DEF DataInv, Kept, Restorer, Recorded
<1>4. RecreateApp => db'.data = db.data
  BY RecreateType DEF HostTypes, TypeOK
<1> QED BY <1>1, <1>2, <1>3, <1>4 DEF Next, SetActiveRange, Crash, AgentRefresh,
           OperatorStarts, vars, host

\* Whatever fails and however jobs overlap, the users' data is in the database
\* or in a backup on disk, as long as the owner does not ask for a rollback;
\* with a rollback it can be lost (server.py, _database_backup, _database_restore
\* and the unlink of the previous backup).
THEOREM DataNotLost ==
    ASSUME "rollback" \notin Ops
    PROVE  Spec => []DataRecoverable
<1>1. Init => DataInv
  BY DEF Init, DataInv, Restorer, NewThread
<1>2. TypeOK /\ ControlInv /\ DataInv /\ [Next]_vars => DataInv'
  BY DataStep
<1>3. DataInv => DataRecoverable
  BY DEF DataInv, DataRecoverable, Kept
<1> QED BY <1>1, <1>2, <1>3, ControlCorrect, PTL DEF Spec

-----------------------------------------------------------------------------
(***************************************************************************)
(* One operation at a time.  Where a step leads.                           *)
(***************************************************************************)
\* The other steps than those that rely on the copy of the state file, or on the
\* rules in force.
Plain == Pcs \ (CopySteps \cup {"fwAdd", "fwLoad"})

LEMMA GotoPc ==
    ASSUME TypeOK, NEW t \in Threads, NEW step \in Pcs, Goto(t, step)
    PROVE  /\ th'[t].pc = step /\ th'[t].status = th[t].status
           /\ step # "done" => th'[t].op = th[t].op
<1>1. CASE step = "done"
  BY <1>1, DoneRow, EndedRow
<1>2. CASE step # "done"
  BY <1>2, GotoRow DEF Locals
<1> QED BY <1>1, <1>2

\* A step that begins or ends a job, or fails.
LEMMA RaisePc ==
    ASSUME TypeOK, NEW t \in Threads, Raise(t)
    PROVE  /\ th'[t].pc \in {"done", "unmix", "env", "save"}
           /\ th'[t].pc = "done" => th[t].op = "apply"
           /\ th'[t].pc # "save" => th'[t].status = th[t].status
           /\ th'[t].pc # "done" => th'[t].op = th[t].op
           /\ th'[t].pc = "save" => th[t].op # "apply"
<1>1. CASE th[t].op = "apply" /\ Goto(t, "done")
  BY <1>1, GotoPc DEF Pcs
<1>2. CASE Goto(t, "unmix")
  BY <1>2, GotoPc DEF Pcs, JobSteps
<1>3. CASE Undo(t)
  BY <1>3, UndoRow DEF Locals
<1>4. CASE th[t].op # "apply" /\ Finish(t, "failed")
  BY <1>4, FinishRow DEF JobStatus, Locals
<1> QED BY <1>1, <1>2, <1>3, <1>4 DEF Raise

LEMMA RequestRow ==
    ASSUME TypeOK, ControlInv, NEW t \in Threads, Request(t)
    PROVE  /\ th[t] = NewThread /\ OwnerFree /\ ThreadOnly
           /\ th'[t].pc \in {"check", "fwRead"} /\ th'[t].status = "none"
<1>1. th[t].pc = "idle" /\ OwnerFree /\ ThreadOnly
  BY DEF Request, RequestDeployment, RequestFirewall, RequestUpgrade, RequestRollback, At
<1>2. th[t] = NewThread /\ th \in [Threads -> Thread]
  BY <1>1 DEF ControlInv, RowOK, TypeOK
<1>3. ASSUME NEW step \in {"check", "fwRead"}, NEW o, NEW a,
             th' = [th EXCEPT ![t].pc = step, ![t].op = o, ![t].arg = a]
      PROVE  th'[t].pc \in {"check", "fwRead"} /\ th'[t].status = "none"
  BY <1>2, <1>3 DEF NewThread
<1>4. CASE RequestRollback(t)
  BY <1>2, <1>4 DEF RequestRollback, NewThread
<1>5. CASE ~RequestRollback(t)
  <2>1. CASE \E n \in Networks : RequestDeployment(t, n)
    BY <1>1, <1>2, <1>3, <2>1 DEF RequestDeployment
  <2>2. CASE \E n \in Networks : RequestFirewall(t, n)
    BY <1>1, <1>2, <1>3, <2>2 DEF RequestFirewall
  <2>3. CASE \E r \in Releases : RequestUpgrade(t, r)
    BY <1>1, <1>2, <1>3, <2>3 DEF RequestUpgrade
  <2> QED BY <1>5, <2>1, <2>2, <2>3 DEF Request
<1> QED BY <1>1, <1>2, <1>4, <1>5

\* The steps that lead elsewhere than to a plain one.
Reads(t) ==
    \/ SaveLoad(t) \/ ReadPrevious(t) \/ DeletePrevious(t) \/ AddRule(t)
    \/ LoadForRule(t) \/ ReadRule(t) \/ DeleteRule(t)
    \/ LoadForRecord(t) \/ UnlinkPrevious(t)

\* Where the others lead, and which outcome they leave.
Lands(t) ==
    /\ th'[t].pc \in Plain \ {"check", "idle"}
    /\ th'[t].pc \in {"done", "refresh"} =>
           \/ StartJob(t) \/ SaveWrite(t) \/ ScheduleRefresh(t)
           \/ th[t].op = "apply"
    /\ th'[t].pc # "save" => th'[t].status = th[t].status
    /\ th'[t].pc # "done" => th'[t].op = th[t].op
    /\ th'[t].pc = "save" => th'[t].op # "apply"

LEMMA Landing ==
    ASSUME TypeOK, ControlInv, NEW t \in Threads, Step(t), ~Reads(t)
    PROVE  Lands(t)
<1> USE DEF Plain, Pcs, CopySteps, JobSteps, FirewallSteps
<1>1. RowOK(t, th[t]) /\ th \in [Threads -> Thread] /\ th[t] \in Thread
  BY DEF ControlInv, TypeOK
<1>2. ASSUME NEW step \in Plain \ {"check", "idle", "save"}, Goto(t, step),
             \/ step \notin {"done", "refresh"}
             \/ StartJob(t) \/ SaveWrite(t) \/ ScheduleRefresh(t) \/ th[t].op = "apply"
      PROVE  Lands(t)
  <2>1. /\ th'[t].pc = step /\ th'[t].status = th[t].status
        /\ step # "done" => th'[t].op = th[t].op
    BY <1>2, GotoPc
  <2> QED BY <1>2, <2>1 DEF Lands
<1>3. ASSUME NEW outcome \in JobStatus, Finish(t, outcome), th[t].op # "apply"
      PROVE  Lands(t)
  <2>1. th'[t].pc = "save" /\ th'[t].op = th[t].op
    BY <1>3, FinishRow DEF Locals
  <2> QED BY <1>3, <2>1 DEF Lands
<1>4. ASSUME Undo(t) PROVE Lands(t)
  <2>1. th'[t].pc = "env" /\ th'[t].status = th[t].status /\ th'[t].op = th[t].op
    BY <1>4, UndoRow DEF Locals
  <2> QED BY <2>1 DEF Lands
<1>5. th[t].pc \notin FirewallSteps \cup {"idle", "done", "dead"} => th[t].op # "apply"
  BY <1>1 DEF RowOK, FirewallAdds
<1>6. CASE StartJob(t)
  BY <1>2, <1>3, <1>5, <1>6 DEF StartJob, JobStatus, At
<1>7. CASE SaveJob(t)
  BY <1>2, <1>7 DEF SaveJob
<1>8. CASE SaveWrite(t)
  <2>1. Goto(t, AfterSave(t))
    BY <1>8 DEF SaveWrite
  <2>2. AfterSave(t) \in {"done", "refresh", "depRead", "prepare", "rollback"}
    BY DEF AfterSave
  <2> QED BY <1>2, <1>8, <2>1, <2>2
<1>9. CASE ScheduleRefresh(t)
  BY <1>2, <1>9 DEF ScheduleRefresh
<1>10. CASE DeploymentReads(t)
  <2>1. th'[t].pc = "env" /\ th'[t].status = th[t].status /\ th'[t].op = th[t].op
    BY <1>1, <1>10 DEF DeploymentReads, Thread
  <2> QED BY <2>1 DEF Lands
<1>11. CASE PrepareRelease(t)
  <2>1. th'[t].pc = "backup" /\ th'[t].status = th[t].status
        /\ th'[t].op = th[t].op
    BY <1>1, <1>11 DEF PrepareRelease, Thread
  <2> QED BY <2>1 DEF Lands
<1>12. CASE ReadRollback(t)
  <2>1. CASE Finish(t, "failed")
    BY <1>3, <1>5, <1>12, <2>1 DEF ReadRollback, JobStatus, At
  <2>2. CASE store.rollback.env # NoChanges
    <3>1. th'[t].pc = "env" /\ th'[t].status = th[t].status
          /\ th'[t].op = th[t].op
      BY <1>1, <1>12, <2>2 DEF ReadRollback, Thread
    <3> QED BY <3>1 DEF Lands
  <2> QED BY <1>12, <2>1, <2>2 DEF ReadRollback
<1>13. CASE DatabaseBackup(t) \/ CopyRuntime(t) \/ DeployRuntime(t)
  BY <1>2, <1>13 DEF DatabaseBackup, CopyRuntime, DeployRuntime
<1>14. CASE RestoreAfterDeploy(t)
  BY <1>3, <1>5, <1>14 DEF RestoreAfterDeploy, JobStatus, At
<1>15. CASE UpdateEnv(t)
  <2>1. Goto(t, AfterEnv(t)) /\ th[t].op # "apply"
    BY <1>5, <1>15 DEF UpdateEnv, At
  <2>2. AfterEnv(t) \in {"restoreFiles", "up", "rmRead", "fwRead"}
    BY DEF AfterEnv, FirewallEntry
  <2> QED BY <1>2, <2>1, <2>2
<1>16. CASE ComposeUp(t)
  BY <1>2, <1>3, <1>5, <1>16 DEF ComposeUp, JobStatus, At
<1>17. CASE HealthCheck(t)
  <2>1. th[t].op # "apply"
    BY <1>5, <1>17 DEF HealthCheck, At
  <2>2. \/ Finish(t, "succeeded") \/ Finish(t, "failed") \/ Goto(t, "recLoad")
        \/ Undo(t)
    BY <1>17 DEF HealthCheck
  <2> QED BY <1>2, <1>3, <1>4, <2>1, <2>2 DEF JobStatus
<1>18. CASE RestoreRuntime(t) \/ StopApp(t) \/ DropDatabase(t) \/ LoadDatabase(t)
  BY <1>2, <1>18 DEF RestoreRuntime, StopApp, DropDatabase, LoadDatabase
<1>19. CASE WriteRecord(t)
  BY <1>3, <1>5, <1>19 DEF WriteRecord, JobStatus, At
<1>20. CASE BackupUnavailable(t) \/ CommandFails(t)
  <2>1. Raise(t)
    BY <1>20 DEF BackupUnavailable, CommandFails
  <2> QED BY <2>1, RaisePc DEF Lands
<1>21. CASE WriteRule(t) \/ ForgetRule(t)
  <2>1. Goto(t, AfterFirewall(t))
    BY <1>21 DEF WriteRule, ForgetRule
  <2> QED BY <1>2, <2>1 DEF AfterFirewall
<1> QED BY <1>6, <1>7, <1>8, <1>9, <1>10, <1>11, <1>12, <1>13, <1>14, <1>15, <1>16,
           <1>17, <1>18, <1>19, <1>20, <1>21 DEF Step, JobStep, FirewallStep, Reads

\* A thread that takes a step has not ended.
LEMMA StepBusy ==
    ASSUME TypeOK, NEW t \in Threads, Step(t)
    PROVE  ~Over(t)
<1>1. th[t].pc \notin {"idle", "done", "dead"}
  BY FailingSteps DEF Step, JobStep, FirewallStep, StartJob, SaveJob, SaveLoad,
     SaveWrite, ScheduleRefresh, DeploymentReads, PrepareRelease, DatabaseBackup,
     CopyRuntime, DeployRuntime, RestoreAfterDeploy, ReadRollback, UpdateEnv,
     ComposeUp, HealthCheck, RestoreRuntime, StopApp, DropDatabase, LoadDatabase,
     LoadForRecord, UnlinkPrevious, WriteRecord, BackupUnavailable, ReadPrevious,
     DeletePrevious, AddRule, LoadForRule, WriteRule, ReadRule, DeleteRule,
     ForgetRule, At, Fallible
<1> QED BY <1>1 DEF Over

\* While a thread takes a step every other one has ended.
LEMMA OthersOver ==
    ASSUME OneAtATime, TypeOK, ControlInv, Alone, NEW t \in Threads,
           Request(t) \/ Step(t)
    PROVE  \A u \in Threads \ {t} : Over(u)
<1>1. CASE Request(t)
  BY <1>1, RequestRow DEF OwnerFree, Calm
<1>2. CASE Step(t)
  BY <1>2, StepBusy DEF Alone
<1> QED BY <1>1, <1>2

LEMMA AloneStep ==
    ASSUME OneAtATime, TypeOK, ControlInv, Alone, [Next]_vars
    PROVE  Alone'
<1>1. ASSUME NEW t \in Threads, Request(t) \/ Step(t) PROVE Alone'
  <2>1. \A u \in Threads \ {t} : Over(u) /\ th'[u] = th[u]
    BY <1>1, OthersOver, ThreadSteps DEF RowStep, Framed
  <2> QED BY <2>1 DEF Alone, Over
<1>2. CASE KillThreads
  <2>1. \A u \in Threads : Over(u)'
    <3> SUFFICES ASSUME NEW u \in Threads PROVE Over(u)'
      OBVIOUS
    <3>1. CASE Over(u)
      BY <1>2, <3>1 DEF KillThreads, Over
    <3>2. CASE ~Over(u)
      BY <1>2, <3>2, EndedRow DEF KillThreads, Over
    <3> QED BY <3>1, <3>2
  <2> QED BY <2>1 DEF Alone
<1>3. CASE UNCHANGED th
  BY <1>3 DEF Alone, Over
<1> QED BY <1>1, <1>2, <1>3 DEF Next, SetActiveRange, Crash, AgentRefresh,
           OperatorStarts, vars

\* The copy that a thread is about to use is still the state file.
LEMMA CopyStep ==
    ASSUME OneAtATime, TypeOK, ControlInv, Alone, CopyInv, [Next]_vars
    PROVE  CopyInv'
<1> USE DEF CopySteps, Over
<1>1. ASSUME NEW t \in Threads, Request(t) \/ Step(t) PROVE CopyInv'
  <2>1. \A u \in Threads \ {t} : th'[u].pc \notin CopySteps
    BY <1>1, OthersOver, ThreadSteps DEF RowStep, Framed
  <2>2. SUFFICES ASSUME th'[t].pc \in CopySteps PROVE th'[t].copy = store'
    BY <2>1 DEF CopyInv
  <2>3. Reads(t)
    BY <1>1, <2>2, Landing, RequestRow DEF Lands, Plain
  <2>4. store' = store
    BY <2>3 DEF Reads, SaveLoad, ReadPrevious, DeletePrevious, AddRule, LoadForRule,
          ReadRule, DeleteRule, LoadForRecord, UnlinkPrevious, ThreadOnly, HostOnly
  <2>5. ASSUME NEW step \in Pcs, At(t, "fwDelete") \/ At(t, "rmDelete") \/ At(t, "unlink"),
               Goto(t, step), step # "done"
        PROVE  th'[t].copy = store
    BY <2>5, GotoRow DEF CopyInv, At
  <2>6. CASE SaveLoad(t) \/ LoadForRule(t)
    BY <2>4, <2>6, LoadRow DEF SaveLoad, LoadForRule, Pcs, JobSteps, FirewallSteps
  <2>7. CASE ReadPrevious(t) \/ ReadRule(t) \/ LoadForRecord(t)
    BY <2>4, <2>7, LoadRow DEF ReadPrevious, ReadRule, LoadForRecord, AfterFirewall,
          Pcs, JobSteps, FirewallSteps
  <2>8. CASE DeletePrevious(t) \/ DeleteRule(t) \/ UnlinkPrevious(t)
    BY <2>4, <2>5, <2>8 DEF DeletePrevious, DeleteRule, UnlinkPrevious, Pcs, JobSteps,
          FirewallSteps
  <2>9. CASE AddRule(t)
    BY <2>2, <2>9, GotoPc DEF AddRule, Pcs, FirewallSteps
  <2> QED BY <2>3, <2>6, <2>7, <2>8, <2>9 DEF Reads
<1>2. CASE KillThreads
  <2>1. \A u \in Threads : th'[u].pc \notin CopySteps
    <3> SUFFICES ASSUME NEW u \in Threads PROVE th'[u].pc \notin CopySteps
      OBVIOUS
    <3>1. CASE Over(u)
      BY <1>2, <3>1 DEF KillThreads
    <3>2. CASE ~Over(u)
      BY <1>2, <3>2, EndedRow DEF KillThreads
    <3> QED BY <3>1, <3>2
  <2> QED BY <2>1 DEF CopyInv
<1>3. CASE UNCHANGED <<th, store>>
  BY <1>3 DEF CopyInv
<1> QED BY <1>1, <1>2, <1>3 DEF Next, SetActiveRange, Crash, AgentRefresh,
           OperatorStarts, vars

-----------------------------------------------------------------------------
(***************************************************************************)
(* The firewall.                                                           *)
(***************************************************************************)
\* The rules and the recorded one, with no thread between adding a rule and
\* recording it.
LEMMA RulesBetween ==
    ASSUME OneAtATime, TypeOK, ControlInv, Alone, RulesInv, Uninterrupted,
           NEW t \in Threads, Request(t) \/ Step(t),
           th[t].pc \notin {"fwLoad", "fwWrite"}
    PROVE  ufw \subseteq {store.firewall}
<1>1. \A u \in Threads \ {t} : Over(u)
  BY OthersOver
<1> QED BY <1>1 DEF RulesInv, Over

\* The wanted rule of a thread is its own.
LEMMA WantedKept ==
    ASSUME TypeOK, NEW t \in Threads, NEW step \in Active,
           Moves(t, step)
    PROVE  WantedRule(t)' = WantedRule(t) /\ th'[t].pc = step
<1>1. step \in Pcs \ {"done"} /\ step \in Pcs
  BY DEF Active, Pcs, JobSteps, FirewallSteps
<1>2. Locals(t) /\ th'[t].undo = th[t].undo /\ th'[t].pc = step
  BY <1>1, GotoRow, LoadRow DEF Moves
<1> QED BY <1>2 DEF WantedRule, Locals

LEMMA RulesStep ==
    ASSUME OneAtATime, TypeOK, ControlInv, Alone, CopyInv, RulesInv, [Next]_vars
    PROVE  RulesInv'
<1>1. ASSUME NEW t \in Threads, Request(t) \/ Step(t) PROVE RulesInv'
  <2>1. \A u \in Threads \ {t} : Over(u) /\ th'[u] = th[u]
    BY <1>1, OthersOver, ThreadSteps DEF RowStep, Framed
  <2>2. th[t].pc # "dead"
    BY <1>1, RequestRow, StepBusy DEF Over, NewThread
  <2>3. SUFFICES ASSUME Uninterrupted'
                 PROVE  /\ th'[t].pc \in {"fwAdd", "fwLoad", "fwWrite"} =>
                               ufw' \subseteq {WantedRule(t)'}
                        /\ th'[t].pc = "rmWrite" => ufw' = {}
                        /\ th'[t].pc \notin {"fwLoad", "fwWrite"} =>
                               ufw' \subseteq {store'.firewall}
    BY <2>1 DEF RulesInv, Over, WantedRule
  <2>4. Uninterrupted
    BY <2>1, <2>2, <2>3 DEF Uninterrupted, At
  <2>5. th[t].pc \notin {"fwLoad", "fwWrite"} => ufw \subseteq {store.firewall}
    BY <1>1, <2>4, RulesBetween
  <2>6. /\ th[t].pc \in {"fwAdd", "fwLoad", "fwWrite"} => ufw \subseteq {WantedRule(t)}
        /\ th[t].pc = "rmWrite" => ufw = {}
        /\ th[t].pc \in CopySteps => th[t].copy = store
    BY <2>4 DEF RulesInv, CopyInv, CopySteps
  <2>7. th[t].copy \in State /\ ufw \subseteq Networks /\ None \notin Networks
    BY HostAgentAssumption DEF TypeOK, Thread, Networks, None
  <2>8. ASSUME NEW step \in {"fwDelete", "fwAdd", "fwLoad", "fwWrite", "rmDelete",
                             "rmWrite", "up"}, Moves(t, step)
        PROVE  WantedRule(t)' = WantedRule(t) /\ th'[t].pc = step
    BY <2>8, WantedKept DEF Active, JobSteps, FirewallSteps
  <2>9. CASE ReadPrevious(t)
    <3>1. UNCHANGED <<ufw, store>> /\ th[t].pc = "fwRead"
      BY <2>9 DEF ReadPrevious, ThreadOnly, host, At
    <3>2. CASE store.firewall \in {None, WantedRule(t)}
      <4>1. Moves(t, "fwAdd")
        BY <2>9, <3>2 DEF ReadPrevious, Moves
      <4> QED BY <2>5, <2>7, <2>8, <3>1, <3>2, <4>1
    <3>3. CASE store.firewall \notin {None, WantedRule(t)}
      <4>1. Moves(t, "fwDelete")
        BY <2>9, <3>3 DEF ReadPrevious, Moves
      <4> QED BY <2>5, <2>8, <3>1, <4>1
    <3> QED BY <3>2, <3>3
  <2>10. CASE DeletePrevious(t)
    <3>1. Moves(t, "fwAdd") /\ th[t].pc = "fwDelete" /\ store' = store
          /\ ufw' = ufw \ {th[t].copy.firewall}
      BY <2>10 DEF DeletePrevious, Moves, HostOnly, At
    <3>2. ufw' = {}
      BY <2>5, <2>6, <3>1 DEF CopySteps
    <3> QED BY <2>8, <3>1, <3>2
  <2>11. CASE AddRule(t)
    <3>1. Moves(t, "fwLoad") /\ th[t].pc = "fwAdd" /\ ufw' = ufw \cup {WantedRule(t)}
      BY <2>11 DEF AddRule, Moves, At
    <3> QED BY <2>6, <2>8, <3>1
  <2>12. CASE LoadForRule(t)
    <3>1. Moves(t, "fwWrite") /\ th[t].pc = "fwLoad" /\ ufw' = ufw
      BY <2>12 DEF LoadForRule, Moves, ThreadOnly, host, At
    <3> QED BY <2>6, <2>8, <3>1
  <2>13. CASE WriteRule(t)
    <3>1. th[t].pc = "fwWrite" /\ ufw' = ufw /\ store'.firewall = WantedRule(t)
      BY <2>7, <2>13 DEF WriteRule, host, At, State
    <3>2. th'[t].pc \in {"up", "done"}
      BY <2>13, GotoPc DEF WriteRule, AfterFirewall, Pcs, JobSteps
    <3> QED BY <2>6, <3>1, <3>2
  <2>14. CASE ReadRule(t)
    <3>1. UNCHANGED <<ufw, store>> /\ th[t].pc = "rmRead"
      BY <2>14 DEF ReadRule, ThreadOnly, host, At
    <3>2. th'[t].pc \in {"up", "done", "rmDelete"}
      BY <2>14, LoadRow DEF ReadRule, AfterFirewall, Pcs, JobSteps, FirewallSteps
    <3> QED BY <2>5, <3>1, <3>2
  <2>15. CASE DeleteRule(t)
    <3>1. Moves(t, "rmWrite") /\ th[t].pc = "rmDelete" /\ store' = store
          /\ ufw' = ufw \ {th[t].copy.firewall}
      BY <2>15 DEF DeleteRule, Moves, HostOnly, At
    <3>2. ufw' = {}
      BY <2>5, <2>6, <3>1 DEF CopySteps
    <3> QED BY <2>8, <3>1, <3>2
  <2>16. CASE ForgetRule(t)
    <3>1. th[t].pc = "rmWrite" /\ ufw' = ufw
      BY <2>16 DEF ForgetRule, host, At
    <3>2. th'[t].pc \in {"up", "done"}
      BY <2>16, GotoPc DEF ForgetRule, AfterFirewall, Pcs, JobSteps
    <3> QED BY <2>6, <3>1, <3>2
  <2>17. CASE SaveLoad(t) \/ LoadForRecord(t) \/ UnlinkPrevious(t)
    <3>1. UNCHANGED <<ufw, store>> /\ th[t].pc \in {"saveLoad", "recLoad", "unlink"}
      BY <2>17 DEF SaveLoad, LoadForRecord, UnlinkPrevious, ThreadOnly, HostOnly, host, At
    <3>2. th'[t].pc \in {"saveWrite", "unlink", "recWrite"}
      BY <2>17, LoadRow, GotoPc DEF SaveLoad, LoadForRecord, UnlinkPrevious, Pcs, JobSteps
    <3> QED BY <2>5, <3>1, <3>2
  <2>18. CASE ~Reads(t) /\ ~WriteRule(t) /\ ~ForgetRule(t)
    <3>1. th'[t].pc \notin {"fwAdd", "fwLoad", "fwWrite", "rmWrite"}
      BY <1>1, <2>18, Landing, RequestRow DEF Lands, Plain, CopySteps
    <3>2. th[t].pc \notin {"fwLoad", "fwWrite"}
      <4>1. CASE Request(t)
        BY <4>1, RequestRow DEF NewThread
      <4>2. CASE CommandFails(t)
        BY <4>2, FailingSteps DEF Fallible
      <4>3. CASE \/ SaveWrite(t) \/ WriteRecord(t) \/ DatabaseBackup(t) \/ CopyRuntime(t)
                 \/ DeployRuntime(t) \/ RestoreAfterDeploy(t) \/ UpdateEnv(t)
                 \/ ComposeUp(t) \/ RestoreRuntime(t) \/ StopApp(t)
                 \/ DropDatabase(t) \/ LoadDatabase(t)
        BY <4>3 DEF SaveWrite, WriteRecord, DatabaseBackup, CopyRuntime, DeployRuntime,
              RestoreAfterDeploy, UpdateEnv, ComposeUp, RestoreRuntime, StopApp,
              DropDatabase, LoadDatabase, At
      <4>4. CASE \/ StartJob(t) \/ SaveJob(t) \/ ScheduleRefresh(t)
                 \/ DeploymentReads(t) \/ PrepareRelease(t) \/ ReadRollback(t)
                 \/ HealthCheck(t) \/ BackupUnavailable(t)
        BY <4>4 DEF StartJob, SaveJob, ScheduleRefresh, DeploymentReads, PrepareRelease,
              ReadRollback, HealthCheck, BackupUnavailable, At
      <4> QED BY <1>1, <2>18, <4>1, <4>2, <4>3, <4>4 DEF Step, JobStep, FirewallStep, Reads
    <3>3. ufw' = ufw /\ store'.firewall = store.firewall
      <4>1. CASE SaveWrite(t)
        <5>1. PICK j : store' = [th[t].copy EXCEPT !.jobs = j]
          BY <4>1 DEF SaveWrite
        <5>2. ufw' = ufw /\ th[t].copy = store
          BY <2>6, <4>1 DEF SaveWrite, host, At, CopySteps
        <5> QED BY <2>7, <5>1, <5>2 DEF State
      <4>2. CASE WriteRecord(t)
        <5>1. ufw' = ufw /\ th[t].copy = store
          BY <2>6, <4>2 DEF WriteRecord, host, At, CopySteps
        <5> QED BY <2>7, <4>2, <5>1 DEF WriteRecord, State
      <4>3. CASE Quiet(t)
        BY <4>3, QuietFrame DEF host
      <4>4. CASE DatabaseBackup(t) \/ CopyRuntime(t)
        BY <4>4 DEF DatabaseBackup, CopyRuntime, HostOnly
      <4>5. CASE HostStep(t)
        <5>1. store' = store
          BY <4>5, HostStepFrame
        <5>2. ufw' = ufw
          BY <2>18, <4>5 DEF HostStep, Reads, DeployRuntime, RestoreAfterDeploy, UpdateEnv,
                ComposeUp, RestoreRuntime, StopApp, DropDatabase, LoadDatabase,
                CommandFails, PartialEffect
        <5> QED BY <5>1, <5>2
      <4> QED BY <1>1, <2>18, <4>1, <4>2, <4>3, <4>4, <4>5, StepKinds DEF Reads
    <3> QED BY <2>5, <3>1, <3>2, <3>3
  <2> QED BY <2>9, <2>10, <2>11, <2>12, <2>13, <2>14, <2>15, <2>16, <2>17, <2>18 DEF Reads
<1>2. CASE KillThreads /\ UNCHANGED <<ufw, store>>
  <2>1. SUFFICES ASSUME Uninterrupted'
                 PROVE  th' = th
    BY <1>2, <2>1 DEF RulesInv, Uninterrupted, At, WantedRule
  <2>2. \A u \in Threads : th'[u] = th[u]
    <3> SUFFICES ASSUME NEW u \in Threads PROVE th'[u] = th[u]
      OBVIOUS
    <3>1. CASE Over(u)
      BY <1>2, <3>1 DEF KillThreads
    <3>2. CASE ~Over(u)
      BY <1>2, <2>1, <3>2, EndedRow DEF KillThreads, Uninterrupted, At
    <3> QED BY <3>1, <3>2
  <2>3. th \in [Threads -> Thread] /\ th' \in [Threads -> Thread]
    BY <1>2, KillRows DEF TypeOK
  <2> QED BY <2>2, <2>3
<1>3. CASE UNCHANGED <<th, ufw, store>>
  BY <1>3 DEF RulesInv, Uninterrupted, At, WantedRule
<1> QED BY <1>1, <1>2, <1>3 DEF Next, SetActiveRange, Crash, AgentRefresh,
           OperatorStarts, vars, host

-----------------------------------------------------------------------------
(***************************************************************************)
(* The outcomes.                                                           *)
(***************************************************************************)
\* As long as there are no more jobs than the file keeps, none is dropped.
LEMMA SaveKeeps ==
    ASSUME IsFiniteSet(Threads), Cardinality(Threads) <= MaxJobs, TypeOK, CopyInv,
           NEW t \in Threads, SaveWrite(t)
    PROVE  /\ store'.jobs[t] = th[t].status
           /\ \A u \in Threads \ {t} : store'.jobs[u] = store.jobs[u]
<1> DEFINE saved == [th[t].copy.jobs EXCEPT ![t] = th[t].status]
           recorded == {u \in Threads : saved[u] # "none"}
<1>1. PICK gone \in SUBSET (recorded \ {t}) :
            /\ Cardinality(gone) =
                 IF Cardinality(recorded) > MaxJobs
                 THEN Cardinality(recorded) - MaxJobs ELSE 0
            /\ store' = [th[t].copy EXCEPT !.jobs =
                 [u \in Threads |-> IF u \in gone THEN "none" ELSE saved[u]]]
  BY DEF SaveWrite
<1>2. th[t].copy = store /\ store \in State /\ store.jobs \in [Threads -> JobStatus]
  BY DEF SaveWrite, At, CopyInv, CopySteps, TypeOK, State
<1>3. saved[t] = th[t].status /\ \A u \in Threads \ {t} : saved[u] = store.jobs[u]
  BY <1>2
<1> HIDE DEF saved
<1>4. recorded \subseteq Threads /\ gone \subseteq Threads
  OBVIOUS
<1> HIDE DEF recorded
<1>5. /\ IsFiniteSet(recorded) /\ Cardinality(recorded) <= Cardinality(Threads)
      /\ IsFiniteSet(gone)
  BY <1>4, FS_Subset
<1>6. Cardinality(recorded) \in Nat /\ Cardinality(Threads) \in Nat
  BY <1>5, FS_CardinalityType
<1>7. ~(Cardinality(recorded) > MaxJobs)
  BY <1>5, <1>6, HostAgentAssumption
<1>8. Cardinality(gone) = 0
  BY <1>1, <1>7
<1>9. gone = {}
  BY <1>5, <1>8, FS_EmptySet
<1>10. store'.jobs = [u \in Threads |-> IF u \in gone THEN "none" ELSE saved[u]]
  BY <1>1, <1>2 DEF State
<1> QED BY <1>3, <1>9, <1>10

\* The other steps keep the outcomes of the file.
LEMMA OutcomesKept ==
    ASSUME TypeOK, CopyInv, NEW t \in Threads, Request(t) \/ Step(t), ~SaveWrite(t)
    PROVE  store'.jobs = store.jobs
<1>1. CASE UNCHANGED store
  BY <1>1
<1>2. CASE WriteRule(t) \/ ForgetRule(t) \/ WriteRecord(t)
  <2>1. th[t].copy = store /\ store \in State
    BY <1>2 DEF WriteRule, ForgetRule, WriteRecord, At, CopyInv, CopySteps, TypeOK
  <2>2. CASE WriteRule(t)
    BY <2>1, <2>2 DEF WriteRule, State
  <2>3. CASE ForgetRule(t)
    BY <2>1, <2>3 DEF ForgetRule, State
  <2>4. CASE WriteRecord(t)
    BY <2>1, <2>4 DEF WriteRecord, State
  <2> QED BY <1>2, <2>2, <2>3, <2>4
<1>3. CASE Quiet(t)
  BY <1>1, <1>3, QuietFrame
<1>4. CASE HostStep(t)
  BY <1>1, <1>4, HostStepFrame
<1>5. CASE DatabaseBackup(t) \/ CopyRuntime(t) \/ UnlinkPrevious(t)
  BY <1>1, <1>5 DEF DatabaseBackup, CopyRuntime, UnlinkPrevious, HostOnly
<1> QED BY <1>2, <1>3, <1>4, <1>5, StepKinds

\* A step that reads the file, or changes a rule, has no outcome.
LEMMA ReadsRow ==
    ASSUME TypeOK, ControlInv, NEW t \in Threads, Reads(t)
    PROVE  /\ th'[t].pc \notin {"check", "done", "refresh"}
           /\ th'[t].op = th[t].op /\ th'[t].status = th[t].status
<1> USE DEF Pcs, JobSteps, FirewallSteps
<1>1. ASSUME NEW step \in Pcs, Moves(t, step), step \notin {"check", "done", "refresh"}
      PROVE  /\ th'[t].pc \notin {"check", "done", "refresh"}
             /\ th'[t].op = th[t].op /\ th'[t].status = th[t].status
  BY <1>1, GotoRow, LoadRow DEF Moves, Locals
<1>2. CASE SaveLoad(t) \/ LoadForRule(t) \/ ReadPrevious(t) \/ LoadForRecord(t)
  <2>1. PICK step \in {"saveWrite", "fwWrite", "fwAdd", "fwDelete", "unlink",
                       "recWrite"} : Moves(t, step)
    BY <1>2 DEF SaveLoad, LoadForRule, ReadPrevious, LoadForRecord, Moves
  <2> QED BY <1>1, <2>1
<1>3. CASE DeletePrevious(t) \/ AddRule(t) \/ DeleteRule(t) \/ UnlinkPrevious(t)
  <2>1. PICK step \in {"fwAdd", "fwLoad", "rmWrite", "recWrite"} : Moves(t, step)
    BY <1>3 DEF DeletePrevious, AddRule, DeleteRule, UnlinkPrevious, Moves
  <2> QED BY <1>1, <2>1
<1>4. CASE ReadRule(t)
  <2>1. th[t].op # "apply"
    BY <1>4 DEF ReadRule, At, ControlInv, RowOK, FirewallAdds
  <2>2. Moves(t, "up") \/ Moves(t, "rmDelete")
    BY <1>4, <2>1 DEF ReadRule, AfterFirewall, Moves
  <2> QED BY <1>1, <2>2
<1> QED BY <1>2, <1>3, <1>4 DEF Reads

LEMMA OutcomeStep ==
    ASSUME OneAtATime, IsFiniteSet(Threads), Cardinality(Threads) <= MaxJobs,
           TypeOK, ControlInv, Alone, CopyInv, OutcomeInv, [Next]_vars
    PROVE  OutcomeInv'
<1>1. ASSUME NEW t \in Threads, Request(t) \/ Step(t) PROVE OutcomeInv'
  <2>1. \A u \in Threads \ {t} : th'[u] = th[u] /\ store'.jobs[u] = store.jobs[u]
    BY <1>1, ThreadSteps, SaveKeeps, OutcomesKept DEF RowStep, Framed
  <2>2. /\ th[t].op = "apply" \/ th[t].pc = "check" =>
               th[t].status = "none" \/ th[t].pc \in {"done", "dead"}
        /\ th[t].pc \in {"done", "refresh"} /\ th[t].status # "none" =>
               store.jobs[t] = th[t].status
    BY DEF OutcomeInv
  <2>3. SUFFICES /\ th'[t].op = "apply" \/ th'[t].pc = "check" =>
                        th'[t].status = "none" \/ th'[t].pc \in {"done", "dead"}
                 /\ th'[t].pc \in {"done", "refresh"} /\ th'[t].status # "none" =>
                        store'.jobs[t] = th'[t].status
    BY <2>1 DEF OutcomeInv
  <2>4. CASE Request(t)
    BY <2>4, RequestRow
  <2>5. CASE Step(t)
    <3>1. th[t].pc \notin {"done", "dead"}
      BY <2>5, StepBusy DEF Over
    <3>2. CASE Reads(t)
      BY <2>2, <3>1, <3>2, ReadsRow
    <3>3. CASE ~Reads(t)
      <4>1. Lands(t)
        BY <2>5, <3>3, Landing
      <4>2. th'[t].pc \notin {"check", "idle"}
        BY <4>1 DEF Lands
      <4>3. ASSUME th'[t].op = "apply", th'[t].pc # "done"
            PROVE  th'[t].status = "none"
        BY <2>2, <3>1, <4>1, <4>3 DEF Lands
      <4>4. ASSUME th'[t].pc \in {"done", "refresh"}, th'[t].status # "none"
            PROVE  store'.jobs[t] = th'[t].status
        <5>1. th'[t].status = th[t].status
          BY <4>1, <4>4 DEF Lands
        <5>2. CASE SaveWrite(t)
          BY <5>1, <5>2, SaveKeeps
        <5>3. CASE ScheduleRefresh(t)
          <6>1. th[t].pc = "refresh" /\ store' = store
            BY <5>3 DEF ScheduleRefresh, At
          <6> QED BY <2>2, <4>4, <5>1, <6>1
        <5>4. CASE StartJob(t) \/ th[t].op = "apply"
          BY <2>2, <3>1, <4>4, <5>1, <5>4 DEF StartJob, At
        <5> QED BY <4>1, <4>4, <5>2, <5>3, <5>4 DEF Lands
      <4> QED BY <4>2, <4>3, <4>4
    <3> QED BY <3>2, <3>3
  <2> QED BY <1>1, <2>4, <2>5
<1>2. CASE KillThreads /\ UNCHANGED store
  <2> SUFFICES ASSUME NEW u \in Threads
               PROVE  /\ th'[u].op = "apply" \/ th'[u].pc = "check" =>
                             th'[u].status = "none" \/ th'[u].pc \in {"done", "dead"}
                      /\ th'[u].pc \in {"done", "refresh"} /\ th'[u].status # "none" =>
                             store'.jobs[u] = th'[u].status
    BY DEF OutcomeInv
  <2>1. CASE th'[u] = th[u]
    BY <1>2, <2>1 DEF OutcomeInv
  <2>2. CASE th'[u] = Ended(u, "dead")
    BY <2>2, EndedRow
  <2> QED BY <1>2, <2>1, <2>2, KillRows
<1>3. CASE UNCHANGED <<th, store>>
  BY <1>3 DEF OutcomeInv
<1> QED BY <1>1, <1>2, <1>3 DEF Next, SetActiveRange, Crash, AgentRefresh,
           OperatorStarts, vars

LEMMA SerialInit == Init => Alone /\ CopyInv /\ RulesInv /\ OutcomeInv
<1>1. Init => \A t \in Threads : th[t].pc = "idle" /\ th[t].status = "none"
  BY DEF Init, NewThread
<1>2. Init => ufw = {}
  BY DEF Init
<1> QED BY <1>1, <1>2 DEF Alone, Over, CopyInv, CopySteps, RulesInv, OutcomeInv

\* With one operation at a time, whatever fails, and unless the agent is killed in
\* the middle of one, the firewall has no managed rule but the recorded one once
\* the agent is at rest (server.py, apply_firewall and remove_firewall).
THEOREM FirewallKept ==
    ASSUME OneAtATime
    PROVE  Spec => []FirewallOwned
<1>1. /\ TypeOK /\ ControlInv /\ Alone /\ CopyInv /\ RulesInv /\ [Next]_vars
      => (Alone /\ CopyInv /\ RulesInv)'
  BY AloneStep, CopyStep, RulesStep
<1>2. RulesInv => FirewallOwned
  BY DEF RulesInv, FirewallOwned, Undisturbed, Calm, Over
<1> QED BY <1>1, <1>2, SerialInit, ControlCorrect, PTL DEF Spec

\* With one operation at a time, and as long as there are no more jobs than the
\* file keeps, the outcome of every job that has ended is in the state file,
\* whatever fails and however often the agent restarts (server.py, _save_job).
THEOREM OutcomesSurvive ==
    ASSUME OneAtATime, IsFiniteSet(Threads), Cardinality(Threads) <= MaxJobs
    PROVE  Spec => []JobsSurvive
<1>1. /\ TypeOK /\ ControlInv /\ Alone /\ CopyInv /\ OutcomeInv /\ [Next]_vars
      => (Alone /\ CopyInv /\ OutcomeInv)'
  BY AloneStep, CopyStep, OutcomeStep
<1>2. OutcomeInv => JobsSurvive
  BY DEF OutcomeInv, JobsSurvive, At
<1> QED BY <1>1, <1>2, SerialInit, ControlCorrect, PTL DEF Spec

-----------------------------------------------------------------------------
(***************************************************************************)
(* One release.                                                            *)
(***************************************************************************)
\* Only a handler of a failure logs.
LEMMA AlarmKept ==
    ASSUME NEW t, Request(t) \/ Step(t)
    PROVE  /\ alarm \subseteq alarm'
           /\ ~CommandFails(t) /\ ~BackupUnavailable(t) => alarm' = alarm
<1>1. CASE CommandFails(t) \/ BackupUnavailable(t)
  BY <1>1 DEF CommandFails, BackupUnavailable, Log
<1>2. CASE Request(t)
  BY <1>2 DEF Request, RequestDeployment, RequestFirewall, RequestUpgrade,
        RequestRollback, ThreadOnly
<1>3. CASE FirewallStep(t)
  BY <1>3 DEF FirewallStep, ReadPrevious, DeletePrevious, AddRule, LoadForRule,
        WriteRule, ReadRule, DeleteRule, ForgetRule, ThreadOnly, HostOnly
<1>4. CASE JobStep(t) /\ ~BackupUnavailable(t)
  BY <1>4 DEF JobStep, StartJob, SaveJob, SaveLoad, SaveWrite, ScheduleRefresh,
        DeploymentReads, PrepareRelease, DatabaseBackup, CopyRuntime, DeployRuntime,
        RestoreAfterDeploy, ReadRollback, UpdateEnv, ComposeUp, HealthCheck,
        RestoreRuntime, StopApp, DropDatabase, LoadDatabase, LoadForRecord,
        UnlinkPrevious, WriteRecord, ThreadOnly, HostOnly
<1> QED BY <1>1, <1>2, <1>3, <1>4 DEF Step

\* A thread that has not been killed was not killed before.
LEMMA NotKilled ==
    ASSUME OneAtATime, TypeOK, ControlInv, Alone, NEW t \in Threads,
           Request(t) \/ Step(t), Uninterrupted'
    PROVE  Uninterrupted
<1>1. \A u \in Threads \ {t} : th'[u] = th[u]
  BY ThreadSteps DEF RowStep, Framed
<1>2. th[t].pc # "dead"
  BY RequestRow, StepBusy DEF Over, NewThread
<1> QED BY <1>1, <1>2 DEF Uninterrupted, At

\* It is enough to look at the thread that takes the step.
LEMMA ReleaseFocus ==
    ASSUME OneAtATime, TypeOK, ControlInv, Alone, ReleaseInv, NEW t \in Threads,
           Request(t) \/ Step(t), Uninterrupted', alarm' = {}
    PROVE  /\ alarm = {}
           /\ Request(t) => Coherent /\ Intact
           /\ Step(t) => Sound(t)
           /\ Sound(t)' => ReleaseInv'
<1>1. Uninterrupted /\ alarm = {}
  BY NotKilled, AlarmKept
<1>2. \A u \in Threads \ {t} : Over(u) /\ th'[u] = th[u]
  BY OthersOver, ThreadSteps DEF RowStep, Framed
<1>3. Request(t) => Calm
  BY <1>2, RequestRow DEF Calm, Over, NewThread
<1>4. Request(t) => app.up
  BY DEF Request, RequestDeployment, RequestFirewall, RequestUpgrade, RequestRollback
<1>5. ASSUME Sound(t)' PROVE ReleaseInv'
  <2>1. \A u \in Threads \ {t} : Over(u)'
    BY <1>2 DEF Over
  <2>2. Over(t)' => ~Unsettled(t)' /\ th'[t].pc # "recWrite"
    <3> SUFFICES ASSUME Over(t)' PROVE ~Unsettled(t)' /\ th'[t].pc # "recWrite"
      OBVIOUS
    <3>1. th'[t].pc \in {"idle", "done", "dead"}
      BY DEF Over
    <3> QED BY <3>1 DEF Unsettled, RestoreSteps
  <2>3. Calm' => Over(t)'
    BY DEF Calm
  <2>4. Calm' => /\ Settled' /\ Intact'
                 /\ app'.up \/ Broke(t)'
    BY <1>5, <2>2, <2>3 DEF Sound, Coherent
  <2> QED BY <1>5, <2>1, <2>4 DEF ReleaseInv
<1> QED BY <1>1, <1>3, <1>4, <1>5, StepBusy DEF ReleaseInv, Coherent

\* Where a job has not begun, or is over.
Beginning == {"check", "refresh", "depRead", "prepare", "rollback"}
Resting == SaveSteps \cup Beginning \cup {"done"}

LEMMA RestingSound ==
    ASSUME NEW t, th'[t].pc \in Resting, Coherent' \/ (Settled' /\ Broke(t)'), Intact'
    PROVE  Sound(t)'
<1>1. th'[t].pc \notin Prepared \cup (UpgradeSteps \ {"prepare"}) \cup RestoreSteps
                        \cup FirewallSteps
  BY DEF Resting, Beginning, SaveSteps, Prepared, UpgradeSteps, RestoreSteps, FirewallSteps,
         RecordSteps
<1>2. th'[t].pc \notin {"env", "up", "health", "copyFiles", "deployFiles", "unmix",
                        "dbStop", "dbDrop", "dbLoad", "unlink"}
  BY DEF Resting, Beginning, SaveSteps
<1>3. WayBack(t)'
  BY <1>1, <1>2 DEF WayBack
<1>4. Progress(t)'
  BY <1>1, <1>2 DEF Progress
<1> QED BY <1>3, <1>4 DEF Sound

LEMMA SettledThere ==
    ASSUME TypeOK, ControlInv, NEW t \in Threads, Sound(t),
           \/ th[t].pc \in Beginning \cup FirewallSteps \cup RecordSteps
           \/ th[t].pc \in {"backup", "copyFiles", "deployFiles"}
           \/ th[t].op \in {"deployment", "rollback"} /\ th[t].pc \in {"env", "health"}
           \/ th[t].op \in {"deployment", "rollback"} /\ th[t].pc = "up"
                /\ ~Restoring(t)
    PROVE  /\ ~Unsettled(t) /\ Coherent
           /\ th[t].pc # "recWrite" => Intact
<1>1. ~Unsettled(t)
  BY DEF Unsettled, Beginning, FirewallSteps, RecordSteps, RestoreSteps
<1>2. ~Broke(t)
  BY DEF Broke, Beginning, FirewallSteps, RecordSteps, SaveSteps
<1> QED BY <1>1, <1>2 DEF Sound

\* While a job reports its outcome, a deployment may have failed.
LEMMA SettledSaving ==
    ASSUME NEW t \in Threads, Sound(t), th[t].pc \in SaveSteps
    PROVE  Intact /\ (Coherent \/ (Settled /\ Broke(t)))
BY DEF Sound, SaveSteps, Unsettled, RestoreSteps, Restoring

\* Nothing of the releases changes.
ReleaseKept ==
    /\ env'.img = env.img /\ db' = db /\ runtime' = runtime
    /\ app'.img = app.img /\ app'.up = app.up
    /\ dump' = dump /\ files' = files
    /\ store'.rollback = store.rollback

LEMMA ReleaseSame ==
    ASSUME ReleaseKept
    PROVE  /\ Coherent' <=> Coherent
           /\ Settled' <=> Settled
           /\ Intact' <=> Intact
           /\ \A b, r : Saved(b, r)' <=> Saved(b, r)
BY DEF ReleaseKept, Coherent, Settled, Intact, Saved

\* Only the steps that record a rule or a job write the file.
LEMMA RecordSame ==
    ASSUME TypeOK, CopyInv, NEW t \in Threads, Request(t) \/ Step(t),
           ~WriteRecord(t)
    PROVE  store'.rollback = store.rollback
<1>1. RecordEffect(t)
  BY RecordEffects
<1>2. CASE SaveWrite(t) \/ WriteRule(t) \/ ForgetRule(t)
  <2>1. th[t].copy = store /\ th[t].pc # "recWrite"
    BY <1>2 DEF SaveWrite, WriteRule, ForgetRule, At, CopyInv, CopySteps
  <2> QED BY <1>1, <2>1 DEF RecordEffect, At
<1>3. CASE Quiet(t)
  BY <1>3, QuietFrame
<1>4. CASE HostStep(t)
  BY <1>4, HostStepFrame
<1>5. CASE DatabaseBackup(t) \/ CopyRuntime(t) \/ UnlinkPrevious(t)
  BY <1>5 DEF DatabaseBackup, CopyRuntime, UnlinkPrevious, HostOnly
<1> QED BY <1>2, <1>3, <1>4, <1>5, StepKinds

LEMMA RequestSound ==
    ASSUME TypeOK, ControlInv, CopyInv, NEW t \in Threads, Request(t),
           Coherent, Intact
    PROVE  Sound(t)'
<1>1. ThreadOnly /\ th[t] = NewThread /\ th \in [Threads -> Thread]
      /\ th'[t].pc \in {"check", "fwRead"}
  BY RequestRow DEF TypeOK
<1>2. ReleaseKept
  BY <1>1 DEF ThreadOnly, host, ReleaseKept
<1>3. Coherent' /\ Intact'
  BY <1>2, ReleaseSame
<1>4. CASE \E n \in Networks : RequestFirewall(t, n)
  <2>1. th'[t].op = "apply" /\ th'[t].pc = "fwRead"
    BY <1>1, <1>4 DEF RequestFirewall, NewThread
  <2>2. WayBack(t)'
    BY <2>1 DEF WayBack
  <2>3. Progress(t)'
    BY <2>1 DEF Progress, UpgradeSteps, RestoreSteps, Restoring
  <2> QED BY <1>3, <2>2, <2>3 DEF Sound
<1>5. CASE ~\E n \in Networks : RequestFirewall(t, n)
  <2>1. th'[t].pc = "check"
    BY <1>1, <1>5 DEF Request, RequestDeployment, RequestUpgrade, RequestRollback,
          NewThread
  <2> QED BY <1>3, <2>1, RestingSound DEF Resting, Beginning
<1> QED BY <1>4, <1>5

\* start_job and _save_job.
LEMMA SavingSound ==
    ASSUME TypeOK, ControlInv, CopyInv, NEW t \in Threads, Sound(t),
           \/ StartJob(t) \/ SaveJob(t) \/ SaveLoad(t) \/ SaveWrite(t)
           \/ ScheduleRefresh(t)
    PROVE  Sound(t)'
<1> USE DEF Resting, Beginning, SaveSteps
<1>1. th[t].pc \in {"check", "refresh"} \cup SaveSteps
  BY DEF StartJob, SaveJob, SaveLoad, SaveWrite, ScheduleRefresh, At
<1>2. Intact /\ (Coherent \/ (Settled /\ Broke(t)))
  BY <1>1, SettledThere, SettledSaving
<1>3. Step(t) /\ ~WriteRecord(t)
  BY <1>1 DEF Step, JobStep, WriteRecord, At
<1>4. ReleaseKept
  <2>1. store'.rollback = store.rollback
    BY <1>3, RecordSame
  <2>2. UNCHANGED host
    BY DEF StartJob, SaveJob, SaveLoad, SaveWrite, ScheduleRefresh, ThreadOnly
  <2> QED BY <2>1, <2>2 DEF host, ReleaseKept
<1>5. th'[t].pc \in Resting
  <2>1. ASSUME NEW step \in Resting, Goto(t, step) PROVE th'[t].pc \in Resting
    BY <2>1, GotoPc DEF Pcs, JobSteps
  <2>2. CASE StartJob(t)
    BY <2>1, <2>2, FinishRow DEF StartJob, JobStatus
  <2>3. CASE SaveJob(t) \/ ScheduleRefresh(t)
    BY <2>1, <2>3 DEF SaveJob, ScheduleRefresh
  <2>4. CASE SaveLoad(t)
    BY <2>4, LoadRow DEF SaveLoad, Pcs, JobSteps
  <2>5. CASE SaveWrite(t)
    BY <2>1, <2>5 DEF SaveWrite, AfterSave
  <2> QED BY <2>2, <2>3, <2>4, <2>5
<1>6. ASSUME Broke(t), th[t].pc # "done" PROVE Broke(t)'
  <2>1. th[t].op = "deployment" /\ th[t].status = "failed"
        /\ th[t].pc \in SaveSteps
    BY <1>6 DEF Broke
  <2>2. CASE SaveJob(t) \/ SaveWrite(t)
    <3>1. PICK step \in {"saveLoad", "done"} : Goto(t, step)
      BY <2>1, <2>2 DEF SaveJob, SaveWrite, AfterSave
    <3>2. /\ th'[t].pc = step /\ th'[t].op = "deployment"
          /\ th'[t].status = "failed"
      BY <2>1, <3>1, GotoRow, DoneRow, EndedRow DEF Locals, Pcs, JobSteps
    <3> QED BY <3>2 DEF Broke
  <2>3. CASE SaveLoad(t)
    BY <2>1, <2>3, LoadRow DEF SaveLoad, Broke, Locals, Pcs, JobSteps
  <2> QED BY <2>1, <2>2, <2>3 DEF StartJob, ScheduleRefresh, At
<1>7. th[t].pc # "done"
  BY DEF StartJob, SaveJob, SaveLoad, SaveWrite, ScheduleRefresh, At
<1> QED BY <1>2, <1>4, <1>5, <1>6, <1>7, ReleaseSame, RestingSound

\* apply_firewall and remove_firewall change nothing of a release.
LEMMA RuleSound ==
    ASSUME TypeOK, ControlInv, CopyInv, NEW t \in Threads, Sound(t),
           FirewallStep(t)
    PROVE  Sound(t)'
<1>1. th[t].pc \in FirewallSteps
  BY DEF FirewallStep, ReadPrevious, DeletePrevious, AddRule, LoadForRule, WriteRule,
         ReadRule, DeleteRule, ForgetRule, At, FirewallSteps
<1>2. Coherent /\ Intact
  BY <1>1, SettledThere DEF FirewallSteps
<1>3. Step(t) /\ ~WriteRecord(t)
  BY <1>1 DEF Step, WriteRecord, At, FirewallSteps
<1>4. ReleaseKept
  <2>1. store'.rollback = store.rollback
    BY <1>3, RecordSame
  <2>2. UNCHANGED <<env, runtime, app, db, dump, files>>
    BY DEF FirewallStep, ReadPrevious, DeletePrevious, AddRule, LoadForRule,
        WriteRule, ReadRule, DeleteRule, ForgetRule, ThreadOnly, host
  <2> QED BY <2>1, <2>2 DEF ReleaseKept
<1>5. Coherent' /\ Intact'
  BY <1>2, <1>4, ReleaseSame
<1>6. PICK step \in FirewallSteps \cup {"up", "done"} : Moves(t, step)
  <2>1. CASE ReadPrevious(t)
    BY <2>1 DEF ReadPrevious, Moves, FirewallSteps
  <2>2. CASE ReadRule(t)
    BY <2>2 DEF ReadRule, Moves, FirewallSteps, AfterFirewall
  <2>3. CASE WriteRule(t) \/ ForgetRule(t)
    BY <2>3 DEF WriteRule, ForgetRule, Moves, AfterFirewall
  <2>4. CASE DeletePrevious(t) \/ AddRule(t) \/ LoadForRule(t) \/ DeleteRule(t)
    BY <2>4 DEF DeletePrevious, AddRule, LoadForRule, DeleteRule, Moves, FirewallSteps
  <2> QED BY <2>1, <2>2, <2>3, <2>4 DEF FirewallStep
<1>7. CASE step = "done"
  <2>1. th'[t].pc = "done"
    BY <1>6, <1>7, GotoPc, LoadRow DEF Moves, Pcs
  <2> QED BY <1>5, <2>1, RestingSound DEF Resting, Beginning
<1>8. CASE step # "done"
  <2>1. Locals(t) /\ th'[t].undo = th[t].undo /\ th'[t].pc = step
    BY <1>6, <1>8, GotoRow, LoadRow DEF Moves, Pcs, JobSteps
  <2>2. th[t].op # "upgrade" /\ ~Restoring(t) /\ th[t].pc \in Prepared
    BY <1>1 DEF ControlInv, RowOK, Sound, Progress, Prepared
  <2>3. ~Restoring(t)' /\ th'[t].op # "upgrade"
    BY <2>1, <2>2 DEF Restoring, Locals
  <2>4. \A b, r : Saved(b, r)' <=> Saved(b, r)
    BY <1>4, ReleaseSame
  <2>5. th'[t].pc \notin {"copyFiles", "unmix", "unlink"} \cup UpgradeSteps \cup RestoreSteps
    BY <1>8, <2>1 DEF FirewallSteps, UpgradeSteps, RestoreSteps
  <2>6. WayBack(t)'
    BY <2>1, <2>2, <2>3, <2>4, <2>5 DEF Sound, WayBack, Locals
  <2>7. Progress(t)'
    BY <2>3, <2>5 DEF Progress, RestoreSteps
  <2> QED BY <1>5, <2>6, <2>7 DEF Sound
<1> QED BY <1>7, <1>8

\* Nobody has recorded the backups of a job that is still at work.
LEMMA NotRecorded ==
    ASSUME ControlInv, NEW t \in Threads,
           th[t].pc \in UpgradeSteps \cup {"unlink", "recWrite", "recLoad"}
    PROVE  /\ t \notin store.rollback.backup
           /\ t \notin th[t].copy.rollback.backup
<1>1. ~Committed(t)
  BY DEF Committed, SaveSteps, UpgradeSteps
<1> QED BY <1>1 DEF ControlInv, Recorded

\* How a deployment, an upgrade and a rollback begin.
LEMMA BeginningSound ==
    ASSUME TypeOK, ControlInv, CopyInv, NEW t \in Threads, Sound(t),
           DeploymentReads(t) \/ PrepareRelease(t) \/ ReadRollback(t)
    PROVE  Sound(t)'
<1>1. th[t] \in Thread /\ th \in [Threads -> Thread] /\ RowOK(t, th[t])
      /\ env.img \in Releases /\ None \notin Releases
  BY HostAgentAssumption DEF TypeOK, ControlInv, EnvFile, Releases, None
<1>2. Coherent /\ Intact
  BY SettledThere DEF DeploymentReads, PrepareRelease, ReadRollback, At, Resting, Beginning
<1>3. ReleaseKept
  BY DEF DeploymentReads, PrepareRelease, ReadRollback, ThreadOnly, host, ReleaseKept
<1>4. /\ Coherent' /\ Intact' /\ env'.img = env.img
      /\ \A b, r : Saved(b, r)' <=> Saved(b, r)
  BY <1>2, <1>3, ReleaseSame DEF ReleaseKept
<1>5. CASE DeploymentReads(t)
  <2>1. th'[t].pc = "env" /\ th'[t].op = "deployment"
        /\ th'[t].env = [NoChanges EXCEPT !.net = env.net]
    BY <1>1, <1>5 DEF DeploymentReads, Thread, RowOK, At
  <2>2. th'[t].env.img = None
    BY <2>1 DEF NoChanges
  <2>3. WayBack(t)'
    BY <2>1, <2>2 DEF WayBack, UpgradeSteps
  <2>4. Progress(t)'
    BY <2>1 DEF Progress, UpgradeSteps, RestoreSteps, FirewallSteps
  <2> QED BY <1>4, <2>3, <2>4 DEF Sound
<1>6. CASE PrepareRelease(t)
  <2>1. th'[t].pc = "backup" /\ th'[t].op = "upgrade"
        /\ th'[t].env = [NoChanges EXCEPT !.img = env.img]
    BY <1>1, <1>6 DEF PrepareRelease, Thread, RowOK, At, UpgradeSteps
  <2>2. th'[t].env.img = env.img
    BY <2>1 DEF NoChanges
  <2>3. WayBack(t)'
    BY <1>1, <2>1, <2>2 DEF WayBack, UpgradeSteps, Prepared, RecordSteps,
          FirewallSteps, RestoreSteps
  <2>4. Progress(t)'
    BY <1>4, <2>1, <2>2 DEF Progress, UpgradeSteps, RestoreSteps, FirewallSteps
  <2> QED BY <1>4, <2>3, <2>4 DEF Sound
<1>7. CASE ReadRollback(t)
  <2>1. th[t].op = "rollback"
    BY <1>1, <1>7 DEF ReadRollback, RowOK, At
  <2>2. CASE store.rollback.env = NoChanges
    <3>1. th'[t].pc = "save"
      BY <1>7, <2>2, FinishRow DEF ReadRollback, JobStatus
    <3> QED BY <1>4, <3>1, RestingSound DEF Resting, Beginning, SaveSteps
  <2>3. CASE store.rollback.env # NoChanges
    <3>1. /\ th'[t].pc = "env" /\ th'[t].op = "rollback"
          /\ th'[t].env = store.rollback.env
          /\ th'[t].backup = store.rollback.backup
      BY <1>1, <1>7, <2>1, <2>3 DEF ReadRollback, Thread
    <3>2. WayBack(t)'
      BY <1>2, <1>4, <3>1 DEF WayBack, Intact, UpgradeSteps
    <3>3. Progress(t)'
      BY <3>1 DEF Progress, UpgradeSteps, RestoreSteps, FirewallSteps
    <3> QED BY <1>4, <3>2, <3>3 DEF Sound
  <2> QED BY <2>2, <2>3
<1> QED BY <1>5, <1>6, <1>7

\* The backups of an upgrade, and the new runtime files.
LEMMA BackingSound ==
    ASSUME TypeOK, ControlInv, CopyInv, NEW t \in Threads, Sound(t),
           DatabaseBackup(t) \/ CopyRuntime(t)
    PROVE  Sound(t)'
<1>1. th[t].pc \in {"backup", "copyFiles"} /\ th[t].op = "upgrade" /\ ~th[t].undo
  BY DEF DatabaseBackup, CopyRuntime, At, ControlInv, RowOK, UpgradeSteps
<1>2. Coherent /\ Intact
  BY <1>1, SettledThere
<1>3. /\ env.img = th[t].env.img /\ th[t].env.img # None
      /\ th[t].pc = "copyFiles" => dump[t] = DatabaseOf(th[t].env.img)
  BY <1>1 DEF Sound, Progress, WayBack, UpgradeSteps
<1>4. t \notin store.rollback.backup
  BY <1>1, NotRecorded DEF UpgradeSteps
<1>5. /\ dump \in [Threads -> Database \cup {NoDump}]
      /\ files \in [Threads -> Releases \cup {Mixed, Absent}]
      /\ store.rollback.backup \subseteq Threads
  BY DEF TypeOK, State, Rollback
<1>6. UNCHANGED <<env, runtime, app, db, store>>
  BY DEF DatabaseBackup, CopyRuntime, HostOnly
<1>7. PICK step \in {"copyFiles", "deployFiles"} :
          /\ Goto(t, step)
          /\ step = "copyFiles" => At(t, "backup") /\ files' = files
                                   /\ dump' = [dump EXCEPT ![t] = db]
          /\ step = "deployFiles" => At(t, "copyFiles") /\ dump' = dump
                                   /\ files' = [files EXCEPT ![t] = runtime]
  <2>1. CASE DatabaseBackup(t)
    BY <2>1 DEF DatabaseBackup
  <2>2. CASE CopyRuntime(t)
    BY <2>2 DEF CopyRuntime
  <2> QED BY <2>1, <2>2
<1>8. /\ Locals(t) /\ th'[t].pc = step /\ th'[t].undo = th[t].undo
  BY <1>7, GotoRow DEF Pcs, JobSteps
<1>9. \A b \in Threads \ {t} : dump'[b] = dump[b] /\ files'[b] = files[b]
  BY <1>5, <1>7
<1>10. Coherent' /\ Intact'
  BY <1>2, <1>4, <1>5, <1>6, <1>9 DEF Coherent, Settled, Intact, Saved
<1>11. step = "copyFiles" => dump'[t] = DatabaseOf(th[t].env.img)
  BY <1>2, <1>3, <1>5, <1>7 DEF Coherent, Settled
<1>12. step = "deployFiles" => Saved(t, th[t].env.img)'
  <2>1. step = "deployFiles" =>
            dump'[t] = DatabaseOf(th[t].env.img) /\ files'[t] = th[t].env.img
    BY <1>2, <1>3, <1>5, <1>7 DEF Coherent, Settled, At
  <2>2. th'[t].env = th[t].env
    BY <1>8 DEF Locals
  <2> QED BY <2>1, <2>2 DEF Saved
<1>13. WayBack(t)'
  BY <1>1, <1>3, <1>8, <1>11, <1>12 DEF WayBack, Locals, Prepared, RecordSteps,
        FirewallSteps, RestoreSteps
<1>14. Progress(t)'
  BY <1>3, <1>6, <1>8 DEF Progress, Locals, RestoreSteps, FirewallSteps
<1> QED BY <1>10, <1>13, <1>14 DEF Sound

LEMMA FilesSound ==
    ASSUME TypeOK, ControlInv, CopyInv, NEW t \in Threads, Sound(t),
           DeployRuntime(t) \/ RestoreAfterDeploy(t)
    PROVE  Sound(t)'
<1>1. /\ th[t].pc \in {"deployFiles", "unmix"} /\ th[t].op = "upgrade" /\ ~th[t].undo
  BY DEF DeployRuntime, RestoreAfterDeploy, At, ControlInv, RowOK, UpgradeSteps
<1>2. /\ env.img = th[t].env.img /\ th[t].env.img # None
      /\ Saved(t, th[t].env.img) /\ Intact
      /\ app.up /\ app.img = env.img /\ db = DatabaseOf(env.img)
  <2>1. env.img = th[t].env.img /\ th[t].env.img # None
        /\ Saved(t, th[t].env.img) /\ Intact
    BY <1>1 DEF Sound, Progress, WayBack, UpgradeSteps
  <2>2. app.up /\ app.img = env.img /\ db = DatabaseOf(env.img)
    <3>1. CASE th[t].pc = "deployFiles"
      BY <3>1, SettledThere DEF Coherent, Settled
    <3>2. CASE th[t].pc = "unmix"
      BY <3>2 DEF Sound, Progress
    <3> QED BY <1>1, <3>1, <3>2
  <2> QED BY <2>1, <2>2
<1>3. UNCHANGED <<env, app, db, dump, files, store>>
  BY DEF DeployRuntime, RestoreAfterDeploy, HostOnly
<1>4. Intact' /\ \A b, r : Saved(b, r)' <=> Saved(b, r)
  BY <1>2, <1>3 DEF Intact, Saved
<1>5. CASE DeployRuntime(t)
  <2>1. /\ Locals(t) /\ th'[t].pc = "env" /\ th'[t].undo = th[t].undo
        /\ runtime' = th[t].arg
    BY <1>5, GotoRow DEF DeployRuntime, Pcs, JobSteps
  <2>2. th'[t].op = "upgrade" /\ th'[t].env = th[t].env
    BY <1>1, <2>1 DEF Locals
  <2>3. WayBack(t)'
    BY <1>2, <1>4, <2>1, <2>2 DEF WayBack
  <2>4. db.data
    BY <1>2 DEF DatabaseOf
  <2>5. Progress(t)'
    BY <1>1, <1>3, <2>1, <2>4 DEF Progress, Locals, UpgradeSteps, RestoreSteps,
          FirewallSteps
  <2>6. Unsettled(t)'
    BY <2>1, <2>2 DEF Unsettled
  <2> QED BY <1>4, <2>3, <2>5, <2>6 DEF Sound
<1>6. CASE RestoreAfterDeploy(t)
  <2>1. runtime' = files[t] /\ th'[t].pc = "save"
    BY <1>6, FinishRow DEF RestoreAfterDeploy, JobStatus
  <2>2. Coherent'
    BY <1>2, <1>3, <2>1 DEF Coherent, Settled, Saved
  <2> QED BY <1>4, <2>1, <2>2, RestingSound DEF Resting, Beginning, SaveSteps
<1> QED BY <1>5, <1>6

\* Environment: a deployment leaves the image alone, the others set it.
LEMMA EnvSound ==
    ASSUME TypeOK, ControlInv, CopyInv, NEW t \in Threads, Sound(t), UpdateEnv(t)
    PROVE  Sound(t)'
<1>1. /\ th[t].pc = "env" /\ th[t].op \in Ops /\ th[t].op # "apply"
      /\ th[t].op = "upgrade" => th[t].arg \in Releases /\ th[t].backup = {t}
  BY DEF UpdateEnv, At, ControlInv, RowOK, Active, JobSteps, FirewallAdds, Prepared
<1>2. th[t].op \in {"deployment", "upgrade", "rollback"}
  BY <1>1, HostAgentAssumption DEF Operations
<1>3. /\ th[t].op = "deployment" => th[t].env.img = None
      /\ th[t].op = "rollback" =>
           /\ th[t].backup = {} <=> th[t].env.img = None
           /\ \A b \in th[t].backup : Saved(b, th[t].env.img)
      /\ th[t].op = "upgrade" => th[t].env.img # None /\ Saved(t, th[t].env.img)
      /\ Intact
      /\ th[t].op = "upgrade" /\ ~th[t].undo => runtime = th[t].arg /\ db.data
  BY <1>1 DEF Sound, WayBack, Progress, Prepared
<1>4. th[t].op # "upgrade" => Coherent
  BY <1>1, <1>2, SettledThere
<1>5. None \notin Releases
  BY HostAgentAssumption DEF Releases, None
<1>6. /\ Goto(t, AfterEnv(t)) /\ env' = Update(env, Changes(t))
      /\ UNCHANGED <<runtime, app, db, dump, files, store>>
  BY DEF UpdateEnv, HostOnly
<1>7. env'.img = IF Changes(t).img = None THEN env.img ELSE Changes(t).img
  BY <1>6 DEF Update
<1>8. Intact' /\ \A b, r : Saved(b, r)' <=> Saved(b, r)
  BY <1>3, <1>6 DEF Intact, Saved
<1>9. ASSUME NEW step \in FirewallSteps \cup {"up", "restoreFiles"}, AfterEnv(t) = step
      PROVE  /\ Locals(t) /\ th'[t].pc = step /\ th'[t].undo = th[t].undo
             /\ WayBack(t)' /\ (Restoring(t)' <=> Restoring(t))
  <2>1. step \in Pcs \ {"done"} /\ Goto(t, step)
    BY <1>6, <1>9 DEF Pcs, JobSteps, FirewallSteps
  <2>2. Locals(t) /\ th'[t].pc = step /\ th'[t].undo = th[t].undo
    BY <2>1, GotoRow
  <2>3. step # "copyFiles"
    BY <1>9 DEF FirewallSteps
  <2>4. WayBack(t)'
    BY <1>3, <1>8, <2>2, <2>3 DEF WayBack, Locals
  <2> QED BY <2>2, <2>4 DEF Restoring, Locals
<1>10. CASE th[t].op # "upgrade" /\ ~Restoring(t)
  <2>1. Changes(t).img = None
    BY <1>2, <1>3, <1>10 DEF Changes, Restoring, NoChanges
  <2>2. Coherent'
    BY <1>4, <1>6, <1>7, <1>10, <2>1 DEF Coherent, Settled
  <2>3. PICK step \in FirewallSteps : AfterEnv(t) = step
    BY <1>2, <1>10 DEF AfterEnv, FirewallEntry, Restoring, FirewallSteps
  <2>4. /\ Locals(t) /\ th'[t].pc = step /\ th'[t].undo = th[t].undo
        /\ WayBack(t)' /\ ~Restoring(t)'
    BY <1>9, <1>10, <2>3
  <2>5. Progress(t)'
    BY <1>10, <2>3, <2>4 DEF Progress, Locals, UpgradeSteps, RestoreSteps,
          FirewallSteps
  <2> QED BY <1>8, <2>2, <2>4, <2>5 DEF Sound
<1>11. CASE Restoring(t)
  <2>1. /\ Changes(t) = th[t].env /\ th[t].env.img # None
        /\ AfterEnv(t) = "restoreFiles"
    BY <1>1, <1>2, <1>3, <1>11 DEF Restoring, Changes, AfterEnv
  <2>2. env'.img = th[t].env.img
    BY <1>7, <2>1
  <2>3. Locals(t) /\ th'[t].pc = "restoreFiles" /\ WayBack(t)'
    BY <1>9, <2>1
  <2>4. Progress(t)'
    BY <2>2, <2>3 DEF Progress, Locals, UpgradeSteps, FirewallSteps
  <2>5. Unsettled(t)'
    BY <2>3 DEF Unsettled, RestoreSteps
  <2> QED BY <1>8, <2>3, <2>4, <2>5 DEF Sound
<1>12. CASE th[t].op = "upgrade" /\ ~th[t].undo
  <2>1. Changes(t).img = th[t].arg /\ AfterEnv(t) = "up"
    BY <1>12 DEF Changes, AfterEnv, NoChanges
  <2>2. env'.img = th[t].arg
    BY <1>1, <1>5, <1>7, <1>12, <2>1
  <2>3. /\ Locals(t) /\ th'[t].pc = "up" /\ th'[t].undo = th[t].undo
        /\ WayBack(t)'
    BY <1>9, <2>1
  <2>4. Progress(t)'
    BY <1>3, <1>6, <1>12, <2>2, <2>3
    DEF Progress, Locals, UpgradeSteps, RestoreSteps, FirewallSteps, Restoring
  <2>5. Unsettled(t)'
    BY <1>12, <2>3 DEF Unsettled, Locals
  <2> QED BY <1>8, <2>3, <2>4, <2>5 DEF Sound
<1> QED BY <1>10, <1>11, <1>12 DEF Restoring

\* An image that finds its own schema changes nothing.
LEMMA Recreated ==
    ASSUME TypeOK, RecreateApp, UNCHANGED env
    PROVE  /\ app'.up /\ app'.img = env.img /\ app'.net = env.net
           /\ db = DatabaseOf(env.img) => db' = db
           /\ db'.data = db.data
<1>1. env.img \in Int /\ db \in Database
  BY DEF TypeOK, EnvFile, Releases
<1>2. app'.up /\ app'.img = env.img /\ app'.net = env.net
  BY DEF RecreateApp
<1>3. db'.data = db.data
  BY <1>1 DEF RecreateApp, Migrate, Database
<1>4. ASSUME db = DatabaseOf(env.img) PROVE db' = db
  <2>1. db.schema = env.img
    BY <1>4 DEF DatabaseOf
  <2>2. [db EXCEPT !.schema = env.img] = db
    BY <1>1, <2>1 DEF Database
  <2> QED BY <2>1, <2>2 DEF RecreateApp, Migrate
<1> QED BY <1>2, <1>3, <1>4

LEMMA UpSound ==
    ASSUME TypeOK, ControlInv, CopyInv, NEW t \in Threads, Sound(t), ComposeUp(t)
    PROVE  Sound(t)'
<1>1. /\ th[t].pc = "up" /\ th[t].op \in Ops /\ th[t].op # "apply"
  BY DEF ComposeUp, At, ControlInv, RowOK, Active, JobSteps, FirewallAdds
<1>2. th[t].op \in {"deployment", "upgrade", "rollback"}
  BY <1>1, HostAgentAssumption DEF Operations
<1>3. /\ RecreateApp /\ UNCHANGED <<env, runtime, dump, files, store>>
      /\ th[t].undo => \E outcome \in Failed : Finish(t, outcome)
      /\ ~th[t].undo => Goto(t, "health")
  BY DEF ComposeUp, HostOnly, Failed
<1>4. /\ app'.up /\ app'.img = env.img
      /\ db = DatabaseOf(env.img) => db' = db
      /\ db'.data = db.data
  BY <1>3, Recreated
<1>5. Intact
  BY <1>1 DEF Sound
<1>6. Intact' /\ \A b, r : Saved(b, r)' <=> Saved(b, r)
  BY <1>3, <1>5 DEF Intact, Saved
<1>7. ASSUME ~th[t].undo
      PROVE  /\ Locals(t) /\ th'[t].pc = "health" /\ th'[t].undo = th[t].undo
             /\ WayBack(t)' /\ (Restoring(t)' <=> Restoring(t))
  <2>1. Locals(t) /\ th'[t].pc = "health" /\ th'[t].undo = th[t].undo
    BY <1>3, <1>7, GotoRow DEF Pcs, JobSteps
  <2>2. th[t].pc \in Prepared
    BY <1>1 DEF Prepared
  <2>3. WayBack(t)'
    BY <1>6, <2>1, <2>2 DEF Sound, WayBack, Locals
  <2> QED BY <2>1, <2>3 DEF Restoring, Locals
<1>8. CASE th[t].op # "upgrade" \/ th[t].undo
  <2>1. runtime = env.img /\ db = DatabaseOf(env.img)
    <3>1. CASE Restoring(t)
      BY <1>1, <3>1 DEF Sound, Progress
    <3>2. CASE ~Restoring(t)
      BY <1>1, <1>2, <1>8, <3>2, SettledThere DEF Coherent, Settled, Restoring
    <3> QED BY <3>1, <3>2
  <2>2. Coherent'
    BY <1>3, <1>4, <2>1 DEF Coherent, Settled
  <2>3. CASE th[t].undo
    <3>1. th'[t].pc = "save"
      BY <1>3, <2>3, FinishRow DEF JobStatus, Failed
    <3> QED BY <1>6, <2>2, <3>1, RestingSound DEF Resting, Beginning, SaveSteps
  <2>4. CASE ~th[t].undo
    <3>1. Locals(t) /\ th'[t].pc = "health" /\ WayBack(t)'
      BY <1>7, <2>4
    <3>2. th'[t].op # "upgrade"
      BY <1>8, <2>4, <3>1 DEF Locals
    <3>3. Progress(t)'
      BY <3>1, <3>2 DEF Progress, UpgradeSteps, RestoreSteps, FirewallSteps
    <3> QED BY <1>6, <2>2, <3>1, <3>3 DEF Sound
  <2> QED BY <2>3, <2>4
<1>9. CASE th[t].op = "upgrade" /\ ~th[t].undo
  <2>1. runtime = th[t].arg /\ db.data /\ env.img = th[t].arg
    BY <1>1, <1>9 DEF Sound, Progress
  <2>2. Locals(t) /\ th'[t].pc = "health" /\ th'[t].undo = th[t].undo /\ WayBack(t)'
    BY <1>7, <1>9
  <2>3. Progress(t)'
    BY <1>3, <1>4, <1>9, <2>1, <2>2
    DEF Progress, Locals, UpgradeSteps, RestoreSteps, FirewallSteps
  <2>4. Unsettled(t)'
    BY <1>9, <2>2 DEF Unsettled, Locals
  <2> QED BY <1>6, <2>2, <2>3, <2>4 DEF Sound
<1> QED BY <1>8, <1>9

\* A job that is to be taken back has everything it needs for that.
LEMMA UndoSound ==
    ASSUME TypeOK, ControlInv, NEW t \in Threads, Sound(t), Undo(t),
           \/ th[t].op = "upgrade" /\ th[t].pc \in {"env", "up", "health"}
           \/ th[t].op = "deployment" /\ th[t].pc = "health" /\ Coherent',
           UNCHANGED <<env, dump, files, store>>
    PROVE  Sound(t)'
<1>1. Locals(t) /\ th'[t].pc = "env" /\ th'[t].undo
  BY UndoRow
<1>2. Intact /\ th[t].pc \in Prepared
  BY DEF Sound, Prepared
<1>3. Intact' /\ \A b, r : Saved(b, r)' <=> Saved(b, r)
  BY <1>2 DEF Intact, Saved
<1>4. WayBack(t)'
  BY <1>1, <1>2, <1>3 DEF Sound, WayBack, Locals
<1>5. Progress(t)'
  BY <1>1 DEF Progress, UpgradeSteps, RestoreSteps, FirewallSteps
<1>6. th[t].op = "upgrade" => Unsettled(t)'
  BY <1>1 DEF Unsettled, Locals
<1> QED BY <1>3, <1>4, <1>5, <1>6 DEF Sound

LEMMA HealthSound ==
    ASSUME TypeOK, ControlInv, CopyInv, NEW t \in Threads, Sound(t), HealthCheck(t)
    PROVE  Sound(t)'
<1>1. /\ th[t].pc = "health" /\ th[t].op \in Ops /\ th[t].op # "apply" /\ ~th[t].undo
  BY DEF HealthCheck, At, ControlInv, RowOK, Active, JobSteps, FirewallAdds
<1>2. th[t].op \in {"deployment", "upgrade", "rollback"}
  BY <1>1, HostAgentAssumption DEF Operations
<1>3. ReleaseKept /\ UNCHANGED <<env, dump, files, store>>
  BY DEF HealthCheck, ThreadOnly, host, ReleaseKept
<1>4. Intact'
  BY <1>1, <1>3, ReleaseSame DEF Sound
<1>5. th[t].op # "upgrade" => Coherent /\ Coherent'
  BY <1>1, <1>2, <1>3, SettledThere, ReleaseSame
<1>6. CASE th[t].op = "rollback"
  <2>1. th'[t].pc = "save"
    BY <1>6, FinishRow DEF HealthCheck, JobStatus
  <2> QED BY <1>4, <1>5, <1>6, <2>1, RestingSound DEF Resting, Beginning, SaveSteps
<1>7. CASE th[t].op # "rollback" /\ Ready
  <2>1. Locals(t) /\ th'[t].pc = "recLoad" /\ th'[t].undo = th[t].undo
    BY <1>7, GotoRow DEF HealthCheck, Pcs, JobSteps
  <2>2. Coherent
    <3> SUFFICES ASSUME th[t].op = "upgrade" PROVE Coherent
      BY <1>5
    <3>1. /\ runtime = th[t].arg /\ db.data /\ env.img = th[t].arg
          /\ app.up /\ app.img = th[t].arg
      BY <1>1 DEF Sound, Progress
    <3>2. db.schema = env.img /\ db \in Database
      BY <1>7, <3>1 DEF Ready, TypeOK
    <3>3. db = DatabaseOf(env.img)
      BY <3>1, <3>2 DEF Database, DatabaseOf
    <3> QED BY <3>1, <3>3 DEF Coherent, Settled
  <2>3. th[t].pc \in Prepared /\ th'[t].pc \in Prepared
    BY <1>1, <2>1 DEF Prepared, RecordSteps
  <2>4. \A b, r : Saved(b, r)' <=> Saved(b, r)
    BY <1>3, ReleaseSame
  <2>5. WayBack(t)'
    BY <2>1, <2>3, <2>4 DEF Sound, WayBack, Locals
  <2>6. Progress(t)'
    BY <2>1 DEF Progress, UpgradeSteps, RestoreSteps, FirewallSteps
  <2> QED BY <1>3, <1>4, <2>2, <2>5, <2>6, ReleaseSame DEF Sound
<1>8. CASE th[t].op # "rollback" /\ ~Ready
  <2>1. Undo(t)
    BY <1>8 DEF HealthCheck
  <2> QED BY <1>1, <1>2, <1>3, <1>5, <1>8, <2>1, UndoSound
<1> QED BY <1>6, <1>7, <1>8

\* What a job restores is of the release it goes back to.
LEMMA RestoreKnows ==
    ASSUME TypeOK, ControlInv, NEW t \in Threads, Sound(t),
           th[t].pc \in RestoreSteps
    PROVE  /\ \A b \in th[t].backup : Saved(b, th[t].env.img)
           /\ th[t].backup # {} => Restoring(t)
           /\ Intact /\ env.img = th[t].env.img
           /\ th[t].pc # "restoreFiles" => runtime = th[t].env.img
<1>1. th[t].pc \in Prepared
  BY DEF Prepared
<1>2. th[t].op = "rollback" \/ (th[t].op = "upgrade" /\ th[t].undo
                                /\ th[t].backup = {t})
  BY <1>1 DEF ControlInv, RowOK
<1>3. \A b \in th[t].backup : Saved(b, th[t].env.img)
  BY <1>1, <1>2 DEF Sound, WayBack
<1>4. Intact
  BY DEF Sound, RestoreSteps
<1>5. env.img = th[t].env.img /\ (th[t].pc # "restoreFiles" => runtime = th[t].env.img)
  BY DEF Sound, Progress, RestoreSteps
<1> QED BY <1>2, <1>3, <1>4, <1>5 DEF Restoring

LEMMA RestoreSound ==
    ASSUME TypeOK, ControlInv, CopyInv, NEW t \in Threads, Sound(t),
           RestoreRuntime(t) \/ StopApp(t) \/ DropDatabase(t) \/ LoadDatabase(t)
    PROVE  Sound(t)'
<1>1. th[t].pc \in RestoreSteps
  BY DEF RestoreRuntime, StopApp, DropDatabase, LoadDatabase, At, RestoreSteps
<1>2. /\ \A b \in th[t].backup : Saved(b, th[t].env.img)
      /\ th[t].backup # {} => Restoring(t)
      /\ Intact /\ env.img = th[t].env.img
      /\ th[t].pc # "restoreFiles" => runtime = th[t].env.img
  BY <1>1, RestoreKnows
<1>3. UNCHANGED <<env, dump, files, store>>
  BY DEF RestoreRuntime, StopApp, DropDatabase, LoadDatabase, HostOnly
<1>4. Intact' /\ \A b, r : Saved(b, r)' <=> Saved(b, r)
  BY <1>2, <1>3 DEF Intact, Saved
<1>5. ASSUME NEW step \in {"dbStop", "dbDrop", "dbLoad", "up"}, Goto(t, step),
             runtime' = th[t].env.img,
             step = "up" => Restoring(t) /\ db' = DatabaseOf(th[t].env.img)
      PROVE  Sound(t)'
  <2>1. Locals(t) /\ th'[t].pc = step /\ th'[t].undo = th[t].undo
    BY <1>5, GotoRow DEF Pcs, JobSteps
  <2>2. th[t].pc \in Prepared /\ th'[t].pc \in Prepared
    BY <1>1, <1>5, <2>1 DEF Prepared, RestoreSteps
  <2>3. WayBack(t)'
    BY <1>4, <2>1, <2>2 DEF Sound, WayBack, Locals
  <2>4. Restoring(t)' <=> Restoring(t)
    BY <2>1 DEF Restoring, Locals
  <2>5. th'[t].pc = "up" => th'[t].op # "upgrade" \/ th'[t].undo
    BY <1>5, <2>1 DEF Restoring, Locals
  <2>6. env'.img = th'[t].env.img /\ runtime' = th'[t].env.img
        /\ (step = "up" => db' = DatabaseOf(th'[t].env.img))
    BY <1>2, <1>3, <1>5, <2>1 DEF Locals
  <2>7. Progress(t)'
    BY <1>5, <2>1, <2>5, <2>6 DEF Progress, UpgradeSteps, FirewallSteps
  <2>8. Unsettled(t)'
    BY <1>5, <2>1, <2>4 DEF Unsettled, RestoreSteps
  <2> QED BY <1>4, <2>3, <2>7, <2>8 DEF Sound
<1>6. CASE RestoreRuntime(t)
  <2>1. PICK b \in th[t].backup : runtime' = files[b] /\ Goto(t, "dbStop")
    BY <1>6 DEF RestoreRuntime
  <2>2. runtime' = th[t].env.img
    BY <1>2, <2>1 DEF Saved
  <2> QED BY <1>5, <2>1, <2>2
<1>7. CASE StopApp(t)
  <2>1. Goto(t, "dbDrop") /\ runtime' = runtime /\ th[t].pc = "dbStop"
    BY <1>7 DEF StopApp, At
  <2> QED BY <1>2, <1>5, <2>1
<1>8. CASE DropDatabase(t)
  <2>1. Goto(t, "dbLoad") /\ runtime' = runtime /\ th[t].pc = "dbDrop"
    BY <1>8 DEF DropDatabase, At
  <2> QED BY <1>2, <1>5, <2>1
<1>9. CASE LoadDatabase(t)
  <2>1. PICK b \in th[t].backup : db' = dump[b] /\ Goto(t, "up")
    BY <1>9 DEF LoadDatabase
  <2>2. runtime' = runtime /\ th[t].pc = "dbLoad"
    BY <1>9 DEF LoadDatabase, At
  <2>3. db' = DatabaseOf(th[t].env.img) /\ Restoring(t)
    BY <1>2, <2>1 DEF Saved
  <2> QED BY <1>2, <1>5, <2>1, <2>2, <2>3
<1> QED BY <1>6, <1>7, <1>8, <1>9

\* The record of a successful job.
LEMMA RecordSound ==
    ASSUME TypeOK, ControlInv, CopyInv, NEW t \in Threads, Sound(t),
           LoadForRecord(t) \/ UnlinkPrevious(t) \/ WriteRecord(t)
    PROVE  Sound(t)'
<1>1. /\ th[t].pc \in RecordSteps /\ th[t].pc \in Prepared
  BY DEF LoadForRecord, UnlinkPrevious, WriteRecord, At, RecordSteps, Prepared
<1>2. th[t].op \in {"deployment", "upgrade"} /\ ~th[t].undo
      /\ th[t].backup \subseteq {t}
      /\ (th[t].op = "deployment" => th[t].backup = {})
      /\ (th[t].op = "upgrade" => th[t].backup = {t})
  BY <1>1 DEF ControlInv, RowOK, RecordSteps
<1>3. Coherent /\ (th[t].pc # "recWrite" => Intact)
  BY <1>1, SettledThere
<1>4. /\ th[t].op = "deployment" => th[t].env.img = None
      /\ th[t].op = "upgrade" => th[t].env.img # None /\ Saved(t, th[t].env.img)
  BY <1>1 DEF Sound, WayBack
<1>5. UNCHANGED <<env, runtime, app, db>>
  BY DEF LoadForRecord, UnlinkPrevious, WriteRecord, ThreadOnly, HostOnly, host
<1>6. Coherent'
  BY <1>3, <1>5 DEF Coherent, Settled
<1>7. ASSUME NEW step \in {"unlink", "recWrite"}, Moves(t, step),
             step = "unlink" => th[t].op = "upgrade",
             dump'[t] = dump[t], files'[t] = files[t],
             Intact' \/ (step = "recWrite" /\ th[t].op = "upgrade")
      PROVE  Sound(t)'
  <2>1. Locals(t) /\ th'[t].pc = step /\ th'[t].undo = th[t].undo
    BY <1>7, GotoRow, LoadRow DEF Moves, Pcs, JobSteps
  <2>2. th'[t].op = th[t].op /\ th'[t].env = th[t].env
    BY <2>1 DEF Locals
  <2>3. th'[t].op = "upgrade" => Saved(t, th[t].env.img)'
    BY <1>4, <1>7, <2>2 DEF Saved
  <2>4. WayBack(t)'
    BY <1>2, <1>4, <1>7, <2>1, <2>2, <2>3 DEF WayBack
  <2>5. Progress(t)'
    BY <1>7, <2>1, <2>2 DEF Progress, UpgradeSteps, RestoreSteps, FirewallSteps
  <2> QED BY <1>6, <1>7, <2>1, <2>2, <2>4, <2>5 DEF Sound
<1>8. CASE LoadForRecord(t)
  <2>1. UNCHANGED <<dump, files, store>> /\ th[t].pc = "recLoad"
    BY <1>8 DEF LoadForRecord, ThreadOnly, host, At
  <2>2. Intact'
    BY <1>3, <2>1 DEF Intact, Saved
  <2>3. PICK step \in {"unlink", "recWrite"} :
            Moves(t, step) /\ (step = "unlink" => th[t].op = "upgrade")
    BY <1>8 DEF LoadForRecord, Moves
  <2> QED BY <1>7, <2>1, <2>2, <2>3
<1>9. CASE UnlinkPrevious(t)
  <2>1. th[t].op = "upgrade" /\ th[t].pc = "unlink"
    BY <1>9 DEF UnlinkPrevious, At, Sound, Progress
  <2>2. t \notin th[t].copy.rollback.backup
    BY <2>1, NotRecorded
  <2>3. dump'[t] = dump[t] /\ files'[t] = files[t] /\ Moves(t, "recWrite")
    BY <1>9, <2>2 DEF UnlinkPrevious, Moves
  <2> QED BY <1>7, <2>1, <2>3
<1>10. CASE WriteRecord(t)
  <2>1. th[t].copy \in State /\ UNCHANGED <<dump, files>>
    BY <1>10 DEF WriteRecord, host, TypeOK, Thread
  <2>2. store'.rollback = [env |-> th[t].env, firewall |-> th[t].firewall,
                           backup |-> th[t].backup]
    BY <1>10, <2>1 DEF WriteRecord, State
  <2>3. store'.rollback.env = th[t].env /\ store'.rollback.backup = th[t].backup
    BY <2>2
  <2>4. \A b, r : Saved(b, r)' <=> Saved(b, r)
    BY <2>1 DEF Saved
  <2>5. Intact'
    <3>1. store'.rollback.backup = {} <=> store'.rollback.env.img = None
      BY <1>2, <1>4, <2>3
    <3>2. ASSUME NEW b \in store'.rollback.backup
          PROVE  Saved(b, th[t].env.img)
      BY <1>2, <1>4, <2>3, <3>2
    <3>3. \A b \in store'.rollback.backup :
              dump'[b] = DatabaseOf(store'.rollback.env.img)
              /\ files'[b] = store'.rollback.env.img
      BY <2>1, <2>3, <3>2 DEF Saved
    <3> QED BY <3>1, <3>3 DEF Intact, Saved
  <2>6. th'[t].pc = "save"
    BY <1>10, FinishRow DEF WriteRecord, JobStatus
  <2> QED BY <1>6, <2>5, <2>6, RestingSound DEF Resting, Beginning, SaveSteps
<1> QED BY <1>8, <1>9, <1>10

\* The backups that a job restores are there.
LEMMA BackupsThere ==
    ASSUME TypeOK, ControlInv, NEW t \in Threads, Sound(t)
    PROVE  ~BackupUnavailable(t)
<1> SUFFICES ASSUME BackupUnavailable(t) PROVE FALSE
  OBVIOUS
<1>1. PICK b \in th[t].backup :
          \/ At(t, "restoreFiles") /\ files[b] = Absent
          \/ th[t].pc \in {"dbStop", "dbLoad"} /\ dump[b] = NoDump
  BY DEF BackupUnavailable
<1>2. Saved(b, th[t].env.img)
  BY <1>1, RestoreKnows DEF At, RestoreSteps
<1>3. th[t].env.img \in Releases \cup {None} /\ Absent \notin Releases \cup {None}
  BY HostAgentAssumption DEF TypeOK, Thread, EnvChanges, Releases, None, Absent
<1>4. files[b] # Absent
  BY <1>2, <1>3 DEF Saved
<1>5. dump[b].schema = th[t].env.img
  BY <1>2 DEF Saved, DatabaseOf
<1>6. dump[b] # NoDump
  BY <1>3, <1>5 DEF NoDump
<1> QED BY <1>1, <1>4, <1>6

\* A command that fails: the job is taken back, or had changed nothing yet.
LEMMA FailureSound ==
    ASSUME Recoverable, TypeOK, ControlInv, CopyInv, NEW t \in Threads, Sound(t),
           CommandFails(t), alarm' = {}
    PROVE  Sound(t)'
<1>1. /\ th[t].pc \in Fallible /\ RowOK(t, th[t])
      /\ <<th[t].op, CommandAt(th[t].pc)>> \in Failing
      /\ PartialEffect(t) /\ Raise(t) /\ Log(t)
      /\ failures < MaxFailures /\ failures' = failures + 1 /\ store' = store
  BY FailingSteps DEF CommandFails, ControlInv
<1>2. UNCHANGED <<env, dump, files, store>>
  BY <1>1 DEF PartialEffect
<1>3. th[t].op \in {"upgrade", "apply", "deployment"}
  BY <1>1 DEF Recoverable
<1>5. th[t].pc \notin {"up", "deployFiles", "restoreFiles", "unmix", "dbDrop"} =>
          ReleaseKept
  BY <1>1, <1>2 DEF PartialEffect, ReleaseKept, At
<1>6. CASE th[t].op = "apply"
  <2>1. th[t].pc \in FirewallSteps
    BY <1>1, <1>6 DEF RowOK, Fallible, FirewallAdds, FirewallSteps
  <2>2. ReleaseKept
    BY <1>5, <2>1 DEF FirewallSteps
  <2>3. Coherent' /\ Intact'
    BY <2>1, <2>2, SettledThere, ReleaseSame DEF FirewallSteps
  <2>4. th'[t].pc = "done"
    <3>1. Goto(t, "done")
      BY <1>1, <1>6, <2>1 DEF Raise, FirewallSteps
    <3> QED BY <3>1, GotoPc DEF Pcs
  <2> QED BY <2>3, <2>4, RestingSound DEF Resting, Beginning
<1>7. CASE th[t].op = "deployment"
  <2>1. th[t].pc \in {"env", "up", "health"} \cup FirewallSteps
    BY <1>1, <1>7 DEF RowOK, Fallible, UpgradeSteps, RestoreSteps, FirewallSteps
  <2>2. Coherent /\ Intact
    BY <1>7, <2>1, SettledThere DEF Restoring, FirewallSteps, SaveSteps, ControlInv, RowOK
  <2>3. CASE th[t].pc = "health"
    <3>1. Undo(t)
      BY <1>1, <1>7, <2>3 DEF Raise
    <3>2. Coherent'
      BY <1>5, <2>2, <2>3, ReleaseSame
    <3> QED BY <1>2, <1>7, <2>3, <3>1, <3>2, UndoSound
  <2>4. CASE th[t].pc # "health"
    <3>1. Finish(t, "failed")
      BY <1>1, <1>7, <2>1, <2>4 DEF Raise, FirewallSteps
    <3>2. Broke(t)' /\ th'[t].pc = "save"
      BY <1>7, <3>1, FinishRow DEF JobStatus, Locals, Broke, SaveSteps
    <3>3. app'.img = app.img /\ runtime' = runtime /\ db' = db
      BY <1>1, <2>1 DEF PartialEffect, At, FirewallSteps, TypeOK, Container
    <3>4. Settled' /\ Intact'
      BY <1>2, <2>2, <3>3 DEF Coherent, Settled, Intact, Saved
    <3> QED BY <3>2, <3>4, RestingSound DEF Resting, Beginning, SaveSteps
  <2> QED BY <2>3, <2>4
<1>8. CASE th[t].op = "upgrade"
  <2>1. ~th[t].undo
    BY <1>1, <1>8 DEF Log
  <2>2. th[t].pc \in {"prepare", "backup", "copyFiles", "deployFiles", "unmix", "env",
                      "up", "health"}
    BY <1>1, <1>8, <2>1 DEF RowOK, Fallible, RestoreSteps, FirewallSteps
  <2>3. CASE th[t].pc \in {"prepare", "backup", "copyFiles"}
    <3>1. Coherent /\ Intact
      BY <2>3, SettledThere DEF Resting, Beginning
    <3>2. ReleaseKept
      BY <1>5, <2>3
    <3>3. th'[t].pc = "save"
      <4>1. Finish(t, "failed")
        BY <1>1, <1>8, <2>3 DEF Raise
      <4> QED BY <4>1, FinishRow DEF JobStatus
    <3> QED BY <3>1, <3>2, <3>3, ReleaseSame, RestingSound DEF Resting, Beginning, SaveSteps
  <2>4. CASE th[t].pc = "deployFiles"
    <3>1. Goto(t, "unmix")
      BY <1>1, <1>8, <2>4 DEF Raise
    <3>2. Locals(t) /\ th'[t].pc = "unmix"
      BY <3>1, GotoRow DEF Pcs, JobSteps
    <3>3. Coherent /\ Intact
      BY <2>4, SettledThere
    <3>4. app' = app /\ db' = db /\ env' = env
      BY <1>1, <2>4 DEF PartialEffect, At
    <3>5. Intact' /\ \A b, r : Saved(b, r)' <=> Saved(b, r)
      BY <1>2, <3>3 DEF Intact, Saved
    <3>6. th'[t].op = th[t].op /\ th'[t].env = th[t].env
      BY <3>2 DEF Locals
    <3>7. /\ env.img = th[t].env.img /\ th[t].env.img # None
          /\ Saved(t, th[t].env.img)
      BY <1>8, <2>4 DEF Sound, WayBack, Progress, UpgradeSteps
    <3>8. WayBack(t)'
      BY <1>8, <3>2, <3>5, <3>6, <3>7 DEF WayBack
    <3>9. failures' > 0
      BY <1>1, HostAgentAssumption DEF TypeOK
    <3>10. app'.up /\ app'.img = env'.img /\ db' = DatabaseOf(env'.img)
      BY <3>3, <3>4 DEF Coherent, Settled
    <3>11. Progress(t)'
      BY <3>2, <3>4, <3>6, <3>7, <3>9, <3>10
      DEF Progress, RestoreSteps, FirewallSteps
    <3>12. Unsettled(t)'
      BY <3>2 DEF Unsettled
    <3> QED BY <3>5, <3>8, <3>11, <3>12 DEF Sound
  <2>5. CASE th[t].pc = "unmix"
    <3>1. failures > 0 /\ failures \in Nat /\ MaxFailures \in Nat
      BY <2>5, HostAgentAssumption DEF Sound, Progress, TypeOK
    <3>2. ~(MaxFailures <= 1)
      BY <1>1, <3>1
    <3>3. CommandAt(th[t].pc) = "files"
      BY <2>5 DEF CommandAt
    <3> QED BY <1>1, <1>8, <3>2, <3>3 DEF Recoverable
  <2>6. CASE th[t].pc \in {"env", "up", "health"}
    <3>1. Undo(t)
      BY <1>1, <1>8, <2>1, <2>6 DEF Raise
    <3> QED BY <1>2, <1>8, <2>6, <3>1, UndoSound
  <2> QED BY <2>2, <2>3, <2>4, <2>5, <2>6
<1> QED BY <1>3, <1>6, <1>7, <1>8

LEMMA ReleaseStep ==
    ASSUME OneAtATime, Recoverable, TypeOK, ControlInv, Alone, CopyInv, ReleaseInv,
           [Next]_vars
    PROVE  ReleaseInv'
<1>1. ASSUME NEW t \in Threads, Request(t) \/ Step(t) PROVE ReleaseInv'
  <2> SUFFICES ASSUME Uninterrupted', alarm' = {} PROVE ReleaseInv'
    BY DEF ReleaseInv
  <2>1. /\ Request(t) => Coherent /\ Intact
        /\ Step(t) => Sound(t)
        /\ Sound(t)' => ReleaseInv'
    BY <1>1, ReleaseFocus
  <2>2. CASE Request(t)
    BY <2>1, <2>2, RequestSound
  <2>3. CASE FirewallStep(t)
    BY <2>1, <2>3, RuleSound DEF Step
  <2>4. CASE CommandFails(t)
    BY <2>1, <2>4, FailureSound DEF Step
  <2>5. CASE JobStep(t)
    <3>1. Sound(t)
      BY <2>1, <2>5 DEF Step
    <3>2. ~BackupUnavailable(t)
      BY <3>1, BackupsThere
    <3>3. Sound(t)'
      BY <2>5, <3>1, <3>2, SavingSound, BeginningSound, BackingSound, FilesSound,
         EnvSound, UpSound, HealthSound, RestoreSound, RecordSound DEF JobStep
    <3> QED BY <2>1, <3>3
  <2> QED BY <1>1, <2>2, <2>3, <2>4, <2>5 DEF Step
<1>2. ASSUME KillThreads, UNCHANGED <<env, dump, files, store, alarm>>,
             Calm => runtime' = runtime,
             UNCHANGED <<app, db>> \/ RecreateApp
      PROVE  ReleaseInv'
  <2> SUFFICES ASSUME Uninterrupted', alarm' = {} PROVE ReleaseInv'
    BY DEF ReleaseInv
  <2>1. Calm
    <3> SUFFICES ASSUME NEW u \in Threads, ~Over(u) PROVE FALSE
      BY DEF Calm
    <3> QED BY <1>2, EndedRow DEF KillThreads, Uninterrupted, At
  <2>2. \A u \in Threads : th'[u] = th[u]
    BY <1>2, <2>1 DEF KillThreads, Calm
  <2>3. Uninterrupted /\ alarm = {}
    BY <1>2, <2>2 DEF Uninterrupted, At
  <2>4. Settled /\ Intact /\ (app.up \/ \E t \in Threads : Broke(t))
    BY <2>1, <2>3 DEF ReleaseInv
  <2>5. Settled' /\ (app'.up \/ \E t \in Threads : Broke(t)')
    <3>1. CASE UNCHANGED <<app, db>>
      BY <1>2, <2>1, <2>2, <2>4, <3>1 DEF Settled, Broke
    <3>2. CASE RecreateApp
      BY <1>2, <2>1, <2>4, <3>2, Recreated DEF Settled
    <3> QED BY <1>2, <3>1, <3>2
  <2>6. Intact'
    BY <1>2, <2>4 DEF Intact, Saved
  <2>7. \A u \in Threads : Over(u)'
    BY <2>1, <2>2 DEF Calm, Over
  <2> QED BY <2>5, <2>6, <2>7 DEF ReleaseInv
<1>3. CASE Crash
  <2>1. Calm => runtime' = runtime
    BY <1>3 DEF Crash, Calm, Over
  <2> QED BY <1>2, <1>3, <2>1 DEF Crash
<1>4. CASE AgentRefresh
  BY <1>2, <1>4 DEF AgentRefresh
<1>5. CASE OperatorStarts
  <2> SUFFICES ASSUME Uninterrupted', alarm' = {} PROVE ReleaseInv'
    BY DEF ReleaseInv
  <2>1. /\ Calm /\ RecreateApp
        /\ UNCHANGED <<env, runtime, dump, files, store, th, alarm>>
    BY <1>5 DEF OperatorStarts
  <2>2. Settled /\ Intact
    BY <2>1 DEF ReleaseInv, Uninterrupted, At
  <2>3. app'.up /\ Settled'
    BY <2>1, <2>2, Recreated DEF Settled
  <2>4. Intact' /\ \A u \in Threads : Over(u)'
    BY <2>1, <2>2 DEF Intact, Saved, Calm, Over
  <2> QED BY <2>3, <2>4 DEF ReleaseInv
<1>6. CASE UNCHANGED <<host, store, th, alarm, failures>>
  BY <1>6 DEF host, ReleaseInv, Uninterrupted, At, Calm, Over, Coherent, Settled, Broke,
        Intact, Saved, Sound, Unsettled, Restoring, WayBack, Progress
<1> QED BY <1>1, <1>3, <1>4, <1>5, <1>6 DEF Next, SetActiveRange, vars

LEMMA ReleaseInit == Init => ReleaseInv
<1> SUFFICES ASSUME Init PROVE ReleaseInv
  OBVIOUS
<1>1. \A t \in Threads : Over(t)
  BY DEF Init, NewThread, Over
<1>2. app.up /\ Settled
  BY DEF Init, Settled, DatabaseOf
<1>3. Intact
  BY DEF Init, NoState, NoRollback, NoChanges, Intact
<1> QED BY <1>1, <1>2, <1>3 DEF ReleaseInv

\* With one operation at a time, any number of upgrades, downgrades, deployments and
\* rollbacks, and failures of any command but those of a rollback, the installation
\* ends on one release with its data, unless the agent is killed in the middle of a job or
\* has logged that its own rollback failed (server.py, _execute_job).
THEOREM OneRelease ==
    ASSUME OneAtATime, Recoverable
    PROVE  Spec => []CoherentRelease
<1>1. /\ TypeOK /\ ControlInv /\ Alone /\ CopyInv /\ ReleaseInv /\ [Next]_vars
      => (Alone /\ CopyInv /\ ReleaseInv)'
  BY AloneStep, CopyStep, ReleaseStep
<1>2. ReleaseInv => CoherentRelease
  <2> SUFFICES ASSUME ReleaseInv, Undisturbed, alarm = {}
               PROVE  (app.up \/ DeploymentBroke) /\ Settled
    BY DEF CoherentRelease, Settled, DatabaseOf
  <2>1. Settled /\ (app.up \/ \E t \in Threads : Broke(t)) /\ Calm
    BY DEF ReleaseInv, Undisturbed
  <2>2. ASSUME NEW t \in Threads, Broke(t) PROVE DeploymentBroke
    BY <2>1, <2>2 DEF Broke, DeploymentBroke, Calm, Over, At, SaveSteps
  <2> QED BY <2>1, <2>2
<1> QED BY <1>1, <1>2, SerialInit, ReleaseInit, ControlCorrect, PTL DEF Spec

\* Under the same conditions the rollback record names backups that are on disk and
\* belong to the release it goes back to (server.py, the end of an upgrade in
\* _execute_job).
THEOREM RollbackPossible ==
    ASSUME OneAtATime, Recoverable
    PROVE  Spec => []RollbackIntact
<1>1. /\ TypeOK /\ ControlInv /\ Alone /\ CopyInv /\ ReleaseInv /\ [Next]_vars
      => (Alone /\ CopyInv /\ ReleaseInv)'
  BY AloneStep, CopyStep, ReleaseStep
<1>2. ReleaseInv => RollbackIntact
  BY DEF ReleaseInv, RollbackIntact, Undisturbed, Intact, Saved, DatabaseOf
<1> QED BY <1>1, <1>2, SerialInit, ReleaseInit, ControlCorrect, PTL DEF Spec

-----------------------------------------------------------------------------
(***************************************************************************)
(* A deployment that is not healthy.                                       *)
(***************************************************************************)
LEMMA RangeElsewhere ==
    ASSUME NEW t, th'[t].op # "deployment"
                  \/ th'[t].pc \notin Prepared \cup SaveSteps
    PROVE  RangeBack(t)'
<1>1. th'[t].op = "deployment" =>
          th'[t].pc \notin Prepared \cup SaveSteps \cup FirewallSteps
              \cup {"up", "rmRead", "rmDelete", "rmWrite", "fwLoad", "fwWrite"}
  BY DEF Prepared, FirewallSteps
<1> QED BY <1>1 DEF RangeBack

\* Nothing of a range changes.
RangeKept ==
    env' = env /\ app' = app /\ ufw' = ufw /\ store'.firewall = store.firewall

\* A deployment that is not being taken back has only its record to keep.
LEMMA RangeForward ==
    ASSUME NEW t, RangeBack(t), Locals(t), ~th'[t].undo,
           th'[t].pc \in Prepared => th[t].pc \in Prepared,
           th'[t].pc \in SaveSteps => th'[t].status # "unhealthy"
    PROVE  RangeBack(t)'
BY DEF RangeBack, Locals

LEMMA RangeSaving ==
    ASSUME TypeOK, ControlInv, CopyInv, NEW t \in Threads, RangeBack(t),
           StartJob(t) \/ SaveJob(t) \/ SaveLoad(t) \/ SaveWrite(t)
           \/ ScheduleRefresh(t)
    PROVE  RangeBack(t)'
<1> USE DEF Pcs, JobSteps, SaveSteps
<1>1. CASE StartJob(t)
  <2>1. CASE Goto(t, "done")
    BY <2>1, GotoPc, RangeElsewhere DEF Prepared, RecordSteps, FirewallSteps,
          RestoreSteps
  <2>2. CASE Finish(t, "running")
    <3>1. Locals(t) /\ th'[t].pc = "save" /\ th'[t].status = "running"
          /\ th'[t].undo = th[t].undo
      BY <2>2, FinishRow DEF JobStatus
    <3>2. ~th[t].undo
      BY <1>1 DEF StartJob, At, ControlInv, RowOK
    <3> QED BY <3>1, <3>2, RangeForward DEF Prepared, RecordSteps, FirewallSteps,
               RestoreSteps
  <2> QED BY <1>1, <2>1, <2>2 DEF StartJob
<1>2. CASE SaveJob(t) \/ SaveLoad(t)
  <2>1. PICK step \in {"saveLoad", "saveWrite"} : Moves(t, step)
    BY <1>2 DEF SaveJob, SaveLoad, Moves
  <2>2. /\ Locals(t) /\ th'[t].pc = step /\ th'[t].undo = th[t].undo
        /\ th'[t].status = th[t].status
    BY <2>1, GotoRow, LoadRow DEF Moves
  <2>3. RangeKept /\ th[t].pc \in SaveSteps
    BY <1>2 DEF SaveJob, SaveLoad, ThreadOnly, host, RangeKept, At
  <2>4. th'[t].pc \in SaveSteps /\ th'[t].pc \notin Prepared \cup FirewallSteps
    BY <2>1, <2>2 DEF Prepared, RecordSteps, FirewallSteps, RestoreSteps
  <2> QED BY <2>2, <2>3, <2>4 DEF RangeBack, Locals, RangeKept, FirewallSteps
<1>3. CASE SaveWrite(t) \/ ScheduleRefresh(t)
  <2>1. PICK step \in {"done", "refresh", "depRead", "prepare", "rollback"} :
            Goto(t, step)
    BY <1>3 DEF SaveWrite, ScheduleRefresh, AfterSave
  <2>2. th'[t].pc = step
    BY <2>1, GotoPc
  <2> QED BY <2>2, RangeElsewhere DEF Prepared, RecordSteps, FirewallSteps,
             RestoreSteps
<1> QED BY <1>1, <1>2, <1>3

LEMMA RangeRules ==
    ASSUME TypeOK, ControlInv, CopyInv, NEW t \in Threads, RangeBack(t),
           FirewallStep(t),
           th[t].pc \in {"fwAdd", "fwLoad", "fwWrite"} => ufw \subseteq {WantedRule(t)},
           th[t].pc = "rmWrite" => ufw = {},
           th[t].pc = "rmRead" => ufw \subseteq {store.firewall}
    PROVE  RangeBack(t)'
<1>1. th[t].pc \in FirewallSteps
  BY DEF FirewallStep, ReadPrevious, DeletePrevious, AddRule, LoadForRule, WriteRule,
         ReadRule, DeleteRule, ForgetRule, At, FirewallSteps
<1>2. UNCHANGED <<env, app>>
  BY DEF FirewallStep, ReadPrevious, DeletePrevious, AddRule, LoadForRule,
      WriteRule, ReadRule, DeleteRule, ForgetRule, ThreadOnly, host
<1>3. PICK step \in FirewallSteps \cup {"up", "done"} : Moves(t, step)
  <2>1. CASE ReadPrevious(t)
    BY <2>1 DEF ReadPrevious, Moves, FirewallSteps
  <2>2. CASE ReadRule(t)
    BY <2>2 DEF ReadRule, Moves, FirewallSteps, AfterFirewall
  <2>3. CASE WriteRule(t) \/ ForgetRule(t)
    BY <2>3 DEF WriteRule, ForgetRule, Moves, AfterFirewall
  <2>4. CASE DeletePrevious(t) \/ AddRule(t) \/ LoadForRule(t) \/ DeleteRule(t)
    BY <2>4 DEF DeletePrevious, AddRule, LoadForRule, DeleteRule, Moves, FirewallSteps
  <2> QED BY <2>1, <2>2, <2>3, <2>4 DEF FirewallStep
<1>4. CASE step = "done"
  <2>1. th'[t].pc = "done"
    BY <1>3, <1>4, GotoPc, LoadRow DEF Moves, Pcs
  <2> QED BY <2>1, RangeElsewhere DEF Prepared, SaveSteps, RecordSteps, FirewallSteps,
             RestoreSteps
<1>5. CASE step # "done"
  <2>1. Locals(t) /\ th'[t].undo = th[t].undo /\ th'[t].pc = step
    BY <1>3, <1>5, GotoRow, LoadRow DEF Moves, Pcs, JobSteps
  <2>2. th[t].pc \in Prepared /\ th'[t].pc \in Prepared /\ th'[t].pc \notin SaveSteps
    BY <1>1, <1>5, <2>1 DEF Prepared, SaveSteps, FirewallSteps
  <2>3. CASE ~th[t].undo
    BY <2>1, <2>2, <2>3, RangeForward
  <2>4. CASE th[t].op # "deployment"
    BY <2>1, <2>4, RangeElsewhere DEF Locals
  <2>5. CASE th[t].undo /\ th[t].op = "deployment"
    <3>1. /\ env.net = th[t].env.net /\ th[t].env.net # None
          /\ th[t].pc \in {"rmRead", "rmDelete", "rmWrite"} => th[t].firewall = None
          /\ th[t].pc \in {"fwLoad", "fwWrite"} => ufw = {th[t].firewall}
      BY <1>1, <2>2, <2>5 DEF RangeBack
    <3>2. WantedRule(t) = th[t].firewall
      BY <2>5 DEF WantedRule
    <3>3. th[t].pc \in FirewallAdds => th[t].firewall \in Networks
      BY <2>5 DEF ControlInv, RowOK
    <3>4. None \notin Networks /\ ufw \subseteq Networks /\ th[t].copy \in State
      BY HostAgentAssumption DEF TypeOK, Thread, Networks, None
    <3>5. /\ step \in {"rmRead", "rmDelete", "rmWrite"} => th[t].firewall = None
          /\ step \in {"fwLoad", "fwWrite"} => ufw' = {th[t].firewall}
          /\ step = "up" => /\ store'.firewall = th[t].firewall
                            /\ ufw' = {th[t].firewall} \ {None}
      <4>1. CASE ReadPrevious(t) \/ DeletePrevious(t)
        <5>1. th'[t].pc \in {"fwAdd", "fwDelete"}
          <6>1. PICK to \in {"fwAdd", "fwDelete"} : Moves(t, to)
            BY <4>1 DEF ReadPrevious, DeletePrevious, Moves
          <6> QED BY <6>1, LoadRow, GotoPc DEF Moves, Pcs, FirewallSteps
        <5> QED BY <2>1, <5>1
      <4>2. CASE AddRule(t)
        <5>1. th'[t].pc = "fwLoad" /\ ufw' = ufw \cup {WantedRule(t)}
              /\ th[t].pc = "fwAdd"
          BY <4>2, GotoPc DEF AddRule, Pcs, FirewallSteps, At
        <5> QED BY <2>1, <3>2, <5>1
      <4>3. CASE LoadForRule(t)
        <5>1. th'[t].pc = "fwWrite" /\ ufw' = ufw /\ th[t].pc = "fwLoad"
          BY <4>3, LoadRow DEF LoadForRule, Pcs, FirewallSteps, At, ThreadOnly, host
        <5> QED BY <2>1, <3>1, <5>1
      <4>4. CASE WriteRule(t)
        <5>1. /\ th[t].pc = "fwWrite" /\ ufw' = ufw
              /\ store'.firewall = WantedRule(t)
          BY <3>4, <4>4 DEF WriteRule, At, host, State
        <5>2. th'[t].pc = "up"
          BY <2>5, <4>4, GotoPc DEF WriteRule, AfterFirewall, Pcs, JobSteps
        <5>3. ufw = {th[t].firewall} /\ th[t].firewall # None
          BY <3>1, <3>3, <3>4, <5>1 DEF FirewallAdds
        <5> QED BY <2>1, <3>2, <5>1, <5>2, <5>3
      <4>5. CASE ReadRule(t)
        <5>1. /\ th[t].pc = "rmRead" /\ ufw' = ufw /\ store' = store
              /\ th[t].firewall = None
          BY <3>1, <4>5 DEF ReadRule, At, ThreadOnly, host
        <5>2. th'[t].pc = IF store.firewall = None THEN "up" ELSE "rmDelete"
          BY <2>5, <4>5, LoadRow DEF ReadRule, AfterFirewall, Pcs, JobSteps,
                FirewallSteps
        <5>3. store.firewall = None => ufw = {}
          BY <3>4, <5>1
        <5> QED BY <2>1, <5>1, <5>2, <5>3
      <4>6. CASE DeleteRule(t)
        <5>1. th[t].pc = "rmDelete" /\ th'[t].pc = "rmWrite"
          BY <4>6, GotoPc DEF DeleteRule, At, Pcs, FirewallSteps
        <5> QED BY <2>1, <3>1, <5>1
      <4>7. CASE ForgetRule(t)
        <5>1. /\ th[t].pc = "rmWrite" /\ ufw' = ufw /\ store'.firewall = None
          BY <3>4, <4>7 DEF ForgetRule, At, host, State
        <5>2. th'[t].pc = "up"
          BY <2>5, <4>7, GotoPc DEF ForgetRule, AfterFirewall, Pcs, JobSteps
        <5> QED BY <2>1, <3>1, <5>1, <5>2
      <4> QED BY <4>1, <4>2, <4>3, <4>4, <4>5, <4>6, <4>7 DEF FirewallStep
    <3>6. /\ th'[t].op = "deployment" /\ th'[t].env = th[t].env
          /\ th'[t].firewall = th[t].firewall
      BY <2>1, <2>5 DEF Locals
    <3> QED BY <1>2, <2>1, <2>2, <3>1, <3>5, <3>6 DEF RangeBack
  <2> QED BY <2>3, <2>4, <2>5
<1> QED BY <1>4, <1>5

LEMMA RangeJob ==
    ASSUME TypeOK, ControlInv, CopyInv, NEW t \in Threads, RangeBack(t),
           \/ DeploymentReads(t) \/ UpdateEnv(t) \/ ComposeUp(t) \/ HealthCheck(t)
           \/ LoadForRecord(t) \/ UnlinkPrevious(t) \/ WriteRecord(t),
           th[t].op = "deployment"
    PROVE  RangeBack(t)'
<1> USE DEF Pcs, JobSteps
<1>1. RowOK(t, th[t]) /\ None \notin Networks /\ env.net \in Networks
  BY HostAgentAssumption DEF ControlInv, TypeOK, EnvFile, Networks, None
<1>2. CASE DeploymentReads(t)
  <2>1. th[t] \in Thread /\ th \in [Threads -> Thread] /\ ~th[t].undo
    BY <1>1, <1>2 DEF TypeOK, DeploymentReads, At, RowOK
  <2>2. /\ th'[t].pc = "env" /\ th'[t].undo = FALSE
        /\ th'[t].env = [NoChanges EXCEPT !.net = env.net]
    BY <1>2, <2>1 DEF DeploymentReads, Thread
  <2>3. th'[t].env.net = env.net
    BY <2>2 DEF NoChanges
  <2> QED BY <1>1, <2>2, <2>3 DEF RangeBack, SaveSteps
<1>3. CASE UpdateEnv(t)
  <2>1. th[t].pc = "env" /\ th[t].env.net # None
    BY <1>3 DEF UpdateEnv, At, RangeBack, Prepared
  <2>2. PICK step \in {"rmRead", "fwRead"} :
            Goto(t, step) /\ (step = "rmRead" => WantedRule(t) = None)
    BY <1>3 DEF UpdateEnv, AfterEnv, FirewallEntry
  <2>3. Locals(t) /\ th'[t].pc = step /\ th'[t].undo = th[t].undo
    BY <2>2, GotoRow DEF FirewallSteps
  <2>4. th[t].undo => env'.net = th[t].env.net
    BY <1>3, <2>1 DEF UpdateEnv, Update, Changes
  <2>5. th[t].undo => WantedRule(t) = th[t].firewall
    BY DEF WantedRule
  <2>6. /\ th'[t].op = "deployment" /\ th'[t].env = th[t].env
        /\ th'[t].firewall = th[t].firewall
    BY <2>3 DEF Locals
  <2> QED BY <2>1, <2>2, <2>3, <2>4, <2>5, <2>6 DEF RangeBack, SaveSteps
<1>4. CASE ComposeUp(t)
  <2>1. /\ th[t].pc = "up" /\ UNCHANGED <<env, ufw, store>> /\ RecreateApp
    BY <1>4 DEF ComposeUp, At, HostOnly
  <2>2. app'.net = env.net
    BY <2>1, Recreated
  <2>3. CASE ~th[t].undo
    <3>1. Locals(t) /\ th'[t].pc = "health" /\ th'[t].undo = th[t].undo
      BY <1>4, <2>3, GotoRow DEF ComposeUp
    <3> QED BY <2>1, <2>3, <3>1, RangeForward DEF Prepared, SaveSteps
  <2>4. CASE th[t].undo
    <3>1. Locals(t) /\ th'[t].pc = "save" /\ th'[t].undo = th[t].undo
      BY <1>4, <2>4, FinishRow DEF ComposeUp, JobStatus
    <3>2. /\ env.net = th[t].env.net /\ store.firewall = th[t].firewall
          /\ ufw = {th[t].firewall} \ {None}
      BY <2>1, <2>4 DEF RangeBack
    <3>3. /\ th'[t].env = th[t].env /\ th'[t].firewall = th[t].firewall
      BY <3>1 DEF Locals
    <3>4. th'[t].pc \notin Prepared
      BY <3>1 DEF Prepared, RecordSteps, FirewallSteps, RestoreSteps
    <3> QED BY <2>1, <2>2, <2>4, <3>1, <3>2, <3>3, <3>4 DEF RangeBack
  <2> QED BY <2>3, <2>4
<1>5. CASE HealthCheck(t)
  <2>1. th[t].pc = "health" /\ ~th[t].undo /\ th[t].pc \in Prepared
    BY <1>1, <1>5 DEF HealthCheck, At, RowOK, Prepared
  <2>2. CASE Ready
    <3>1. Locals(t) /\ th'[t].pc = "recLoad" /\ th'[t].undo = th[t].undo
      BY <1>5, <2>2, GotoRow DEF HealthCheck
    <3> QED BY <2>1, <3>1, RangeForward DEF SaveSteps
  <2>3. CASE ~Ready
    <3>1. Locals(t) /\ th'[t].pc = "env"
      BY <1>5, <2>3, UndoRow DEF HealthCheck
    <3> QED BY <2>1, <3>1 DEF RangeBack, Locals, FirewallSteps, SaveSteps
  <2> QED BY <2>2, <2>3
<1>6. CASE LoadForRecord(t) \/ UnlinkPrevious(t)
  <2>1. th[t].pc \in RecordSteps /\ th[t].pc \in Prepared
    BY <1>6 DEF LoadForRecord, UnlinkPrevious, At, RecordSteps, Prepared
  <2>2. ~th[t].undo
    BY <1>1, <2>1 DEF RowOK
  <2>3. PICK step \in {"unlink", "recWrite"} : Moves(t, step)
    BY <1>6 DEF LoadForRecord, UnlinkPrevious, Moves
  <2>4. Locals(t) /\ th'[t].pc = step /\ th'[t].undo = th[t].undo
    BY <2>3, GotoRow, LoadRow DEF Moves
  <2> QED BY <2>1, <2>2, <2>4, RangeForward DEF SaveSteps
<1>7. CASE WriteRecord(t)
  <2>1. th[t].pc = "recWrite" /\ ~th[t].undo
    BY <1>1, <1>7 DEF WriteRecord, At, RowOK, RecordSteps
  <2>2. Locals(t) /\ th'[t].pc = "save" /\ th'[t].status = "succeeded"
        /\ th'[t].undo = th[t].undo
    BY <1>7, FinishRow DEF WriteRecord, JobStatus
  <2>3. th'[t].pc \notin Prepared
    BY <2>2 DEF Prepared, RecordSteps, FirewallSteps, RestoreSteps
  <2> QED BY <2>1, <2>2, <2>3, RangeForward
<1> QED BY <1>2, <1>3, <1>4, <1>5, <1>6, <1>7

\* A command that fails takes the deployment back, or leaves it as it is.
LEMMA RangeFailure ==
    ASSUME TypeOK, ControlInv, NEW t \in Threads, RangeBack(t),
           CommandFails(t), th[t].op = "deployment"
    PROVE  RangeBack(t)'
<1>1. Raise(t) /\ th[t].pc \in Fallible \ {"deployFiles"}
  BY FailingSteps DEF CommandFails, ControlInv, RowOK, UpgradeSteps
<1>2. CASE th[t].pc = "health"
  <2>1. Undo(t)
    BY <1>1, <1>2 DEF Raise
  <2>2. Locals(t) /\ th'[t].pc = "env"
    BY <2>1, UndoRow
  <2> QED BY <1>2, <2>2 DEF RangeBack, Locals, FirewallSteps, SaveSteps, Prepared
<1>3. CASE th[t].pc # "health"
  <2>1. Finish(t, "failed")
    BY <1>1, <1>3 DEF Raise
  <2>2. th'[t].pc = "save" /\ th'[t].status = "failed"
    BY <2>1, FinishRow DEF JobStatus
  <2>3. th'[t].pc \notin Prepared \cup FirewallSteps
    BY <2>2 DEF Prepared, RecordSteps, FirewallSteps, RestoreSteps
  <2> QED BY <2>2, <2>3 DEF RangeBack, FirewallSteps
<1> QED BY <1>2, <1>3

LEMMA RangeStep ==
    ASSUME OneAtATime, TypeOK, ControlInv, Alone, CopyInv, RulesInv,
           RangeInv, [Next]_vars
    PROVE  RangeInv'
<1>1. ASSUME NEW t \in Threads, Request(t) \/ Step(t) PROVE RangeInv'
  <2> SUFFICES ASSUME Uninterrupted' PROVE RangeInv'
    BY DEF RangeInv
  <2>1. Uninterrupted
    BY <1>1, NotKilled
  <2>2. RangeBack(t)
    BY <2>1 DEF RangeInv
  <2>3. \A u \in Threads \ {t} : RangeBack(u)'
    <3> SUFFICES ASSUME NEW u \in Threads \ {t} PROVE RangeBack(u)'
      OBVIOUS
    <3>1. Over(u) /\ th'[u] = th[u]
      BY <1>1, OthersOver, ThreadSteps DEF RowStep, Framed
    <3>2. th'[u].pc \in {"idle", "done", "dead"}
      BY <3>1 DEF Over
    <3> QED BY <3>2, RangeElsewhere DEF Prepared, SaveSteps, RecordSteps,
               FirewallSteps, RestoreSteps
  <2>4. SUFFICES RangeBack(t)'
    BY <2>3 DEF RangeInv
  <2>5. CASE Request(t)
    <3>1. th[t] = NewThread /\ th \in [Threads -> Thread]
          /\ th'[t].pc \in {"check", "fwRead"}
      BY <2>5, RequestRow DEF TypeOK
    <3>2. th'[t].pc = "fwRead" => th'[t].op = "apply"
      BY <2>5, <3>1 DEF Request, RequestDeployment, RequestFirewall, RequestUpgrade,
            RequestRollback, NewThread
    <3> QED BY <3>1, <3>2, RangeElsewhere DEF Prepared, SaveSteps, RecordSteps,
               FirewallSteps, RestoreSteps
  <2>6. CASE Step(t)
    <3>1. CASE th'[t].op # "deployment" \/ th'[t].pc = "done"
      BY <3>1, RangeElsewhere DEF Prepared, SaveSteps, RecordSteps, FirewallSteps,
            RestoreSteps
    <3>2. CASE th'[t].op = "deployment" /\ th'[t].pc # "done"
      <4>1. th[t].op = "deployment"
        BY <2>6, <3>2, ReadsRow, Landing DEF Lands
      <4>2. th[t].pc \notin UpgradeSteps \cup RestoreSteps \cup {"rollback"}
            /\ th[t].backup = {}
        BY <4>1 DEF ControlInv, RowOK
      <4>3. ~(\/ PrepareRelease(t) \/ DatabaseBackup(t) \/ CopyRuntime(t)
              \/ DeployRuntime(t) \/ RestoreAfterDeploy(t) \/ ReadRollback(t)
              \/ RestoreRuntime(t) \/ StopApp(t) \/ DropDatabase(t)
              \/ LoadDatabase(t) \/ BackupUnavailable(t))
        BY <4>2 DEF PrepareRelease, DatabaseBackup, CopyRuntime, DeployRuntime,
              RestoreAfterDeploy, ReadRollback, RestoreRuntime, StopApp, DropDatabase,
              LoadDatabase, BackupUnavailable, At, UpgradeSteps, RestoreSteps
      <4>4. CASE FirewallStep(t)
        <5>1. th[t].pc \notin {"fwLoad", "fwWrite"} => ufw \subseteq {store.firewall}
          BY <1>1, <2>1, RulesBetween
        <5> QED BY <2>1, <2>2, <4>4, <5>1, RangeRules DEF RulesInv
      <4>5. CASE CommandFails(t)
        BY <2>2, <4>1, <4>5, RangeFailure
      <4>6. CASE JobStep(t)
        BY <2>2, <4>1, <4>3, <4>6, RangeSaving, RangeJob DEF JobStep
      <4> QED BY <2>6, <4>4, <4>5, <4>6 DEF Step
    <3> QED BY <3>1, <3>2
  <2> QED BY <1>1, <2>5, <2>6
<1>2. CASE KillThreads
  <2>1. \A u \in Threads : th'[u].pc \in {"idle", "done", "dead"}
    BY <1>2, EndedRow DEF KillThreads, Over
  <2>2. \A u \in Threads : RangeBack(u)'
    BY <2>1, RangeElsewhere DEF Prepared, SaveSteps, RecordSteps, FirewallSteps,
          RestoreSteps
  <2> QED BY <2>2 DEF RangeInv
<1>3. CASE UNCHANGED <<host, store, th>>
  BY <1>3 DEF host, RangeInv, Uninterrupted, At, RangeBack
<1>4. CASE OperatorStarts
  <2>1. Calm /\ th' = th
    BY <1>4 DEF OperatorStarts
  <2>2. \A u \in Threads : th'[u].pc \in {"idle", "done", "dead"}
    BY <2>1 DEF Calm, Over
  <2>3. \A u \in Threads : RangeBack(u)'
    BY <2>2, RangeElsewhere DEF Prepared, SaveSteps, RecordSteps, FirewallSteps,
          RestoreSteps
  <2> QED BY <2>3 DEF RangeInv
<1> QED BY <1>1, <1>2, <1>3, <1>4 DEF Next, SetActiveRange, Crash, AgentRefresh, vars

LEMMA RangeInit == Init => RangeInv
<1>1. Init => \A t \in Threads : th[t].op = "apply"
  BY DEF Init, NewThread
<1> QED BY <1>1 DEF RangeInv, RangeBack

\* With one operation at a time, in an agent that was never killed in the middle of
\* one, and whichever commands failed, a deployment that reports that it was not
\* healthy leaves the published range, the container, the recorded rule and the
\* firewall as it found them (server.py, the deployment in _execute_job).
THEOREM DeploymentTakenBack ==
    ASSUME OneAtATime
    PROVE  Spec => []DeploymentRestored
<1>1. /\ TypeOK /\ ControlInv /\ Alone /\ CopyInv /\ RulesInv /\ RangeInv /\ [Next]_vars
      => (Alone /\ CopyInv /\ RulesInv /\ RangeInv)'
  BY AloneStep, CopyStep, RulesStep, RangeStep
<1>2. RangeInv => DeploymentRestored
  <2> SUFFICES ASSUME RangeInv, Uninterrupted, NEW t \in Threads, At(t, "save"),
                      th[t].op = "deployment", th[t].status = "unhealthy"
               PROVE  /\ env.net = th[t].env.net
                      /\ app.net = th[t].env.net
                      /\ store.firewall = th[t].firewall
                      /\ ufw = {th[t].firewall} \ {None}
    BY DEF DeploymentRestored
  <2>1. RangeBack(t) /\ th[t].pc \in SaveSteps
    BY DEF RangeInv, At, SaveSteps
  <2> QED BY <2>1 DEF RangeBack
<1> QED BY <1>1, <1>2, SerialInit, RangeInit, ControlCorrect, PTL DEF Spec
=============================================================================
