# WOLT in TLA+

WOLT receives Wake-on-LAN packets on one UDP port per target network and has a
FortiGate send them, by SSH, into a network it cannot reach itself. A FastAPI
application manages devices and listener mappings in PostgreSQL and runs the UDP
engine in its own process; a root-owned host agent changes the firewall, the
published port range and the release. The same relay also runs headless, without
web application and database. This directory models the parts of WOLT
whose correctness depends on ordering, concurrency and failure, checks the
models with TLC and proves their main invariants with TLAPS.

## Inventory

| Component | State | Operations | What is hard | Modelled in |
| --- | --- | --- | --- | --- |
| Engine runtime (`app/application/engine_runtime.py`, `rate_limit.py`) | `_listeners`, the engine lock, one thread and socket per listener, the rate limiter | `resume`, `pause`, `reconcile_if_active`, `start_from_desired_state`, `shutdown`; per thread `_run`, `_handle`, `_record` | many requests drive it at once; threads outlive a join that times out; exceptions between binds; a crash | `Engine`, against `ServedMappings` |
| Engine routes, `engine_state` (`web/operations_routes.py`, `EngineStateService`) | the row of `engine_state` | `POST /engine/resume`, `/pause`; every edit reconciles | desired state is read and written outside the lock, the row is written by two transactions per request | `Engine` |
| Listener service (`operations_service.py`) | `listener_mappings` | create, update, delete | optimistic versions, port allocation and range check under READ COMMITTED | `Inventory`, and by effect `Engine` |
| Device service | `devices`, `device_credentials` | create, update, delete, `runtime_material`; test, host-key discovery | delete checks and deletes in two steps; the test holds a transaction across SSH | `Inventory`, `Engine` (not the test) |
| UDP range and settings (`observability_service.py`) | `application_settings` | `update_udp_range`, `update_retention` | write skew with listener edits | `Inventory` |
| Retention | `wake_events`, `audit_events`, sessions, an advisory lock | hourly clean-up in every process, clean-up on demand | clean-ups collide, fail or die with the lock; settings change under them; it removes what deletions check | `Journal`; by effect `Inventory`, `Engine`, `Identity` |
| Observability reads | none | dashboard, event lists, CSV | the dashboard is many queries over rows that come and go | `Journal` (the series) |
| Host agent (`host_agent/server.py`) | `.env.web`, UFW rule, runtime files, image, database backups, `state.json`, jobs | apply firewall, deployment, upgrade, rollback | many steps, each may fail; the agent may restart in between; a read-modify-write state file | `HostAgent` |
| Authentication, identity (`auth_service.py`, `identity_service.py`) | users, sessions, invitation and reset tokens | owner bootstrap, login, recovery, invitations, resets, role changes | last-owner rule, single use of tokens, sessions revoked while one is created | `Identity` |
| Attempt limiters (`web/auth_routes.py`, `web/identity_routes.py`) | times of attempts per client | `allow`, `clear` around owner setup, login, recovery, reset request | the clock is read before the lock is taken | `LoginLimits` |
| Headless relay (`app/main.py`, `listener.py`, `config.py`, `fortigate.py`) | listeners and their threads, `stop_event`, sockets, SSH sessions, rate limiter | read the mapping file, start and join threads, handle a signal, receive, limit, wake | a signal at any step of start-up or of a wake; some listeners fail to bind; a device that never answers | `Headless` |
| Packet parser (`app/parser.py`), rate limiter (`app/rate_limit.py`) | none; last grants | `parse_magic_packet`; `allow` | boundaries of length and interval | `Headless` |
| Web UI, installer, migrations, SMTP, Fernet, web settings | | | I/O, presentation, library calls | not modelled |

Interaction. Route handlers run in a thread pool. An editing route commits a
transaction of a service, then calls `reconcile_if_active()`, which reads the
desired state and, if it is active, calls `resume()`: close every listener, read
the rows, bind each one and start its thread, write the statuses and the
heartbeat. `resume` and `pause` run under one lock; the transition that the
engine routes write afterwards does not. Listener threads use the same database.
The retention workers of all processes meet in one advisory lock. The headless
relay shares the parser and the rate limiter with the engine and nothing else.

## Modules

- **`Engine`**: the process. `Requests` are workers of the thread pool,
  `Lifespan` the start-up and shut-down code, `Threads` the listener threads. The
  variables are the database (`mapping`, `enabledDevs`, `engine`, `recorded`), the
  process (`pc`, `op`, `loaded`, `observed` per actor, `lock`, `listeners`,
  `thread`) and the locals of `resume()` (`rows`, `marking`, `failed`, `joining`).
  Each action is a step between two points where another thread can interfere:
  `Acquire`, `CloseListener`, `JoinListener`, `CloseAllDone`, `ReadRows`,
  `BindRow`/`BindFails`, `SetMappingStatus`, `RowsDone`, `ResetStatuses`,
  `HeartbeatLoad`, `Heartbeat`, `TransitionLoad`, `Transition`; for a listener thread
  `Receive`, `Allow`, `Material`, `Wake`, `Record`, `ThreadExits`. `Raise` is an
  exception that leaves `resume()`, `pause()` or `transition()`, `HandleRaises` one
  that `_run` swallows, `Crash` the death of the process at any point. The
  `engine_state` row is loaded and flushed separately, and a flush writes only
  changed columns, as the ORM does: two requests can mix their columns.
- **`ServedMappings`**: what the engine promises about its sockets, as an abstract
  specification: it closes what is open, reads the configuration once, and opens
  rows of that reading only, each at most once. `Engine` implements it
  (`ImplementsService`) with the selected rows as `table`, the rows of the open
  sockets as `open` and the rows `resume()` has still to start as `plan`.
- **`Inventory`**: the tables and the transactions on them, each a step that
  locks or reads, one that validates and one that flushes and commits. Row
  locks (`SELECT ... FOR UPDATE`), unique and foreign keys are explicit. An event is
  recorded for the mapping and the device of a listener's snapshot, which may be
  old: only the foreign keys guard `RecordEvent`.
  `_allocate_port` is `IsLowestFree`.
- **`HostAgent`**: the agent's threads (`th`, one per request, which the job that
  `start_job` creates goes on with), the host they change (`env` is `.env.web`,
  `ufw` the managed rules, `runtime` the Compose and script files, `app` the
  container, `db`, and the backups `dump` and `files`), the state file `store` and the
  job table `jobs`. A step is one command, one file or one critical section:
  `StartJob`, `SaveJob`/`SaveLoad`/`SaveWrite` (the state file is read and written
  under a lock, but not between the two), `ReadPrevious` ... `WriteRule` for
  `apply_firewall`, `ReadRule` ... `ForgetRule` for `remove_firewall`, and the steps of
  a deployment, an upgrade and a rollback. `CommandFails` is a command that raises,
  with its partial effect, and `Raise` says which handler of `_execute_job` catches
  it; a thread with `undo` set takes its changes back. The status `unhealthy` is a
  failed job with the error `deployment_health_check_failed`. `Crash` and `AgentRefresh`
  kill the threads between any two steps.
- **`Identity`**: users, invitations, recovery codes, reset tokens and sessions,
  and the transactions of `AuthService` and `IdentityService`, each a step that
  reads, and locks where the code says `FOR UPDATE`, and a step that flushes and
  commits; between the two lies the hashing of a password. Who holds a row lock
  follows from where the requests are (`SettingsLocked`, `TokenLocked`, ...).
  `require_owner` is a transaction before the handler's own, `MailFails` a delivery
  that raises after the invitation was committed. `since`, `overlap` (a session
  that began between the UPDATE and the commit of `revoke_sessions`), `setups`,
  `revocations`, `twice` and `accepted` (who accepted an invitation before a request
  had decided to remove them, `Doomed`) are history for the properties.
- **`LoginLimits`**: the four limited routes and `LoginAttemptLimiter`, with a clock.
  `Arrive` is the reading of the clock, `Refuse`/`Admit` the section under the lock,
  `Clear` the second one after a success. `MaxDelay` is how long a thread may be
  suspended between clock and lock; `AttemptsBounded` is stated with it.
- **`Headless`**: `ReadConfig`/`ConfigFails`, `StartThread`, `Joined` are `main()`; `Signal` and
  `CloseListener` the signal handler, which interrupts it; per thread
  `CreateSocket`, `Bind`, the loop test, `Receive`/`RecvTimeout`, `ReadClock`,
  `Refuse`/`Grant`, `Connect`, `ExecCommand`, `ExitStatus`, `CloseSession` and their failures.
  `IsMagicPacket` is `parse_magic_packet`, over every payload of a shorter format.
- **`Journal`**: rows with their times, the clean-up (`Cleanup`, `ReadSettings`, `Delete`,
  `Unlock`) of every process and of a request, its failures (`CleanupFails`,
  `ProcessEnds`), `UpdateRetention`, and the dashboard, one query per bucket.
- **`MCEngine`**, **`MCInventory`**, **`MCHostAgent`**, **`MCIdentity`**, **`MCLoginLimits`**,
  **`MCHeadless`**, **`MCJournal`**: instances for TLC, with symmetry where no liveness
  property is checked.
- **`EngineProofs`**, **`ServiceProofs`**, **`InventoryProofs`**, **`JournalProofs`**,
  **`HeadlessProofs`**, **`IdentityProofs`**, **`LoginLimitsProofs`**, **`HostAgentProofs`**: theorems
  and proofs.

Definitions whose comment starts with "Mutant" are variants with one bug; each
shows that a property can fail (PROJECT.json, "mutants"). No specification
uses them.

Abstractions. In `Engine` a packet that fails the source check or the parser has no
effect and is left out (`Headless` has both checks). A MAC, a port and a device are
model values; `allowed_source_ip` and the driver parameters travel with the port.
Time is one action, `CooldownEnds`. A service's transaction is one step and optimistic
versions are left to `Inventory`. A refused request that held no lock changes
nothing and does not appear. In `HostAgent` published ranges are nested and
releases ordered, so each is a number; a release names the schema its image
migrates the database to; certificates, digests and archives are checked before
anything changes and are part of `PrepareRelease`. In `Identity` a name stands for user name and
e-mail address together, administrator and operator are one role, and nothing
expires while a transaction that has read it is about to commit. A bulk
revocation and its commit are one step where the transaction holds the user row,
so that no login commits in between; those of `revoke_sessions`, which does not, are two
(`RevokeRead`, `RevokeCommit`). An `update_user` that changes nothing takes no lock and
is left out. UUIDs are fresh, so an id in use by a thread or a
request is not drawn again. In `LoginLimits` a service call succeeds or fails. In
`Headless` a MAC is its bytes, since its text is an injective rendering of them;
an entry of the mapping file is a port, whether YAML reads its key as a string,
and what is wrong with its value; a second signal would repeat idempotent steps
and is left out. In `Journal` one unit of time is both a bucket and a day, and the
three DELETEs of a clean-up are one step, since nobody sees them before the
commit; so are reading the time and taking the advisory lock, because a clean-up
that read the time earlier only removes less.

## Runs

| Run | Shows | Bounds |
| --- | --- | --- |
| `engine_lifecycle` | no leaked socket, one listener per mapping and port, silence while `pause()` reports, "active" only with an open socket; the refinement of `ServedMappings` | 2 requests, 2 mappings, 2 ports, failing calls, crashes; no packets (`MaxBusy = 0`) |
| `engine_reconcile` | concurrent edits converge, paused means no socket, the reported state agrees with the sockets, the lock is always given up | 2 requests, 1 mapping, 2 ports, packets in flight; resume and pause requests meet no other (`Exclusive`) |
| `engine_pause_race` | violated: a late reconciliation undoes a pause | 2 requests |
| `inventory` | no lost update, unique ports, no dangling reference, created mappings in range | 2 requests, 2 mappings, 2 devices, 2 ports, 2 versions, 1 pair of a mapping and a device with wake events at a time |
| `host_serial` | one release at the end, usable rollback record, owned firewall rules, unhealthy deployments taken back, outcomes kept | 3 operations of all four kinds one after the other, 2 ranges, 2 releases, 1 failing command (any but a rollback's), 1 crash |
| `host_recovery` | the data is in the database or in a backup | 2 overlapping operations, any command failing once, 1 crash |
| `host_data_loss` | violated: upgrade, failed rollback, upgrade | 3 operations |
| `identity` | credentials redeemed once, setup once, an owner remains, revocations complete, accepted accounts kept | 2 requests, 3 users, 2 names, 2 sessions, 1 reset token, 1 revocation; one owner request at a time (`OneOwner`), failing mail |
| `identity_last_owner` | violated: two owner requests at once | 2 requests, 2 users |
| `headless` | every wake has a cause, the limiter is exact, no packet is taken after a shutdown, sessions and exit code are right, the configuration is read as written, a signal ends the process | every file of up to 2 entries over 4 ports (2 of them out of range), every datagram up to one byte too long, clock to 2 with an interval of 2 |
| `login_limits` | what the limits are worth, refusals justified | 2 requests, 1 client, limits 2 and 1, window 2, suspension 1, clock to 4 |
| `journal` | one clean-up at a time, nothing removed early, everything expired removed, no event counted twice | 2 processes and 1 request, 2 rows, clock to 2, 1 change of settings, 1 failure or kill, commits up to 1 late |

Why the bounds suffice. Every race above is between two requests, or between a
request and one listener thread; a third request can only repeat one of the two
roles, since the lock and the row locks admit one owner. Two mappings with two
ports let a port move from one mapping to another. `MaxBusy` bounds the threads
that handle a packet at once; a thread that is neither serving nor busy has been
joined, so `MaxBusy` plus the number of mappings are enough thread identities
(`EnoughThreads`). `Exclusive` is what the three properties of a quiet engine need:
`engine_pause_race` shows what happens without it. `engine_lifecycle` has no packets because the invariants it
checks do not depend on them; the proofs cover that combination.

For the host agent, three operations are the shortest history in which a record
is replaced while its backups are named by the state file (upgrade, rollback,
upgrade), and each operation meets each kind of failure once; two releases give
an upgrade and a downgrade, two ranges a wider and a narrower one. `MaxJobs`, 20 in
the code, is 3: old jobs are dropped only beyond it.

In `inventory` one pair with events (`MaxEvents`) may name any mapping and any
device, the current one of the mapping or one it has left, so it meets every
deletion; what a second pair forbids, the first forbids too. The run also passes
with three ports of which another process has one (`HostBusy`); that instance
takes twice as long and is not kept.

In `identity`, three users are an owner, a user who becomes a second owner and a
pending invitation for a name in use; two sessions are one that a revocation
must end and one that it must not. One reset token is enough for two requests to
contend for; `MaxRevocations` bounds the requests that revoke, one of which can
meet a login at each of its steps. `OneOwner` states the case the last-owner
check is written for: an owner request that meets no other. `AcceptedKept` needs
three users as well: the owner, an invitation whose mail is under way or fails,
and the next invitation for the same name.

In `headless` two ports are two threads that share the limiter and the clock, and
a signal can meet any pair of their steps; with a one-byte header and two copies
of a one-byte address every way to break a packet (length, header, second copy)
occurs. The clock reaches the end of the interval, so a request one short of it
and one exactly on it are both made. In `login_limits` the clock covers two windows and
a limit of 2 lets two readings be stored out of order; clients do not share
state, so one is enough. In `journal` two rows are one that has to go and one that
has to stay, two workers collide, and a third cleaner is the request without fairness.

Fairness in `Engine` (`FairSpec`): weak fairness of every step of the runtime and of the exit
of a thread whose socket is closed, because the operating system runs runnable
threads and a closed socket or its timeout of 0.5 s wakes the reader. Nothing is
assumed of clients, packets or a wake in progress: `recv_exit_status()` has no
timeout, and `LockReleased` holds because `join` has one. In `Headless`, weak
fairness of the main thread with the handler it runs, and of every listener thread;
two of a listener's waits are left
out (`DeviceStep`), the one for the reply to the exec request and `recv_exit_status()`, because
neither has a timeout. `DrainsOnSignal` assumes in its own
statement that no device leaves a thread in one of them for ever. In `Journal`,
weak fairness of each worker thread, whose hourly wait ends, and of the clean-up
an administrator has started; nobody has to start one.

The three violated properties are statements of the repository's documents;
PROJECT.json, "findings", quotes them. The models show more divergences of the
same kind that have no run of their own:

- every `resume()`, and so every edit of an active engine, makes a new `RateLimiter`,
  and a port and MAC granted a moment ago are granted again (`README.md:400`:
  "Repeated port/MAC request rejected during cooldown");
- `ListenerService.update` checks a port against a range it has not locked, and
  `update_udp_range` against mappings that may change: the two can commit together
  and leave an enabled mapping outside the published range
  (`docs/design/07-phase-5-1-hardening.md:13` promises "protection for existing
  listener mappings"; `CreatedInRange` is stated for created mappings, since `create`
  does lock the row);
- only a failed health check takes a deployment back. When a firewall or Compose
  command raises (`server.py:610`, `611`), the job fails with the new range in `.env.web`, with
  Compose also with the new rule, and the application may be stopped
  (`docs/design/09-phase-7-host-operations.md:76`: "Failure restores the environment and
  firewall rule"). These failures are in `host_serial`; `DeploymentRestored` is stated for
  the job that ends with `deployment_health_check_failed`, and `CoherentRelease` allows a
  stopped application after a deployment that broke (`DeploymentBroke`). Stated for
  every failed deployment, `DeploymentRestored` is violated there;
- an edit that commits while `resume()` is between its SELECT and its heartbeat
  finds the engine paused and is not applied (`Converged` with `resume` in `Ops`);
- a mapping deleted while its wake executes takes the outcome with it: the insert
  fails on the foreign key and `_run` drops the error (`Record`);
- two firewall requests at once leave two managed rules, one unrecorded
  (`FirewallOwned` with `OneAtATime = FALSE`);
- a firewall request that read `state.json` before an upgrade recorded itself writes
  the old rollback record back, whose backups are gone (`RollbackIntact` with
  `OneAtATime = FALSE`);
- when putting the runtime files of an upgrade in place fails and putting the old
  ones back fails as well, the files stay mixed and the upgrade ends like one that
  changed nothing: `runtime_backup` is still `None`, so the handler neither retries the
  restore nor logs `automatic_upgrade_rollback_failed` (`CoherentRelease` with `MaxFailures = 2`);
- `start_job` looks for a running job and registers its own in two critical
  sections, so two jobs can run at once;
- a rollback publishes the previous range without comparing it with the active
  one, which may have been widened since;
- an invitation that replaces a pending row, or the clean-up after a failed mail,
  deletes the row it has read even if the account was accepted meanwhile
  (`InviteCommit`, `CleanupCommit`); `AcceptedKept` is stated for who accepted before that
  decision, and needs `OneOwner`: when a second owner disables the account before the
  first one's mail fails, the clean-up takes it for pending and removes it;
- two reset requests at once leave two valid tokens: neither sees the other's
  (`ResetMark`);
- the session of a login that verified its password before a reset and commits
  after it survives: it counts as begun at its commit (`LoginCommit`; `docs/design/08-phase-6-identity-email.md:38`:
  "Password reset invalidates every active session for that user");
- once no owner row is left, `create_owner` accepts a new one
  (`docs/design/01-product-ux.md:94`: "Setup cannot be reopened after the first
  Owner is created"); `SetupOnce` holds in `identity` because `LastOwner` does;
- both limiters read the clock outside their lock. In `LoginAttemptLimiter` a thread
  suspended in between stores an old time behind a newer one, and the window in
  which the limit holds is shorter by the length of the suspension (`MaxDelay` in
  `AttemptsBounded`); a refusal is exact (`RefusalsJustified`). The keys of `RateLimiter`
  belong to one thread each, so it stays exact both ways (`LimiterExact`);
- neither limiter drops a key: their tables grow with the addresses seen;
- the headless relay's `_number` accepts `nan` as an interval, with which every
  request is granted; intervals in the model are numbers;
- `test_connection` marks a device healthy that was disabled or edited while the
  SSH session ran; nothing but the user interface reads that column;
- the dashboard's total has no upper bound in time and its series has, so an event
  recorded while the page is made is in one and not in the other;
- event lists page by offset, so a row inserted between two pages repeats one.

The properties of `host_serial` are therefore stated for an owner who waits for
one operation before the next (`OneAtATime`). In the run one command fails per
history and none of a rollback, which nothing takes back; the theorems allow any
number of failures.

## Proofs

`EngineProofs` proves for any sets of requests, threads, mappings and ports:

- `TypeCorrect`;
- `EngineCorrect`: `EngineInv` is an invariant. The socket properties are not
  inductive alone: that a bind cannot give a mapping a second listener needs
  that the rows still to start are unserved (`RowsUnserved`), which needs that
  `_close_all` finished before the rows were read (`ClosedBeforeRead`), which needs
  that no other actor binds meanwhile (`MutualExclusion`). `HandlerSections` says
  which handler reaches which part of the section, `MarkedServed` that a row
  about to be marked active has a listener;
- `NoLeakedSocket`, `SingleListener`, `PauseIsSilent` follow from it, and
  `ActiveMeansBound`, an action property, from the invariant and the one action
  that writes "active".

`ServiceProofs` proves `EngineImplementsService`, the refinement of `ServedMappings`:
initial states map to initial states and every step to a step or a stutter. Most
steps leave the sockets and the plan alone (`SocketFrame`) and are edits;
`CloseRefines`, `ReadRefines`, `BindRefines`, `BindFailsRefines`, `CloseAllRefines` and
`RaiseRefines` are the others. Closing one socket removes one row because no other
socket serves it (`OneListenerPerMapping`); nobody closes while a generation is being
opened because the plan is empty outside the loop of `resume()` (`PlanOnlyInLoop`),
which at start-up needs that the process was down (`LifespanPhases`).

The second half of `ServiceProofs` is about an engine at rest: `PauseMeansSilence`,
`EditsConverge` and `StateIsTruthful`, for any number of requests, mappings, packets, failed
binds and crashes. They assume `Orderly`: pause and resume requests meet no other
request, and no database call of the runtime raises (`engine_pause_race` shows what
a pause that meets an edit does; an exception leaves the mark or the row of a
reconciliation that never ended). Edits may overlap as they like. None of the three
is inductive, because between two quiet states anything may be pending; their
invariant, `ReconcileInv` (theorem `Reconciled`), says what makes up for it. `AloneInHandler`
is what `Orderly` gives. `DesiredKept`: a reconciliation that has found the engine active is right
until it ends. `ResumeSound`: whoever holds the lock past its SELECT serves, or
has still to start, what the table says, unless an edit that is not in its rows has
its own reconciliation to come (`Pending`). `OneMark` follows the row whose status
is being written. `StateRow`: nobody writes `engine_state` between the load and
the flush of a session, so the second transaction of a route finds what it would write;
`PausingWrites`: `pause()` reports what it has done. `SettledBetween`: with the lock free and nothing pending the
sockets are those of the table; `PausedIsSilent` is the same for a paused engine.

`InventoryProofs` proves `TypeCorrect`, `VersionsCorrect` and `OptimisticVersions`. The
invariant is `LocksHeld` (a request between its `FOR UPDATE` and its commit
owns the row, and the version it read is the committed one), `CreatedFresh` (a
mapping under creation is not in the table, nobody else refers to it) and
`NoLostUpdate`. `PortsUnique` and `NoDanglingReference` say what the unique and the
foreign keys are worth although every service checks before it writes, and
although a thread may record an event for a device that its mapping has left; both
rest on `MappingChanges`, the two ways in which the table can change.
`CreationsInRange` needs one more invariant, `CheckedUnderLock`: what a creation or a
change of the range has validated still holds at its commit, because both
hold the row of `application_settings` meanwhile.

`JournalProofs` proves `TypeCorrect`, `CleanersExclude` from `LockInv` (whoever is past
`pg_try_advisory_lock` holds the lock, and nobody else does), `DeletionsJustified`, an
action property that follows from what a clean-up has read under the lock, and
`SeriesFaithful`. The last is about cardinalities: `SeriesInv` says that a code's count so
far is at most the number of events that are in the buckets read or have been
removed (`Counted`), and a query adds events of a later bucket, disjoint from those
(`DisjointUnion`).

`HeadlessProofs` proves `ParserExact` without any bound on the lengths: the payloads that
`parse_magic_packet` accepts are exactly those `build_magic_packet` makes, with the same
address (`AcceptedIsBuilt`, `BuiltIsAccepted`). `TypeCorrect`, `WakesAreJustified`,
`ShutdownIsDeaf`, `ExitIsTruthful`, `ConfigIsFaithful` and `LimiterIsExact` follow from one
invariant: `LifeInv` ties the program counter of a thread to its socket and its
session, `PacketInv` says that a thread between `recvfrom` and the SSH session holds
an accepted datagram, `LimitInv` that the limiter's table has the last grant of
every key, and `DeafInv` that no listener the handler is done with waits on an open
socket. `DeafAfterShutdown` alone is not inductive: the signal may come between any
two steps of a thread, and `DeafInv` says what each of them leaves.

`IdentityProofs` proves `TypeCorrect`, `CredentialsSingleUse` and `RevocationsComplete` for
every number of concurrent requests. `LocksInv` says that the
rows a request has locked are still there and as it has read them, and that no
two requests have the same one locked; `RevokeInv` says that a `revoke_sessions` about
to commit ends every open session of the user but those that began meanwhile. A step
either reads and takes locks (`ReadsInv`) or writes rows that nobody else has locked
(`WritesInv`), and the lemmas per transaction show which; that no row outlives its
user (`NoOrphans`, the foreign keys) is an auxiliary part of the invariant. `LastOwnerKept` and
`SetupNotReopened` assume `OneOwner`: the last-owner check counts owners without a lock,
so it is right only while no other owner request is under way;
`identity_last_owner` shows that the assumption is needed. Their invariant, `OwnerInv`,
carries the result of that check to the commit; it is needed because public
requests (accepting an invitation, a reset, a recovery) run in between.
`AcceptedStays` has the same assumption. `AcceptedKept` is not inductive: a deletion is decided
in one transaction and done in another. `AcceptedInv` adds that nobody is about to
remove an accepted account, and that one whose mail is being delivered is enabled,
which only another owner's request could change.

`LoginLimitsProofs` proves `LimitsTyped`, `LimitHolds` and `RefusalsAreJustified` for any number of
requests and clients and any limits, window and suspension. In `LimitInv`, `ReadingsRecent` says
that a thread in `allow()` has read the clock at most `MaxDelay` ago, and `Remembered` that a
deque holds the readings of the last admissions, one by one, while the admissions
before them have left the window (`Aligned`). The deque itself need not be in order, so
the loop that drops old readings may stop early; that it leaves a suffix is `PrunedIsSuffix`,
from the least index at which the loop stops. The properties count admissions; since
these are in order, those in a window are an interval of indices, and no induction
over sequences is needed (`CountBounds`, `CountOfHistory`).

`HostAgentProofs` proves seven theorems for any number of operations, ranges, releases,
failures and restarts. All rest on `ControlInv`, which is inductive together with
`TypeOK`: `RowOK` says what the program counter of a thread implies about its locals
(an upgrade past its preparation names its own backup, a job about to add a rule
knows a real one), and whoever is named by the rollback record, or by a copy of it
in some thread, has recorded its backup already (`Recorded`, `Committed`). Each step is
shown to keep the row of its thread (`RowStep`), by the few ways a row changes
(`MoveStep`, `FinishStep`, `UndoStep`, `DoneStep`).

- `TypeCorrect` has no hypothesis.
- `DataNotLost` assumes that the owner asks for no rollback (`host_data_loss` shows what
  happens otherwise) and nothing about overlap. The invariant `DataInv`: either the
  database has the data and so has the backup of every upgrade that may still
  restore one (`Restorer`), or there is a backup which no record names and whose
  job is past the point where it would record it (`Kept`). When an upgrade drops
  the database its own backup is such a one, and an unlink removes only backups
  of jobs that have committed.
- `FirewallKept` assumes `OneAtATime` (and, as `FirewallOwned` does, an agent that was not
  killed in the middle of an operation): then only one thread is at work (`Alone`), the copy
  of the state file it is about to use is current (`CopyInv`), and the rules in force
  are the wanted one while it is being recorded and the recorded one otherwise
  (`RulesInv`).
- `OutcomesSurvive` assumes `OneAtATime` too, and that there are no more jobs than the file
  keeps: beyond `MaxJobs` outcomes are dropped. Its invariant is `OutcomeInv`.
- `OneRelease` and `RollbackPossible` assume `OneAtATime` and `Recoverable`: every command of an
  upgrade, a firewall request and a deployment may fail, but none of a rollback,
  which has no handler that takes it back. A deployment whose firewall or Compose
  command fails is not taken back either, but neither release nor data depend
  on what it leaves (`Settled`); the application may be stopped then (`Broke`). With more than one failure, putting the runtime files in place is not among
  them, for the reason given under the runs. The invariant, `ReleaseInv`, is about
  the one job at work: `Progress` says which of environment, runtime files, container
  and database have the new release at each step, forward or taking back, and `WayBack`
  that the backups it would return to hold the release and the data it came from.
  An upgrade is the only job without a usable rollback record, and only between the
  removal of the previous backups and its own record (`Sound`).
- `DeploymentTakenBack` assumes `OneAtATime` only: any command of any operation may fail, any
  number of times. `RangeInv` says that a deployment becomes `unhealthy` only at the end
  of being taken back, and how far environment, rules, record and container are at
  each step of that; it rests on `RulesInv`.

The assumptions are those named in the modules: distinct sentinels and actors
(`SentinelsDistinct`, `NoRowDistinct`, `NothingDistinct`), non-empty tables, bounds and
limits that are numbers (`BoundsNatural`, `JournalAssumption`, `HostAgentAssumption`,
`LimitsAssumption`), a value for no request that is not a request (`NoRequestDistinct`), a
published range with start ≤ end, and mapping files whose valid ports are among
the modelled ones (`DocumentsAssumption`). TLC evaluates them in every run.

Every inductive invariant was checked with TLC on instances of the size of the
runs before it was proved: `EngineInv`, `LifespanPhases`, `PlanOnlyInLoop`,
`ReconcileInv`; `LocksHeld`,
`CreatedFresh`, `CheckedUnderLock`; `LockInv`, `SeriesInv`; `LifeInv`, `PacketInv`, `LimitInv`,
`DeafInv`; `LocksInv`, `RevokeInv`, `OwnerInv`, `AcceptedInv`; `ControlInv`, `DataInv`, `Alone`, `CopyInv`, `RulesInv`,
`OutcomeInv`, `ReleaseInv`, `RangeInv`; and `LimitInv` of `LoginLimitsProofs`. The runs list the properties they are for.

Every invariant and every action property of a passing run is stated by a theorem.
Only model-checked are the three liveness properties, `LockReleased`, `DrainsOnSignal` and
`ExpiredRemoved`: they need fairness, which is out of the prover's reach.

## Not modelled

- Credential encryption and password hashing: library calls without state.
- Web settings: the environment is read once at start-up.
- Web user interface: presentation over the HTTP API.
- Installer, migrations and shell scripts: run once, by one administrator.
- SMTP delivery: it succeeds or raises, which `Identity` has as `MailFails`.
- Host-key discovery and the connection test: SSH calls whose result is shown to
  the administrator; the driver's outcomes are in `Engine` and `Headless`.
- Event lists, filters, CSV export and the totals of the dashboard: single queries.
- Status, preview and release queries of the host agent: reads.

## Plan

No safety property is left without a proof. What could be added, by value:

1. The hypotheses of the proofs as advice to the code: a lock around an owner
   request's check and commit, around a whole engine request and around a whole
   agent operation would make `OneOwner`, `Orderly` and `OneAtATime` facts. When one is
   added, model it, drop the hypothesis and turn the `violation` run into a passing one.
2. The history of the rate limiter across reconciliations (a new `RateLimiter` forgets
   its grants) and the published range of a rollback record, the two hazards without
   a property.
3. The connection test of a device, with its transaction across the SSH session.
