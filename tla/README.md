# nubit-agent: a TLA+ verification project

`nubit-agent` is the daemon that runs on a hosting server. It enrols with a control plane
("Control"), polls it for jobs, executes each job as a command (create a site, change its PHP
version, take a backup, ...), and reports the result back. Three things make it hard: Control
delivers at least once, provisioning takes many host steps that can fail or be cut short anywhere,
and a command that times out keeps running behind the back of the call that started it. The modules
here model that core, TLC checks it on small instances, and TLAPS proves the properties that matter
most for every value of the constants.

`PROJECT.json` lists the components, the runs, the mutants every property is tested with, the
source lines each definition stands for, the disagreements found between code and docs, the hazards
and the theorems. This file explains them.

## 1. Inventory

| component | state it keeps | operations | what makes it correct |
|---|---|---|---|
| durable writes (`internal/durable`) | none | `AtomicWrite`: write aside, sync, rename, sync the directory; `CopyBounded` | a failed write leaves the old file; a failure after the rename is told apart (`CommitError`) |
| writer lock | an flock | take, release | one process at a time |
| idempotency store (`command/file_store.go`) | `commands.json` and its copy in memory | open, `Get`, `Save` (result, tombstone), `Reset` | memory equals file; a recorded key is never forgotten; every file written can be opened again |
| outbox (`controlplane/outbox.go`) | `outbox.json` and its copy | open, `Put`, `Delete`, `List`, `Reset` | an accepted result survives until it is delivered |
| capacity manager (`capacity/manager.go`) | reservations, generations, fences, degraded flag, slots of operation pools | `BeginSite`, `BeginCommand`, `FinishSite`, `FinishCommand`, `ReleaseSite`, `AcquireOperation` and its release | one mutator per site; reservations equal what runs; no slot leaks |
| executor and admission (`command/executor.go`, `admission.go`) | `Executor.mu`, terminal timeouts, the running provisioners | `ExecuteContext`, `admit`, `runWithTimeout`, the late callback, `system.reset` | a key has one live execution; a success reported is real; only a provisioner that never returns can hold a call up |
| rate limiter (`command/rate_limit.go`) | a token bucket per class | `allow` | exempt commands always pass |
| poll loop (`controlplane/poller.go`, `client.go`) | the batch in hand | flush, fetch, execute, put, report, delete | an awaited result is not lost; every job finishes |
| site provisioner (`site/*.go`, `php/catalog.go`) | `sites.json`, users, directories, vhosts, PHP pools, runtimes | create, domains, suspend, resume, PHP version, limits, app install, delete, reset, runtime removal | every operation is all or nothing on the host |
| database manager (`database/manager.go`) | the site's entry of `sites.json`; databases, users and privileges on the server | create, rotate, delete, users, grants | what the record promises works on the server |
| access (`access/sftp.go`, `ftp.go`) | the site's entry of `sites.json`; key files, blocks of sshd configuration, unix accounts, ACL entries | keys of the site's own login; create, re-key and delete further logins | a failing command leaves the login as it was |
| enrollment and renewal (`enrollment`) | generations of key, certificate and CA; the manifest | `Enroll`, `Renew`, the reads of a TLS handshake, the check at start | a key is used with its own certificate; no crash or failing write locks the agent out |
| self-update (`selfupdate/updater.go`) | the binary on disk, the restart flag | track releases (`Run`, `Stage`), `StageRelease`; the poll loop's stop check | a restart has a new binary to start, happens, and the latest release comes to run |
| backup and restore (`backup/manager.go`, `objectstore`) | archives in a bucket, none locally | create (with prune), verify, restore | a returned archive has all of the site; a returned restore gives files their content and merges each dump over its database; prune keeps its floor and its window |
| mail (`mail/manager.go`, `client.go`) | none of the agent's own; domains and mailboxes on the mail server | create and delete domains and mailboxes, password, quota, aliases | an answer is true; a repeated command converges |
| audit log (`audit/audit.go`) | the active file and its rotations | `Record`, rotation | what is kept is an unbroken tail in order, within its bound |
| files, cron, logs, TLS inspection | none of the agent's own | file I/O | - |
| status, telemetry, inventory, TUI | read-only | - | - |

How they interact: the poll loop calls `ExecuteContext`, one job after the other; the executor asks
the store for the key, asks the capacity manager for an admission (fence, reservation, pool slot),
and starts the provisioner in a goroutine. When the call ends first (timeout, shutdown), the
goroutine keeps its admission and settles it later through a callback. `system.reset` empties the
store and the outbox and removes all sites; it holds no site's fence. Every durable map is written
through `AtomicWrite`. The provisioners share Caddy, php-fpm, the user database and the package
manager of the host.

The hard behaviours, all of them in the models where the component is modelled: redelivery of jobs,
lost requests and lost answers, leases that expire while a job runs, timeouts with late
completions, writes that fail before or after the rename, full stores, crashes and restarts between
any two steps, and operations of several sites interleaved step by step on one host.

## 2. Modules

    Durable          outcomes of AtomicWrite
    ResultStore      commands.json           EXTENDS Durable
    Outbox           outbox.json             EXTENDS Durable
    Capacity         capacity.Manager, as operators on its variables
    Executor         the executor            EXTENDS Capacity, ResultStore
    IdempotentExecution   what the executor promises its caller (abstract)
    ExecutorRefinement    Executor under a refinement mapping to IdempotentExecution
    Agent            poll loop, Control      EXTENDS Outbox, IdempotentExecution
    Provisioner      sites on the host, step by step
    SiteRecord       one site's entry of sites.json and the command that edits it
                                             EXTENDS Durable
    Databases, Access     the two managers   EXTEND SiteRecord
    SiteServices     both on one site        EXTENDS Databases, Access
    Enrollment       the mTLS identity       EXTENDS Durable
    SelfUpdate       release tracking, ordered releases, the exit for an update
    AuditLog         the audit trail and its rotation
    Backup           archives of one site: create, prune, restore, verify
    Mail             commands on one mail domain, request by request
    MCStores, MCExecutor, MCAgent, MCProvisioner, MCEnrollment, MCMail    instances for TLC
                     (MCStores composes ResultStore, Outbox and AuditLog in one process)
    *Proofs          theorems about the modules they extend (UpkeepProofs: AuditLog and SelfUpdate)

**Durable.** `AtomicWrite` has three outcomes: `failed` (the file is the old one), `committed` (the
rename happened, an error is returned) and `ok`. Every durable map is a pair, the map in memory and
the map in the file; each action takes the outcome as a parameter.

**ResultStore.** `results` is the map in memory, `commandsFile` the file. `Save` follows the code's
order: refuse a result larger than the whole limit, write the result when it fits, otherwise write
a tombstone. A result is its status, its encoded size and whether it is a terminal timeout; the
payload is not modelled. `OpenStore` is `NewFileStoreWithLimits`, which may refuse the file.

**Outbox.** `pending` and `outboxFile`; `accepted` remembers the results whose `Put` returned nil.
The byte limit is folded into the entry limit, but for results larger than the whole outbox
(`oversized`), which `validateLimits` refuses whatever is pending. `persist` loses the `CommitError`
(`outbox.go:200`), so a committed write is undone in memory: the model does the same.

**Capacity.** Reservations per site, a generation and a fence per site, slots per operation pool,
and `degraded`. Only the methods the executor calls are modelled.

**Executor.** One `ExecuteContext` at a time (`call`, because `Executor.mu` is held throughout),
up to `MaxRuns` provisioner goroutines (`runs`), each with the admission it has to settle. The
phases of a call are the points where it can wait or fail: `admit`, `slot`, `run`. Which command is
which is abstracted to classes (`Types`). The provisioner's work is one step that succeeds or fails
and, for sites, sets the plan the host runs with. `CommandTimesOut`, `LateCompletion`, `Shutdown`
and `Restart` are actions of their own. `drifted`, `unsaved` and `effects` are history variables.

**IdempotentExecution** is the contract of `ExecuteContext`: for each key the recorded result, the
executions alive and the effects that happened. `ExecutorRefinement` maps the executor's state to
it. `Agent` is written against the contract, not against the executor, so the poll loop is checked
with a small model of the executor which the large one is shown to implement.

**Agent.** `Poll` as a loop of phases: flush the outbox (report, delete), fetch jobs, execute each,
clear the outbox after a `system.reset`, put the result, flush. Control is external: jobs are
queued, leased or finished; a lease may expire at any moment, unless `Patient`. Requests and answers
get lost independently. A restart may also be the last one: `commands.json` with tombstones past its
limit is refused by `NewFileStore`, which is fatal in `main` (`RestartRefused`, phase `down`; in the
contract a tombstone is a failure on record, so any such record may be the one too many). The success
of a job in `Oversized` fits into no outbox. `Leases` is a small set that is reused only when nothing refers to a lease.

**Provisioner.** An operation is a program: the sequence of host steps the method performs (`todo`),
with the rollback the code performs when a step fails (`undoCreate`, `undoDomains`, `undoStatus`,
`undoPHP`, `undoLimits`, `undoDelete`: one operator per rollback, from the failed step). `Step`
performs the next step, `Fail` fails it, `FailCommitted` is a commit error of `sites.json`,
`FailUndo` a rollback step that fails. Sites have one job each, which is what `OneMutatorPerSite`
of the executor grants, but jobs of different sites, a `Reset` and a `runtime.remove` interleave
freely. Vhosts and pools are what they depend on (domains, profile, version, limits) instead of
their text. Caddy and php-fpm have the configuration they loaded last, which is not always the one
in the files. `tainted` is history: sites that a crash, a failing rollback, a commit error or an
overlap with `Reset` left to chance; `revived`: sites whose record was put back on a version that was
being removed, or gone, after `RemoveRuntime` had looked.

**SiteRecord, Databases, Access, SiteServices.** Both managers follow one pattern: read the site's
entry, change the host in a few steps, save the entry, undo something when a step fails. A command
is therefore a program (`todo`), as in `Provisioner`, and `Continue` and `GiveUp` advance it. The
fence gives a site one command at a time, and sites share no database, user or login, so one site
shows what any does. Two details of the code are kept because they bite: `FileStateStore.Get` hands
out its own slices and map, so `Delete`, `DeleteUser` and `Revoke` change the store's memory before
(and without) the save (`Shows`, `Clobbered`); and host commands refuse what is there or missing
already (`Possible`, `Accepts`), which decides whether a retry gets through. MariaDB keeps
privileges on a database that is dropped. A statement is a batch for three hosts, which may fail half
way: a creation then leaves the user without all privileges, a `DROP USER` or `REVOKE` batch has taken
the access on one host at least (`Taken`). Three history variables name what the code, by design or by
the gaps listed in section 6, leaves apart from the record: `lost`, the accesses that such a batch,
`Create`'s rollback or a restart with an older file took away while the record keeps them; `parted`,
the logins and databases of commands that were cut short; `undone`, the logins whose last command was
undone, which restores neither the owner of the key file nor the ACL entries.

**Enrollment.** Generations, manifest and mirrors are files with a key, a certificate and a bundle
each; `persistGeneration` writes them one by one, and every write may fail, fail after its rename,
or be the last thing the process does. A handshake resolves two paths through the manifest and then
reads two files, four steps that interleave with a renewal. A certificate has a number, so expiry is
a threshold; Control, external, picks any of its CAs and bundles (`Bundles`: before, during and
after a rotation, and chains without the CA beside them or with blank entries only). An answer is
verified against its CA and its chain together (`loadTrustAnchors`), and the chain alone is stored when
there is one (`caBundleFor`): `bare` remembers the certificates accepted with a bundle that lacks their
issuer. The environment overrides of the mirror paths are left at their defaults.

**SelfUpdate.** Releases are numbers. The tracker's goroutine and a command's goroutine each go
through fetch, replace and arm. `jobs` holds the goroutine of every command, `call` the one that the
poll loop waits for; the others are `Late`, and need never end. A site command may find a late one
ahead of it in `AcquireOperation`, where its call waits without a deadline (`Blocked`). `PassEnds` is
the stop check. `broken` records an exit that killed a late site command.

**AuditLog.** A record is known by its serial number; a file is the set of numbers that reached it
and its length. `Record` is a chain of steps (`Stat`, one `Rename` per rotation from the oldest
down, `Renamed`, `SyncDirectory`, `Write`, `Sync`), each of which may be the last
(`RecordFails`: an error or a crash); `WriteTorn` is a write that ends half way, and `StatFails` a
measurement that fails, after which the event is appended to the file whatever its size (`blind`
remembers these events). The executor ignores
the error, so the next event starts over on what is left.

**Backup.** A site is its parts: files and databases, numbered in the order of an archive's entries.
`Create` names the archive by the clock and reads the parts one by one: a file's type and size are
looked at (`CheckFile`), its name is opened (`OpenFile`: through a link that came meanwhile, which
gives the content `Foreign`), its content is copied (`CopyFile`, `SizeChanged`: what visitors write in
between); then it uploads, lists and deletes one archive after the other. `Restore` downloads and then
replaces part by part, counting the entries as it goes: a file is looked at (`CheckEntry`), truncated
(`OpenTarget`) and written (`CopyEntry`); a dump is replayed table by table over the database that is
there (`ReplayBegins`, `ReplayTable`, `Replayed`), and tables it does not have stay. `Verify` needs no fence and runs beside both. A request
to the bucket may be applied though its answer is an error. The clock may be set back, and two
creates in one tick have one name. `before` and `touched` are history: what the site was when the
command began and what others have written since. The byte limits are folded into the limit on
entries, because all that matters of either is which entry it stops at.

**Mail.** A command is a run through lookups and `/set` requests with the ids it found in local
variables; `CreateMailbox` calls `SetPassword`, which looks everything up again. Mail commands take
no fence, so a run that outlived its timeout (`late`) continues beside the next command, and a
request whose answer was given up on (`strays`) may reach the server at any later time. The server
is external: ids are never reused, addresses are unique, weak passwords are rejected. The executor
refuses the key of a command that timed out for ever; what it asked for can only come again under
another key (`Copies`), and then runs beside the late one. A crash forgets the timeouts that could not
be saved. `others` is
history: the commands that could act since one began.

## 3. Runs

| run | instance | shows |
|---|---|---|
| `stores` | `commands.json` with 2 keys, 1 live result and 2 bytes; 2 ids under 1 lease with 1 pending result; 2 rotations of 2 bytes, 4 writes; all write outcomes, restarts (1,033,578 states) | memory and file agree (`StoreMirrorsFile`), accepted results stay (`AcceptedResultsKept`), keys stay (`KeysNeverForgotten`), the outbox opens again (`OutboxFileOpens`), the audit trail is unbroken and only unmeasured events exceed its bound (`TrailUnbroken`, `TrailBounded`) |
| `executor_capacity` | create, resize and delete of two sites in an envelope that holds one large or two small plans, a store for one result, 4 executions, one restart (1,085,841 states) | `OneMutatorPerSite`, `ReservationTracksHost`, `SideEffectOnce` |
| `executor_contract` | backup, verify, ping, reset; a store for one result, one slot, 2 executions, one restart, fairness (32,330 states) | `ImplementsContract`, `NoOverlappingCopies`, `SlotsAccounted`, `SuccessIsReal`, `RecordedNeverRelaunched`, `EveryCallReturns`, `EveryRunSettles` |
| `agent` | 2 jobs (one a system.reset), 2 leases, any lease expiry (2,494,944 states) | `ControlSuccessIsReal`, `FetchOnlyWhenDrained`, `NoEffectAfterSuccess` |
| `agent_live` | the same with lost messages, failing writes, one crash or refused start, a job whose success may exceed the outbox, a patient Control, fairness (36,728 states) | `EveryJobFinishes`, `OutboxDrains`, `AwaitedResultKept` |
| `sites` | 2 sites, 1 alias, 2 PHP versions, 2 limits; 2 operations, 1 failure or crash (778,293 states) | `HostMatchesRecord`, `SuspendedNotServed`, `RunningPoolsMatch`, `RuntimeInUseKept`, `ForgottenIsArchived` |
| `enrollment` | 2 CAs, 6 bundles, 2 certificates issued; any failing write, stop or expiry (201,341 states) | `ManifestWhole`, `HandshakeMatches`, `StaysUsable` |
| `self_update` | 3 releases, 3 commands, 1 crash, fairness (112,828 states) | `ArmedMeansSwapped`, `RunsLatest` |
| `services` | 2 databases, 2 users, the site's login and one more, 2 keys; 4 commands, 2 failures or restarts (1,835,503 states) | `RecordedAccessWorks`, `LoginsMatchRecord` |
| `backups` | one file, one database of up to 2 tables, a floor of 2 archives, windows of 0 and 3 ticks, a limit of 2 entries; 3 commands, 2 writes by the site, 1 fault (5,457,684 states) | `BackupComplete`, `RestoreExact`, `VerifiedRestorable`, `RetentionKept` |
| `mail` | any 2 of 9 commands on one mailbox, one command under two keys, 2 faults, fairness (89,426 states) | `AnsweredIsInForce`, `RetriesConverge` |
| `update_interrupts` | violation | a statement of the repository that the code does not keep: see section 6 |

The type invariants are proved (section 4). Every property of a passing run has a mutant in
`PROJECT.json`: an operator next to the one it replaces, changed the way a bug would change it,
under which TLC finds the property violated.

### Bounds, and why they are enough

- `MaxRuns` (2 or 4): two copies of a key; in `executor_capacity` two more executions compete for
  the fence, so that a late completion meets an admission that came after a delete.
- `MaxRestarts`, `MaxCrashes` (1): every state between two steps is a crash point; a second crash
  starts from a state that a first crash and a normal continuation also reach.
- `MaxEntries` (1) of the result store: the next result overflows it, so tombstones happen at once.
- `Leases` (2): one held by the agent or a stale message, one by the present lease.
- `MaxEffects` (1 or 2): executions of one job; two are needed for "after Control has shown success".
- `MaxOps = 2`, `MaxFaults = 1` in `sites`: every ordered or overlapping pair of operations, with
  one failure anywhere. The initial states include sites that earlier operations created (active or
  suspended, on either version), so longer histories are covered up to what a record can look like.
  The run was also carried out with two faults.
- `MaxIssued = 2`: an enrollment and a renewal, two renewals over old material, or a re-enrollment
  after expiry; a handshake that spans a whole renewal pairs at most two generations.
- `MaxVersion = 3`: running, newer and newest, so an ordered release can be older than the tracked
  one; `MaxOrders = 3`: a late site command, one that waits behind it, and an ordered update.
- `MaxOps = 4`, `MaxFaults = 2` in `services`: create on two databases with one user, a deletion and
  a retry; two faults let the rollback of a failing command fail too.
- `MaxFiles = 2`, `LogBytes = 2`, `MaxWrites = 4` for the audit log: every second event rotates, the
  oldest rotation is dropped within the bound, and a rotation can fail and be taken up again.
- `backups`: a floor of 2 and 3 creates make the third prune; a window of 3 ticks separates the
  floor from the window; 2 entries are the manifest and one part, so an archive of both parts is
  beyond the limit; 2 tables are one that the dump has and one made since. One fault at any request,
  step or tick of the clock. `prune` computes the window as a `time.Duration`, which overflows above
  106751 days; no plan comes near that, and the instance is below it.
- `mail`: two commands, each repeated after a failure, are enough for a stray request or a late run
  of one to meet the other, or its own copy under another key; 2 faults let the retry of a lost
  request fail as well.
- `CHECK_DEADLOCK FALSE` where the bound on operations or executions lets the model stop.

### Fairness

Nothing makes a provisioner return: most external commands are started without a context, and
`runWithTimeout` only stops waiting for the goroutine. So no step of a provisioner is fair anywhere,
and each liveness property says what such a one can hold up.

`Executor!Fairness`: weak fairness of the steps of the call and of the callback that settles a run
whose provisioner has returned. `EveryCallReturns` has one escape, `BehindProvisioner`: the call waits
for a pool whose slots are all held by provisioners that have not returned, or for its own command,
when that has no timeout. `EveryRunSettles` speaks of the runs whose provisioner has returned.

`Agent!Fairness`: weak fairness of the poll loop (a timer ticks as long as the process lives) except
where it waits for a provisioner (`Waits`), of the departure of a provisioner that has returned, and
of the next start of a stopped process (`Restart=always`), which succeeds or is refused. Strong
fairness is assumed only of the environment's good outcomes: an answer of Control that arrives, a
write that succeeds. Without it a network that always fails would refute every liveness property. The
escapes of `EveryJobFinishes` and `OutboxDrains` are exact: the loop waits for ever for a provisioner,
the daemon is `down` for good because of its own `commands.json`, or (for jobs) a success is larger
than the outbox. A lease expires eventually (Control requeues what nobody reports), but in
`agent_live` a patient Control waits while the agent holds the job; with an impatient one,
`EveryJobFinishes` would depend on the execution being faster than the lease, which the code does not
guarantee.

`SelfUpdate!UpdateFairness`: the tickers of `Run` and `Poll` go on as long as the process lives, a
call that is not waiting for admission ends by its command or its timeout, systemd starts what has ended, and a download that is tried
again and again succeeds now and then (strong fairness of `Replace`). A command that outlived its
call is not assumed to end, so a later one may wait behind it for ever, and the poll loop with it:
`PollHeld`, the one escape of `RunsLatest`.

`Mail!MailFairness`: the run that the poll loop waits for makes its next request (each has a timeout of
its own); nothing is assumed of runs that outlived their timeout. A creation or deletion that failed
is sent again by Control sooner or later; one that timed out is not begun again under its key. Nothing is assumed of the network;
its faults are bounded, as Control would otherwise repeat for ever.

## 4. Proofs

The theorems hold for every value of the constants that satisfies the named assumptions
(`ExecutorAssumption`, `AgentAssumption`, ...), which TLC evaluates in the runs.

**Executor** (`ExecutorProofs`, which also holds the theorems of `ResultStore`). The inductive
invariant is

    ExecInv == ExecTypeOK /\ ShapeInv /\ FenceInv /\ SlotsAccounted /\ RealInv /\ OnceInv /\ TrackInv

- `ShapeInv` ties the call to the runs: a call in phase `run` owns exactly one attached execution
  (`CallShape`); a detached execution's key is barred from running again by the terminal timeout
  list or the store (`LateBarred`); hence no two live executions share a key
  (`NoOverlappingCopies`). The last conjunct is not inductive without the second: after a timeout
  only the bar stops the redelivery.
- `FenceInv`: every live mutating execution of the current generation holds its site's fence
  (`FenceHeld`), fences never run ahead of generations, and a current fence has an owner. Each of
  `OneMutatorPerSite` and `CurrentFenceOwned` needs the other.
- `SlotsAccounted` equates the pool's counters with the executions that hold a slot; the type
  invariant (counters in `Nat`) needs it, because a release subtracts one.
- `RealInv`: an execution that is done and succeeded has been counted in `effects`; the successes in
  the store, in its file and in the last answer come from such an execution.
- `OnceInv`: a cached key that has had its effect is barred by its record, by the terminal timeout
  list or by the execution that is still alive. That is where the two exceptions come from: a
  result whose write failed and a result larger than the whole store leave none of the three.
- `TrackInv`: a live mutator's admission remembers the reservation to go back to, which is the
  plan the host still runs, and the reservation it will keep, which is the plan it sets.

From it: `ExecutorTypes`, `NoOverlap`, `OneMutator`, `FenceOwned`, `SlotsAreAccounted`,
`SuccessReal`, `EffectOnce`, `ReservationsTrack`, and the action property `RecordedNotRelaunched`.
`ExecutorImplements` is the refinement: the initial states map to initial states of
`IdempotentExecution`, and every step to a step of it or to a stutter, action by action. The one
mapped value that is not read off a variable, the state of a key's only execution (`AliveBar`),
needs `NoOverlappingCopies`. Two assumptions belong to it: `OneTypePerKey` (Control gives every
command a key of its own, so what bears one key has one type) and `MappingAssumption` (the
absent call and the absent answer are not calls or answers).

**Stores.** `StoreMirrors`, `EntryLimitHolds`, `KeysKept`; `AcceptedKept` and `OutboxAlwaysOpens`
(in `AgentProofs`) from `OutboxInv == OutboxTypeOK /\ AcceptedResultsKept /\` the limits of memory
and file. That the file can always be opened needs the limit of the map in memory, which in turn
needs that a rolled-back `Put` restores the previous map.

**Agent** (`AgentProofs`, which also holds the theorems of `Outbox` and of the contract).
`ContractSuccess` proves that a success recorded or returned by the contract is real.
`ControlSuccess` carries it through the loop: the result in hand, in the outbox, in its file and at
Control are each real. `AgentInv` has one conjunct per place (`BoxesReal`, `Executing`, `Flushing`,
`ControlSuccessIsReal`) plus the invariants of the outbox and of the contract.

The three action properties need more, because they are about time: a result that is *awaited*
(Control is waiting for the lease it carries) today may be passed over tomorrow, but not the other
way round. `HeldInv` adds to `AgentInv`

- `Drained`: from the fetch to the put nothing in the outbox is awaited, and during a flush only
  what is still to be reported is. It gives `FetchesDrained` at once, and `AwaitedKeptInOutbox` for
  the delete of a reported result, the ignored delete of a fenced one and the clearing by
  `system.reset`;
- `AwaitedOnFile`: the file has every awaited result as memory has it, although a half-failed write
  may leave the two different elsewhere. A restart needs it;
- `OncePerBatch`, `ReportedNotAtWork`: a job is in hand or in the batch at most once, and not while
  its result is awaited or known to Control. Without them a second execution of the same delivery
  could replace an awaited result or run what Control shows as done;
- `SuccessAtRest`: no execution runs for a job whose success is recorded, in hand, awaited or in
  Control. `SucceededNeverReruns` is its first conjunct.

A delivery carries a lease that nobody has yet (`FreshLeaseNew`): that is why an old result never
becomes awaited again. The theorems hold with a Control that takes leases back at any time
(`Patient = FALSE`), all write outcomes and every number of crashes.

**Provisioner** (`ProvisionerProofs`). The inductive invariant is

    ProvInv == SystemTypes /\ FormInv /\ Supported \subseteq runtimes /\ removing \notin Supported
               /\ \A s \in Sites \ tainted : SiteInv(s)

- `FormInv` holds of all sites: what an operation has left to do is the end of the program of its
  kind, forward or undoing (`TodoOf`), the record it works towards differs from the one it read only
  in what its kind may change, and a deletion past its first step has the directory in `.trash`
  (`Archived`).
- `SiteInv(s)` says what the host has of a site that was not left to chance, by the number of steps
  that are left: `CreateAt`, `EditAt`, `StatusAt`, `PHPAt`, `LimitsAt`, `DeleteAt`, `ResetAt`, and
  `AtRest` when nothing is in flight. `FpmAt` and `ServedAt` say which running configurations may
  lag behind their files, and that an operation which let one lag has still to reload it.

`RuntimeInUseKept` is about all recorded sites, those left to chance too, so it has an invariant of
its own on top of `ProvInv`: `RunInv`, by which every recorded site that is not `revived` is on a
version that is installed and not being removed, and an operation that will record another version
was asked for a supported one, which is never removed. `Moves` is all it needs to know of a step.

Each operation has two lemmas for its own site (`CreateForward`, `CreateBackward`, ...) and one that
its rollback starts from a state the rollback can undo (`CreateFails`, ...). What a step does to the
other sites is the same for all: their files stay (`Untouched`) and what runs of them stays or
catches up with the files (`CatchesUp`); `RestKept`, `FlightKept` and `ResetKept` show that this
disturbs neither a site at rest nor one in flight. `HostFollowsRecord`, `SuspendedIsDown`,
`PoolsRun` are `AtRest` of a settled site; `RuntimesKept` is `RunInv`; `NothingForgotten`
needs `FormInv` only. `NoneIsNoEntry`: the absent entry is not a record, a file or a version.

**Databases and access** (`SiteServicesProofs`). The inductive invariant is

    ServicesInv == ServicesTypeOK /\ JobInv /\ RecordInv /\ ForwardInv /\ DatabaseInv /\ LoginInv

- `JobInv`: what a command has left to do is an end of its program or of one of its undo programs
  (`KeyTails`, `UndoTails`, ...). Every other conjunct speaks of a point in such a program.
- `RecordInv`: the logins of memory and file agree, and an access command's copy is the entry as
  it is now, because the fence lets no other command in.
- `DatabaseInv`: the grants of the entry and of the command's copy that are not `lost` work
  (`GrantsWork`), are to recorded users (`GrantsToUsers`) and to databases that exist
  (`RecordedExist`, but for the one a deletion has just dropped), and `CommandFacts` of each
  command: a copy is the entry until its first statement, `createUser`'s role has no grants (so
  that its rollback may drop it), a deletion drops its role only when no grant uses it. The entry
  in memory and the copy need invariants of their own since removals show in the store at once:
  `ClobberedAt` and `RemoveContains` say what `remove` leaves in the slice it was given.
- `ForwardInv`: what a login command has achieved so far, whatever was there before; it makes
  `Match` true when the save succeeds.
- `LoginInv`: a login no command holds matches the record (`Match`); of the one that is held,
  `Held` says which of key, block and sshd's copy are still, or again, as before the command, by
  the next step forwards and by what is left of the undoing (`ConfUndone`, `LoadedUndone`).

On top of it `ReachInv` carries the owner of the key file and the ACL entries: what a login command
has set so far (`ReachForward`), the entries of every login in force, and, for logins that no rollback
touched, the owner and the absence of entries without a login.

Each access step has its progress lemma (`KeyStepProgress`, `RevokeStepProgress`,
`DeleteStepProgress`, `UndoStepProgress`), `FailedIsUndone` shows that the undo program chosen for a
failing step starts where `Held` says, and `StatementAccess` goes through the statements.
`ServicesTypes`, `AccessWorks` and `LoginsFollowRecord` follow. Assumed: `SiteRecordAssumption`
(logins and databases are different things; the site's own login is not a label), `NoneIsNoJob` and `NoneIsNoKeyFile` (the absent entry is not a command or a file).
`remove` is written with the positions of the kept values instead of `SelectSeq`, about which the
prover could show nothing.

**Enrollment** (`EnrollmentProofs`). `EnrollInv` says of every generation directory how far its
writer has come, that the manifest names a generation whose writer was done with it, and that a
reader between two reads holds a certificate and a key that fit whatever renewal happened since: a
renewal keeps the key. A generation's certificate verifies against its bundle or is `bare`
(`WholePair`): nothing is assumed of the bundles Control sends. `EnrollmentTypes`, `ManifestIsWhole`, `HandshakesMatch` and the action
property `IdentityStaysUsable` follow. `NoneIsNoMaterial`: the absent file is not a certificate,
key, generation, writer or reader.

**Self-update** (`UpkeepProofs`). `UpdateInv` adds to the types and `ArmedMeansSwapped` that
whoever is about to arm the flag has replaced the binary under this process (`StagedMeansSwapped`);
without it neither `Arm` nor `WorkEnds` would preserve the property. `UpdateTypes` and
`ArmedSwapped` follow.

**Audit log** (`UpkeepProofs`). `TrailNeverBroken` and `TrailStaysBounded`, for every number of
rotations and every limit. In the middle of a rotation the files are still in order because the
renames go from the oldest down and leave exactly one gap at the index they have come to; the
invariant says where that gap may be, and that a file that was measured and is about to be written to
has room (`WriteFits`).

**Backup** (`BackupProofs`). `BackupInv` has the types with a finite bucket, and one conjunct per
part of a command. `ReadInv`: what a create has read was there while it ran or comes of a write or a
link put there meanwhile, what it has opened or is copying likewise (`ReadingInv`), and what it has not
read is in `todo`. `UploadInv`: once uploaded the archive stays unless it is below the floor and there
is no window. `PruneInv`: what prune is about to delete may go, also after the deletions before it.
`RestoreInv`: the files behind a restore's reader are as archived (`FileInv`), the databases behind it
are the dump merged over what they were and the one being replayed is on the way there
(`DatabaseInv`, `Rebuilt`), and the entries counted are the manifest, the parts behind and the one at
hand (`Counted`). `VerifyInv`: the archive last verified passed `inspectArchive`'s count of all its
entries; with `Counted` it follows that the running count of `applyArchive` does not stop it.
`SchemaInv`: a database's content is a set of tables. The step that needs an argument is
`FloorStays`: deleting an archive that has `keepArchives` newer ones takes the floor from under no
other name, because the archives newer than the deleted one are newer than all older names too.
`CompleteBackups`, `ExactRestores`, `VerifiedRestores` and the action property `RetentionHolds`
follow.

**Mail** (`MailProofs`). `AnsweredIsInForce` speaks only of commands that have been answered. The
inductive invariant is

    MailInv == MailTypeOK /\ OwnRequests /\ NoOrphans /\ RunsBegun /\ ActingKnown
               /\ OnTheWay /\ AnsweredIsInForce

- `OwnRequests`: runs and stray requests are at a request that their command makes (`Asks`), so that
  what they can change follows from the kind of the command.
- `RunsBegun`: a command with a run is running, or timed out when the run is late, and only runs are
  late; so no command is answered and still running.
- `ActingKnown`: whoever can still change the server, a run left behind or a stray request included,
  is in `others` of every command that was begun. Hence a request that reaches the server belongs to
  the command itself or to one it must not conflict with.
- `OnTheWay`, of runs that nobody contradicts: a `DeleteMailbox` that looks for the mailbox under
  the id of an older domain finds nothing only when there is nothing, and `CreateMailbox`'s password
  is still in force when the quota, its last request, is set.
- `NoOrphans`: a mailbox belongs to the domain that is there; with the domain gone `DeleteMailbox`
  may answer `absent`.

The argument is in three lemmas: `ServeEffect` (what each request changes), `ServeKeepsPromise` (a
request of the command itself or of one that does not contradict it breaks none of its promises)
and `SetDone` (a run's last request, once served, makes all promises true). `Ends` and `Advances`
carry them through the steps of a run. `MailTypes` and `AnswersInForce` follow. Assumed:
`MailAssumption` (the commands are mail commands) and `NoneIsNothing` (the absent id, mailbox or run
is not one).

Every invariant and every action property that a passing run checks is proved. Only model-checked:
liveness under fairness (`EveryCallReturns`, `EveryRunSettles`, `EveryJobFinishes`, `OutboxDrains`,
`RunsLatest`, `RetriesConverge`), which is out of the prover's reach.

## 5. What is not modelled

- Text: vhosts, pool files, payloads, log lines, error wording.
- Authentication, TLS and size limits of HTTP: pure I/O around the exchanges `Agent` models.
- The writer lock: all modules assume the one process it grants.
- `RestoreSite`, `ReserveSite`, `UpdateSite` of the capacity manager: nothing calls them.
- Files, cron, logs, TLS inspection: one file operation each, no protocol.
- Of mail, the inventory, which only reads; of backups, owners, paths and manifests of archives.
- Status, telemetry, inventory, TUI: observation and presentation.
- The components planned below.

## 6. Disagreements between the code and what it says

With a run that exhibits it: `update_interrupts` (`UpdateInterruptsNothing`: the exit for an update
kills a command that outlived its timeout).

Kept by the models without being contradicted by a line of the repository: a restore merges dumps, so
tables made since the archive survive it (`Merged`); an answer whose chain lacks the issuer is accepted,
and the next start refuses the identity (`bare`); tombstones past the limit make every later start
fatal (`RestartRefused`).

Stated in the modules as definitions the code does not keep, without a run of their own:
`ResultStore!FileWithinLimits` (a tombstone takes `commands.json` past the limit the next start
enforces), `Outbox!OutboxMirrorsFile` (the outbox rolls back a committed write),
`Executor!OvercommitFlagged` (a restored reservation overcommits without the degraded flag),
`Provisioner!HardeningConverges` (a retry never finishes a failed WordPress hardening).

Met while modelling, present in the models, without a run of their own: the fence of a deleted site
stays until a restart; `RestoreCapacity` has no caller; a result larger than the whole store leaves no tombstone; the result of
`site.app.admin-password` is cached; `applyDomains` and `Reset` do not reload Caddy; the provisioner
rolls the host back after a committed save; two sites can record one domain; `system.reset` overlaps
operations that outlived their timeout; a database creation's rollback drops a user that other
databases need; access rollbacks leave the key file with root as its owner and ACL entries behind;
an interrupted creation or deletion of a further login cannot be retried; site deletion does not ask
for further logins; the warning about an expired certificate at start is unreachable; a torn audit record
swallows the next one, and a rotation that fails half way drops a rotation early; creates know
nothing of the limits that restores insist on; a restore re-creates a deleted database without
recording it; with the clock set back, prune deletes the archive just made; a file that becomes a link between the
check and the open is archived through it; an audit file that cannot be measured is not rotated; a
runtime can be removed under a site whose deletion is then rolled back; a result larger than the outbox
is never reported, although its command ran; a revocation that stopped half way is refused by every
retry. Each is quoted, with both places, in `PROJECT.json`.

## 7. Plan

Done, in this order: the stores, the capacity manager, the executor and its contract, the poll loop,
the site provisioner, enrollment, self-update, databases and access, the audit log, backups, mail;
proofs for the stores, the executor and its refinement, the agent, the provisioner, databases and
access, enrollment, self-update, the audit log, backups and mail.

Next:
1. Site deletion and suspension against logins and databases: `Provisioner` and `SiteServices` on
   one record.
2. The PostgreSQL variants of the database statements, which create in two steps; the rate limiter's
   token bucket.
