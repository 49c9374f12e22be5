----------------------------- MODULE Provisioner -----------------------------
(***************************************************************************)
(* internal/site: the provisioner, its state store and the host it         *)
(* configures.                                                             *)
(*                                                                         *)
(* An operation is a list of host steps, each of which may fail; a failure *)
(* starts the operation's rollback, whose own failures the code ignores.   *)
(* Operations of different sites interleave step by step: the executor     *)
(* admits one mutator per site.  site reset and runtime.remove hold no     *)
(* site fence and interleave with all of them.  The process may die        *)
(* between any two steps.                                                  *)
(***************************************************************************)
EXTENDS Naturals, Sequences, FiniteSets, Durable

CONSTANTS
    Sites,          \* a site is named by its primary domain
    Aliases,        \* further domains
    Versions,       \* PHP versions of the catalog
    Supported,      \* those that new sites may use; the rest are deprecated
    Limits,         \* plan limits (Resources)
    DefaultLimits,
    MaxOps,         \* operations begun in a behaviour
    MaxFaults       \* failures and crashes in a behaviour

ASSUME ProvisionerAssumption ==
    /\ Sites \cap Aliases = {}
    /\ Supported \subseteq Versions
    /\ DefaultLimits \in Limits
    /\ None \notin Limits
    /\ MaxOps \in Nat
    /\ MaxFaults \in Nat

VARIABLES
    states,         \* FileStateStore.states
    sitesFile,      \* sites.json
    enabled,        \* sites-enabled/<domain>.caddy
    disabled,       \* sites-disabled/<domain>.caddy
    served,         \* the vhosts of the running Caddy
    pools,          \* /etc/php/<version>/fpm/pool.d/<user>.conf
    fpm,            \* the pools of the running php-fpm of each version
    users,          \* sites whose system user exists
    roots,          \* the directory of each site
    trash,          \* the latest directory of each site under .trash
    runtimes,       \* installed PHP versions
    jobs,           \* the operation in flight on each site
    reset,          \* the Reset in flight
    removing,       \* the version a RemoveRuntime in flight is about to remove
    ops,            \* operations begun
    faults,         \* failures so far
    tainted,        \* history: sites left to chance (see Overlapping, Fail)
    revived         \* history: sites recorded again on a runtime that is going

records == <<states, sitesFile>>
vhosts == <<enabled, disabled, served>>
php == <<pools, fpm, runtimes>>
host == <<users, roots, trash>>
hostVars == <<vhosts, php, host>>
control == <<jobs, reset, removing, ops, faults, tainted>>
vars == <<records, hostVars, control, revived>>

\* What a site's directory holds.
Contents == {"files", "wordpress"}

Domains == Sites \cup Aliases
Vhost == [domains: SUBSET Domains, app: BOOLEAN]
State == [status: {"active", "suspended"}, php: Versions, limits: Limits,
          domains: SUBSET Domains, app: BOOLEAN, attached: BOOLEAN]

\* caddyConfigFor: what of a site its vhost depends on.
caddyConfigFor(state) == [domains |-> state.domains, app |-> state.app]

\* Create's record of a new site.
NewState(s, v, l) ==
    [status |-> "active", php |-> v, limits |-> l, domains |-> {s},
     app |-> FALSE, attached |-> FALSE]

Ops == {"create", "domains", "install", "status", "php", "limits", "delete"}

HostSteps ==
    {"useradd", "mkdir", "activateVhost", "activatePool", "reloadCaddy",
     "reloadFpm", "reloadOldFpm", "save", "move", "removeOldPool", "archive",
     "removeVhost", "removePool", "forget", "userdel", "wp", "removeRoot",
     "restoreVhost", "restorePool", "moveBack", "unarchive", "saveOld",
     "clearVhosts", "clearPool"}

\* An operation in flight: `new` is the record it works towards, `old` the one
\* it read, `todo` the steps left, `undo` whether they are the rollback's.
Job == [op: Ops, new: State, old: State \cup {None}, todo: Seq(HostSteps),
        undo: BOOLEAN, vhost: Vhost \cup {None}, pool: Limits \cup {None}]

\* A Reset in flight: `snap` is the list it read, `site` the site it is
\* removing, `rest` those still to come.
NoReset == [site |-> None, rest |-> {}, todo |-> <<>>, failed |-> FALSE,
            snap |-> None]

\* The absent entry is none of what it stands for.
ASSUME NoneIsNoEntry ==
    /\ None \notin Sites /\ None \notin Versions /\ None \notin Contents
    /\ None \notin Vhost /\ None \notin State /\ None \notin Job

TypeOK ==
    /\ states \in [Sites -> State \cup {None}]
    /\ sitesFile \in [Sites -> State \cup {None}]
    /\ {enabled, disabled, served} \subseteq [Sites -> Vhost \cup {None}]
    /\ {pools, fpm} \subseteq [Versions -> [Sites -> Limits \cup {None}]]
    /\ {users, tainted, revived} \subseteq SUBSET Sites
    /\ {roots, trash} \subseteq [Sites -> Contents \cup {None}]
    /\ runtimes \subseteq Versions
    /\ jobs \in [Sites -> Job \cup {None}]
    /\ reset.site \in Sites \cup {None} /\ reset.rest \subseteq Sites
    /\ removing \in Versions \cup {None}
    /\ ops \in 0 .. MaxOps
    /\ faults \in 0 .. MaxFaults

Recorded == {s \in Sites : states[s] # None}

\* A node that has been in use: a site is absent, or was created on one of the
\* versions of the catalog and perhaps suspended since.  Databases and SFTP
\* access matter to Delete alone, so only suspended sites are given them.
Past(s) ==
    {st \in State : /\ st.limits = DefaultLimits /\ st.domains = {s} /\ ~st.app
                    /\ st.attached => st.status = "suspended"}

Init ==
    /\ states \in [Sites -> UNION {Past(s) : s \in Sites} \cup {None}]
    /\ \A s \in Sites : states[s] \in Past(s) \cup {None}
    /\ enabled = [s \in Sites |->
                    IF s \in Recorded /\ states[s].status = "active"
                    THEN caddyConfigFor(states[s]) ELSE None]
    /\ disabled = [s \in Sites |->
                    IF s \in Recorded /\ states[s].status = "suspended"
                    THEN caddyConfigFor(states[s]) ELSE None]
    /\ pools = [v \in Versions |-> [s \in Sites |->
                    IF s \in Recorded /\ states[s].php = v
                    THEN DefaultLimits ELSE None]]
    /\ users = Recorded
    /\ sitesFile = states
    /\ served = enabled
    /\ fpm = pools
    /\ roots = [s \in Sites |-> IF s \in users THEN "files" ELSE None]
    /\ trash = [s \in Sites |-> None]
    /\ runtimes = Versions
    /\ jobs = [s \in Sites |-> None]
    /\ reset = NoReset
    /\ removing = None
    /\ ops = 0
    /\ faults = 0
    /\ tainted = {}
    /\ revived = {}
-----------------------------------------------------------------------------
(* Operations begin: the reads, the checks and the early returns that      *)
(* come before the first step.                                             *)

\* The sites that the Reset in flight has still to finish.
Resetting == reset.rest \cup ({reset.site} \ {None})

\* The Reset overlaps an operation on a site it is to remove: what the two
\* leave behind depends on their order.
Overlapping == {s \in Resetting : jobs[s] # None}

Begin(s, op, new, todo) ==
    /\ jobs[s] = None
    /\ ops < MaxOps
    /\ ops' = ops + 1
    /\ jobs' = IF todo = <<>> THEN jobs ELSE [jobs EXCEPT ![s] =
          [op |-> op, new |-> new, old |-> states[s], todo |-> todo,
           undo |-> FALSE,
           vhost |-> IF states[s] = None THEN None
                     ELSE IF states[s].status = "suspended" THEN disabled[s]
                     ELSE enabled[s],
           pool |-> IF states[s] = None THEN None
                    ELSE pools[states[s].php][s]]]
    /\ UNCHANGED <<records, hostVars, reset, removing, faults>>
    /\ tainted' = tainted \cup Overlapping'

\* Deprecated versions keep their sites and get no new ones.
ValidateNewSite(v) == v \in Supported

\* The stat of siteRoot, caddyPath and phpPath; the state store is not asked.
Create(s, v, l) ==
    /\ ValidateNewSite(v)
    /\ roots[s] = None /\ enabled[s] = None /\ pools[v][s] = None
    /\ Begin(s, "create", NewState(s, v, l),
             <<"useradd", "mkdir", "activateVhost", "activatePool",
               "reloadCaddy", "reloadFpm", "save">>)

\* applyDomains reads the current vhost first and skips Caddy for a suspended
\* site.
applyDomains(new) ==
    IF new.status = "suspended"
    THEN <<"activateVhost", "save">>
    ELSE <<"activateVhost", "reloadCaddy", "save">>

VhostPresent(s) ==
    IF states[s].status = "suspended" THEN disabled[s] # None
    ELSE enabled[s] # None

AddDomain(s, d) ==
    /\ s \in Recorded
    /\ \A t \in Recorded : d \notin states[t].domains
    /\ VhostPresent(s)
    /\ LET new == [states[s] EXCEPT !.domains = @ \cup {d}]
       IN  Begin(s, "domains", new, applyDomains(new))

RemoveDomain(s, d) ==
    /\ s \in Recorded
    /\ d # s /\ d \in states[s].domains
    /\ VhostPresent(s)
    /\ LET new == [states[s] EXCEPT !.domains = @ \ {d}]
       IN  Begin(s, "domains", new, applyDomains(new))

\* ensureWordPressProfile saves the profile before it swaps the vhost, so that
\* a failed swap shows as drift.  A site recorded as wordpress is left alone.
AppInstall(s) ==
    /\ s \in Recorded
    /\ LET new == [states[s] EXCEPT !.app = TRUE]
           harden == <<"save">> \o applyDomains(new)
       IN  Begin(s, "install", new,
                 IF roots[s] # "wordpress" THEN <<"wp">> \o harden
                 ELSE IF ~states[s].app THEN harden
                 ELSE <<>>)

\* Mutant: Caddy is not told that the vhost moved.
setSiteStatusUnloaded(s, target) ==
    /\ s \in Recorded
    /\ states[s].status # target
    /\ Begin(s, "status", [states[s] EXCEPT !.status = target],
             <<"move", "save">>)

setSiteStatus(s, target) ==
    /\ s \in Recorded
    /\ states[s].status # target
    /\ Begin(s, "status", [states[s] EXCEPT !.status = target],
             <<"move", "reloadCaddy", "save">>)

SetPHPVersion(s, v) ==
    /\ s \in Recorded
    /\ ValidateNewSite(v) /\ v # states[s].php
    /\ pools[states[s].php][s] # None
    /\ Begin(s, "php", [states[s] EXCEPT !.php = v],
             <<"activatePool", "removeOldPool", "reloadOldFpm", "reloadFpm",
               "save">>)

SetResources(s, l) ==
    /\ s \in Recorded
    /\ l # states[s].limits
    /\ pools[states[s].php][s] # None
    /\ Begin(s, "limits", [states[s] EXCEPT !.limits = l],
             <<"activatePool", "reloadFpm", "save">>)

\* Mutant: the record goes before the directory is archived.
DeleteForgetsFirst(s) ==
    /\ s \in Recorded
    /\ states[s].status = "suspended"
    /\ ~states[s].attached
    /\ disabled[s] # None /\ pools[states[s].php][s] # None
    /\ Begin(s, "delete", states[s],
             <<"forget", "archive", "removeVhost", "removePool", "reloadFpm",
               "userdel">>)

\* The copies of the two configuration files in the recovery directory are
\* not modelled.
Delete(s) ==
    /\ s \in Recorded
    /\ states[s].status = "suspended"
    /\ ~states[s].attached
    /\ disabled[s] # None /\ pools[states[s].php][s] # None
    /\ Begin(s, "delete", states[s],
             <<"archive", "removeVhost", "removePool", "reloadFpm", "forget",
               "userdel">>)
-----------------------------------------------------------------------------
(* The host steps of the operation j of site s.                            *)

\* The vhost file an operation writes: in sites-disabled for a suspended site.
WriteVhost(s, j, vhost) ==
    /\ IF j.new.status = "suspended"
       THEN disabled' = [disabled EXCEPT ![s] = vhost] /\ UNCHANGED enabled
       ELSE enabled' = [enabled EXCEPT ![s] = vhost] /\ UNCHANGED disabled
    /\ UNCHANGED <<served, php, host>>

WritePool(s, v, limits) ==
    /\ pools' = [pools EXCEPT ![v][s] = limits]
    /\ UNCHANGED <<vhosts, fpm, runtimes, host>>

Users(set) ==
    /\ users' = set
    /\ UNCHANGED <<vhosts, php, roots, trash>>

Directories(root, dir, s) ==
    /\ roots' = [roots EXCEPT ![s] = root]
    /\ trash' = [trash EXCEPT ![s] = dir]
    /\ UNCHANGED <<vhosts, php, users>>

\* setSiteStatus renames the vhost from one directory to the other.
MoveVhost(s, toDisabled) ==
    /\ IF toDisabled
       THEN /\ disabled' = [disabled EXCEPT ![s] = enabled[s]]
            /\ enabled' = [enabled EXCEPT ![s] = None]
       ELSE /\ enabled' = [enabled EXCEPT ![s] = disabled[s]]
            /\ disabled' = [disabled EXCEPT ![s] = None]
    /\ UNCHANGED <<served, php, host>>

\* Caddy refuses a configuration in which one address has two sites, both in
\* `caddy validate` of the main file and in a reload; a reload that it accepts
\* picks up every file of sites-enabled, also those of operations in flight.
CaddyAccepts ==
    \A s, t \in Sites :
        s # t /\ enabled[s] # None /\ enabled[t] # None
            => enabled[s].domains \cap enabled[t].domains = {}

ReloadCaddy ==
    /\ served' = enabled
    /\ UNCHANGED <<enabled, disabled, php, host>>

ReloadFpm(v) ==
    /\ fpm' = [fpm EXCEPT ![v] = pools[v]]
    /\ UNCHANGED <<vhosts, pools, runtimes, host>>

\* What the host must refuse: a second user of a name, the removal of what is
\* missing, a runtime that is gone, a configuration Caddy does not accept.
Allowed(s, j, step) ==
    CASE step = "useradd" -> s \notin users
      [] step = "userdel" -> s \in users
      [] step \in {"archive", "wp"} -> roots[s] # None
      [] step = "unarchive" -> roots[s] = None /\ trash[s] # None
      [] step = "activateVhost" -> j.op = "install" => j.vhost # None
      [] step = "move" ->
           IF j.new.status = "suspended" THEN enabled[s] # None
           ELSE disabled[s] # None
      [] step = "moveBack" ->
           IF j.new.status = "suspended" THEN disabled[s] # None
           ELSE enabled[s] # None
      [] step = "reloadCaddy" -> CaddyAccepts
      [] step \in {"activatePool", "reloadFpm"} -> j.new.php \in runtimes
      [] step = "reloadOldFpm" -> j.old.php \in runtimes
      [] step = "removeVhost" ->
           IF j.new.status = "suspended" THEN disabled[s] # None
           ELSE enabled[s] # None
      [] step = "removePool" -> pools[j.new.php][s] # None
      [] step = "removeOldPool" -> pools[j.old.php][s] # None
      [] OTHER -> TRUE

\* The step succeeds.
HostStep(s, j, step) ==
    /\ Allowed(s, j, step)
    /\ \/ step = "useradd" /\ Users(users \cup {s})
       \/ step = "userdel" /\ Users(users \ {s})
       \/ step = "mkdir" /\ Directories("files", trash[s], s)
       \/ step = "wp" /\ Directories("wordpress", trash[s], s)
       \/ step = "archive" /\ Directories(None, roots[s], s)
       \/ step = "unarchive" /\ Directories(trash[s], None, s)
       \/ step = "removeRoot" /\ Directories(None, trash[s], s)
       \/ step = "activateVhost" /\ WriteVhost(s, j, caddyConfigFor(j.new))
       \/ step = "restoreVhost" /\ WriteVhost(s, j, j.vhost)
       \/ step = "removeVhost" /\ WriteVhost(s, j, None)
       \/ step = "move" /\ MoveVhost(s, j.new.status = "suspended")
       \/ step = "moveBack" /\ MoveVhost(s, j.new.status # "suspended")
       \/ step = "reloadCaddy" /\ ReloadCaddy
       \/ step = "activatePool" /\ WritePool(s, j.new.php, j.new.limits)
       \/ step = "removePool" /\ WritePool(s, j.new.php, None)
       \/ step = "removeOldPool" /\ WritePool(s, j.old.php, None)
       \/ step = "restorePool" /\ WritePool(s, j.old.php, j.pool)
       \/ step = "reloadFpm" /\ ReloadFpm(j.new.php)
       \/ step = "reloadOldFpm" /\ ReloadFpm(j.old.php)

\* FileStateStore.Save and Delete, with their own rollback in memory.
StoreSteps == {"save", "saveOld", "forget"}

StoreStep(s, j, step, outcome) ==
    /\ step \in StoreSteps
    /\ LET new == [states EXCEPT ![s] =
                      IF step = "forget" THEN None
                      ELSE IF step = "saveOld" THEN j.old ELSE j.new]
       IN  /\ sitesFile' = AtomicWrite(sitesFile, new, outcome)
           /\ states' = MemoryAfter(states, new, outcome)
    /\ UNCHANGED hostVars

-----------------------------------------------------------------------------
(* What each operation does when one of its steps fails.                   *)

\* Mutant: the rollback misses that the pool file is in place already.
undoCreateLeavesPool(step) ==
    CASE step = "useradd" -> <<>>
      [] step \in {"mkdir", "activateVhost"} -> <<"userdel", "removeRoot">>
      [] OTHER -> <<"removeVhost", "userdel", "removeRoot">>

undoCreate(step) ==
    CASE step = "useradd" -> <<>>
      [] step \in {"mkdir", "activateVhost"} -> <<"userdel", "removeRoot">>
      [] step = "activatePool" -> <<"removeVhost", "userdel", "removeRoot">>
      [] OTHER -> <<"removeVhost", "removePool", "reloadCaddy", "reloadFpm",
                    "userdel", "removeRoot">>

\* applyDomains puts the file back and does not reload Caddy.  The first Save
\* of ensureWordPressProfile has nothing to undo.
undoDomains(step, last) ==
    IF step = "reloadCaddy" \/ (step = "save" /\ last)
    THEN <<"restoreVhost">> ELSE <<>>

undoStatus(step) ==
    IF step = "move" THEN <<>> ELSE <<"moveBack", "reloadCaddy">>

undoPHP(step) ==
    IF step = "activatePool" THEN <<>>
    ELSE <<"removePool", "restorePool", "reloadOldFpm", "reloadFpm">>

\* Mutant: the previous pool is put back and php-fpm is not told.
undoLimitsSilently(step) ==
    IF step = "activatePool" THEN <<>> ELSE <<"restorePool">>

undoLimits(step) ==
    IF step = "activatePool" THEN <<>> ELSE <<"restorePool", "reloadFpm">>

undoDelete(step) ==
    IF step = "archive" THEN <<>>
    ELSE <<"unarchive", "restoreVhost", "restorePool", "saveOld", "reloadFpm">>

Rollback(j) ==
    LET step == Head(j.todo) IN
    CASE j.op = "create" -> undoCreate(step)
      [] j.op \in {"domains", "install"} -> undoDomains(step, Len(j.todo) = 1)
      [] j.op = "status" -> undoStatus(step)
      [] j.op = "php" -> undoPHP(step)
      [] j.op = "limits" -> undoLimits(step)
      [] j.op = "delete" -> undoDelete(step)
-----------------------------------------------------------------------------
(* An operation advances.                                                  *)

Continue(s, todo, undo) ==
    jobs' = [jobs EXCEPT ![s] =
               IF todo = <<>> THEN None
               ELSE [jobs[s] EXCEPT !.todo = todo, !.undo = undo]]

\* An error of a step: one the host may not raise counts as a fault.
HostError(s, j, step) ==
    /\ step \notin StoreSteps
    /\ IF Allowed(s, j, step)
       THEN faults < MaxFaults /\ faults' = faults + 1
       ELSE UNCHANGED faults
    /\ UNCHANGED <<records, hostVars>>

StoreError(s, j, step, outcome) ==
    /\ StoreStep(s, j, step, outcome)
    /\ faults < MaxFaults /\ faults' = faults + 1

Step(s) ==
    /\ jobs[s] # None
    /\ LET j == jobs[s] IN
       /\ \/ HostStep(s, j, Head(j.todo)) /\ UNCHANGED records
          \/ StoreStep(s, j, Head(j.todo), "ok")
       /\ Continue(s, Tail(j.todo), j.undo)
    /\ UNCHANGED <<reset, removing, ops, faults, tainted>>

\* A step fails and the operation rolls back.
Fail(s) ==
    /\ jobs[s] # None /\ ~jobs[s].undo
    /\ LET j == jobs[s] IN
       /\ HostError(s, j, Head(j.todo)) \/ StoreError(s, j, Head(j.todo), "failed")
       /\ Continue(s, Rollback(j), TRUE)
    /\ UNCHANGED <<reset, removing, ops, tainted>>

\* A Save or Delete reports an error although the file has the change: the
\* host is rolled back and the record stays.
FailCommitted(s) ==
    /\ jobs[s] # None /\ ~jobs[s].undo
    /\ StoreError(s, jobs[s], Head(jobs[s].todo), "committed")
    /\ Continue(s, Rollback(jobs[s]), TRUE)
    /\ tainted' = tainted \cup {s}
    /\ UNCHANGED <<reset, removing, ops>>

\* A step of a rollback fails; the error is dropped.
FailUndo(s) ==
    /\ jobs[s] # None /\ jobs[s].undo
    /\ LET j == jobs[s] IN
       /\ \/ HostError(s, j, Head(j.todo))
          \/ \E o \in {"failed", "committed"} : StoreError(s, j, Head(j.todo), o)
       /\ Continue(s, Tail(j.todo), TRUE)
    /\ tainted' = tainted \cup {s}
    /\ UNCHANGED <<reset, removing, ops>>
-----------------------------------------------------------------------------
(* Operations that hold no site fence.                                     *)

\* forceRemove of a listed site, with the record Reset read.
forceRemove(r, s) ==
    [r EXCEPT !.site = s, !.rest = @ \ {s}, !.failed = FALSE,
              !.todo = <<"clearVhosts", "clearPool", "reloadFpm", "userdel",
                         "removeRoot", "forget">>]

\* Reset takes the sites of its list one after the other, in any order.
ResetNext(r) ==
    \/ r.rest = {} /\ reset' = NoReset
    \/ \E s \in r.rest : reset' = forceRemove(r, s)

Reset ==
    /\ reset = NoReset
    /\ ops < MaxOps /\ ops' = ops + 1
    /\ ResetNext([NoReset EXCEPT !.rest = Recorded, !.snap = states])
    /\ UNCHANGED <<records, hostVars, jobs, removing, faults>>
    /\ tainted' = tainted \cup Overlapping'

\* The reset as an operation on the site it is at.
ResetJob == [op |-> "reset", new |-> reset.snap[reset.site],
             old |-> reset.snap[reset.site]]

ResetContinue(failed) ==
    IF Len(reset.todo) > 1
    THEN reset' = [reset EXCEPT !.todo = Tail(@), !.failed = failed]
    ELSE ResetNext(reset)

\* Files that are missing already do not count as errors.
ResetStep ==
    /\ reset.site # None
    /\ LET s == reset.site
           step == Head(reset.todo)
       IN  \/ /\ step = "clearVhosts"
              /\ enabled' = [enabled EXCEPT ![s] = None]
              /\ disabled' = [disabled EXCEPT ![s] = None]
              /\ UNCHANGED <<served, php, host, records>>
           \/ /\ step = "clearPool"
              /\ WritePool(s, reset.snap[s].php, None)
              /\ UNCHANGED records
           \/ HostStep(s, ResetJob, step) /\ UNCHANGED records
           \/ ~reset.failed /\ StoreStep(s, ResetJob, step, "ok")
           \/ reset.failed /\ step = "forget" /\ UNCHANGED <<records, hostVars>>
    /\ ResetContinue(reset.failed)
    /\ UNCHANGED <<jobs, removing, ops, faults, tainted>>

\* Errors are collected and the record is kept.
ResetFail ==
    /\ reset.site # None
    /\ LET step == Head(reset.todo) IN
       \/ HostError(reset.site, ResetJob, step)
       \/ /\ ~reset.failed
          /\ \E o \in {"failed", "committed"} :
                StoreError(reset.site, ResetJob, step, o)
    /\ ResetContinue(TRUE)
    /\ tainted' = tainted \cup {reset.site}
    /\ UNCHANGED <<jobs, removing, ops>>

\* Mutant: the runtime's users are not looked up.
RemoveRuntimeUnasked(v) ==
    /\ removing = None
    /\ v \notin Supported /\ v \in runtimes
    /\ ops < MaxOps /\ ops' = ops + 1
    /\ removing' = v
    /\ UNCHANGED <<records, hostVars, jobs, reset, faults, tainted>>

RemoveRuntime(v) ==
    /\ removing = None
    /\ v \notin Supported /\ v \in runtimes
    /\ \A s \in Recorded : states[s].php # v
    /\ ops < MaxOps /\ ops' = ops + 1
    /\ removing' = v
    /\ UNCHANGED <<records, hostVars, jobs, reset, faults, tainted>>

\* apt-get remove stops the version's php-fpm; its pool files stay.
AptRemove ==
    /\ removing # None
    /\ runtimes' = runtimes \ {removing}
    /\ fpm' = [fpm EXCEPT ![removing] = [s \in Sites |-> None]]
    /\ removing' = None
    /\ UNCHANGED <<records, vhosts, pools, host, jobs, reset, ops, faults, tainted>>

AptFails ==
    /\ removing # None
    /\ faults < MaxFaults /\ faults' = faults + 1
    /\ removing' = None
    /\ UNCHANGED <<records, hostVars, jobs, reset, ops, tainted>>

\* The process dies between two steps and starts again from sites.json.
Crash ==
    /\ faults < MaxFaults /\ faults' = faults + 1
    /\ states' = sitesFile
    /\ tainted' = tainted \cup {s \in Sites : jobs[s] # None}
                    \cup ({reset.site} \ {None})
    /\ jobs' = [s \in Sites |-> None]
    /\ reset' = NoReset
    /\ removing' = None
    /\ UNCHANGED <<sitesFile, hostVars, ops>>

\* History: a site whose record was gone is recorded again, on a version that
\* RemoveRuntime has found unused meanwhile.
Revive ==
    revived' = {s \in Sites : states'[s] # None /\
                   \/ s \in revived
                   \/ states[s] = None /\ states'[s].php \notin runtimes \ {removing}}

HostNext ==
    \/ \E s \in Sites :
          \/ \E v \in Versions, l \in Limits : Create(s, v, l)
          \/ \E d \in Domains : AddDomain(s, d) \/ RemoveDomain(s, d)
          \/ AppInstall(s)
          \/ \E target \in {"active", "suspended"} : setSiteStatus(s, target)
          \/ \E v \in Versions : SetPHPVersion(s, v)
          \/ \E l \in Limits : SetResources(s, l)
          \/ Delete(s)
          \/ Step(s) \/ Fail(s) \/ FailCommitted(s) \/ FailUndo(s)
    \/ Reset \/ ResetStep \/ ResetFail
    \/ \E v \in Versions : RemoveRuntime(v)
    \/ AptRemove \/ AptFails
    \/ Crash

Next == HostNext /\ Revive

Spec == Init /\ [][Next]_vars
-----------------------------------------------------------------------------
(* A site is settled when nothing is in flight on it and nothing was left  *)
(* to chance: no crash, no failed rollback step, no Save that reported an  *)
(* error after it took effect, no overlap with an unfenced operation.      *)
Settled == {s \in Sites : jobs[s] = None} \ (Resetting \cup tainted)

\* Every operation is all or nothing on the host: however a step failed, once
\* the operation is over the files, the user and the directory of the site are
\* those its record describes, and nothing of a site without a record is left
\* (the rollbacks of Create, applyDomains, setSiteStatus, SetPHPVersion,
\* SetResources and Delete).  Only the hardened template may be missing: a
\* failed swap of site.app.install leaves it as drift.
HostMatchesRecord ==
    \A s \in Settled :
        IF states[s] = None
        THEN /\ enabled[s] = None /\ disabled[s] = None /\ roots[s] = None
             /\ s \notin users
             /\ \A v \in Versions : pools[v][s] = None
        ELSE LET st == states[s]
                 file == IF st.status = "suspended" THEN disabled[s] ELSE enabled[s]
                 other == IF st.status = "suspended" THEN enabled[s] ELSE disabled[s]
             IN  /\ file # None /\ other = None
                 /\ file.domains = st.domains /\ (file.app => st.app)
                 /\ roots[s] # None /\ s \in users
                 /\ \A v \in Versions :
                      pools[v][s] = IF v = st.php THEN st.limits ELSE None

\* A suspended site is not served, whatever reloads other sites' operations
\* and rollbacks ran meanwhile (setSiteStatus).
SuspendedNotServed ==
    \A s \in Settled \cap Recorded :
        states[s].status = "suspended" => served[s] = None

\* Every running php-fpm has the pools of its directory: each rollback that
\* touches a pool file tells php-fpm, also when another site's reload had
\* picked the file up before it was taken back.
RunningPoolsMatch ==
    \A s \in Settled, v \in runtimes : fpm[v][s] = pools[v][s]

\* A runtime that a site is recorded on stays installed, whatever operations,
\* rollbacks, resets and crashes come between RemoveRuntime's look at the sites
\* and the end of apt-get, and whether or not the site was left to chance.  The
\* look protects no site that is without a record at that moment: Delete, which
\* drops the record before userdel, puts it back when userdel fails, and a step
\* of an operation saves a site that Reset has just dropped.  These sites, and
\* no others, the code leaves on a runtime that is gone.
RuntimeInUseKept ==
    \A s \in Recorded \ revived : states[s].php \in runtimes

\* A record is dropped only when the directory is in .trash, or by Reset: a
\* crash in the middle of Delete loses no content.
ForgottenIsArchived ==
    [][\A s \in Sites : states[s] # None /\ states'[s] = None =>
         trash'[s] # None \/ reset.site = s]_vars

\* "drift + retry converge it": once site.app.install is retried on a site
\* that has WordPress and nothing else goes wrong, the vhost is the hardened one.
HardeningConverges ==
    [][\A s \in Settled :
         AppInstall(s) /\ roots[s] = "wordpress" /\ states[s].app =>
           (IF states[s].status = "suspended" THEN disabled ELSE enabled)[s].app]_vars
=============================================================================
