-------------------------- MODULE ProvisionerProofs --------------------------
(***************************************************************************)
(* The provisioner, for every number of sites, domains, PHP versions,      *)
(* plans, operations and faults.                                           *)
(***************************************************************************)
EXTENDS Provisioner, SequenceTheorems, TLAPS

\* t is the end of the program p that is left, from some step of it on.
TodoOf(p, t) ==
    /\ Len(t) \in 1 .. Len(p)
    /\ \A i \in 1 .. Len(t) : t[i] = p[Len(p) - Len(t) + i]

createSteps == <<"useradd", "mkdir", "activateVhost", "activatePool", "reloadCaddy",
                 "reloadFpm", "save">>
uncreateSteps == <<"removeVhost", "removePool", "reloadCaddy", "reloadFpm", "userdel",
                   "removeRoot">>
uncreateShort == <<"removeVhost", "userdel", "removeRoot">>
editSteps == <<"wp", "save", "activateVhost", "reloadCaddy", "save">>
editQuietly == <<"wp", "save", "activateVhost", "save">>
uneditSteps == <<"restoreVhost">>
statusSteps == <<"move", "reloadCaddy", "save">>
unstatusSteps == <<"moveBack", "reloadCaddy">>
phpSteps == <<"activatePool", "removeOldPool", "reloadOldFpm", "reloadFpm", "save">>
unphpSteps == <<"removePool", "restorePool", "reloadOldFpm", "reloadFpm">>
limitsSteps == <<"activatePool", "reloadFpm", "save">>
unlimitsSteps == <<"restorePool", "reloadFpm">>
deleteSteps == <<"archive", "removeVhost", "removePool", "reloadFpm", "forget", "userdel">>
undeleteSteps == <<"unarchive", "restoreVhost", "restorePool", "saveOld", "reloadFpm">>
resetSteps == <<"clearVhosts", "clearPool", "reloadFpm", "userdel", "removeRoot", "forget">>

\* The programs, and how the record an operation works towards differs from
\* the one it read.
JobForm(j) ==
    LET r == Len(j.todo) IN
    /\ j.op # "create" => j.old # None
    /\ j.op = "create" =>
          /\ j.new.php \in Supported /\ j.new.status = "active"
          /\ ~j.undo => TodoOf(createSteps, j.todo)
          /\ j.undo => TodoOf(uncreateSteps, j.todo) \/ TodoOf(uncreateShort, j.todo)
    /\ j.op \in {"domains", "install"} =>
          /\ j.new.status = j.old.status /\ j.new.php = j.old.php /\ j.new.limits = j.old.limits
          /\ j.op = "domains" => j.new.app = j.old.app
          /\ j.op = "install" => j.new.app /\ j.new.domains = j.old.domains
          /\ ~j.undo /\ j.new.status = "active" => TodoOf(editSteps, j.todo)
          /\ ~j.undo /\ j.new.status = "suspended" => TodoOf(editQuietly, j.todo)
          /\ ~j.undo /\ j.op = "domains" => r <= (IF j.new.status = "active" THEN 3 ELSE 2)
          /\ j.undo => TodoOf(uneditSteps, j.todo)
    /\ j.op = "status" =>
          /\ j.new.status # j.old.status /\ j.new.php = j.old.php /\ j.new.limits = j.old.limits
          /\ j.new.domains = j.old.domains /\ j.new.app = j.old.app
          /\ TodoOf(IF j.undo THEN unstatusSteps ELSE statusSteps, j.todo)
    /\ j.op = "php" =>
          /\ j.new.status = j.old.status /\ j.new.php # j.old.php /\ j.new.limits = j.old.limits
          /\ j.new.domains = j.old.domains /\ j.new.app = j.old.app /\ j.new.php \in Supported
          /\ TodoOf(IF j.undo THEN unphpSteps ELSE phpSteps, j.todo)
    /\ j.op = "limits" =>
          /\ j.new.status = j.old.status /\ j.new.php = j.old.php
          /\ j.new.domains = j.old.domains /\ j.new.app = j.old.app
          /\ TodoOf(IF j.undo THEN unlimitsSteps ELSE limitsSteps, j.todo)
    /\ j.op = "delete" =>
          /\ j.new = j.old /\ j.new.status = "suspended"
          /\ TodoOf(IF j.undo THEN undeleteSteps ELSE deleteSteps, j.todo)

\* Past its first step a deletion has the directory in .trash.
Archived(s, j) == j.op = "delete" /\ ~j.undo /\ Len(j.todo) <= 5 => trash[s] # None

ResetRecord ==
    [site: Sites \cup {None}, rest: SUBSET Sites, todo: Seq(HostSteps), failed: BOOLEAN,
     snap: [Sites -> State \cup {None}]]

ResetForm ==
    reset # NoReset =>
        /\ reset \in ResetRecord /\ reset.site \in Sites /\ reset.site \notin reset.rest
        /\ \A s \in Resetting : reset.snap[s] # None
        /\ TodoOf(resetSteps, reset.todo)

FormInv ==
    /\ sitesFile = states
    /\ \A s \in Sites : jobs[s] # None => JobForm(jobs[s]) /\ Archived(s, jobs[s])
    /\ ResetForm
    /\ \A s \in Resetting : jobs[s] # None => s \in tainted
-----------------------------------------------------------------------------
(* What the host has of a site.                                            *)

File(s, status) == IF status = "suspended" THEN disabled[s] ELSE enabled[s]
Other(s, status) == IF status = "suspended" THEN enabled[s] ELSE disabled[s]

Fits(vhost, st) == vhost # None /\ vhost.domains = st.domains /\ (vhost.app => st.app)

VhostsAre(s, status, vhost) == File(s, status) = vhost /\ Other(s, status) = None
VhostsFit(s, st) == Fits(File(s, st.status), st) /\ Other(s, st.status) = None
PoolsAre(s, v, limits) == \A w \in Versions : pools[w][s] = IF w = v THEN limits ELSE None
Lives(s) == roots[s] # None /\ s \in users

Nothing(s) ==
    /\ enabled[s] = None /\ disabled[s] = None /\ roots[s] = None /\ s \notin users
    /\ \A v \in Versions : pools[v][s] = None

Matches(s, st) ==
    IF st = None THEN Nothing(s)
    ELSE VhostsFit(s, st) /\ Lives(s) /\ PoolsAre(s, st.php, st.limits)

CreateAt(s, j, r) ==
    /\ j.old = None /\ states[s] = None /\ disabled[s] = None
    /\ ~j.undo =>
          /\ s \in users <=> r < 7
          /\ roots[s] # None <=> r < 6
          /\ enabled[s] = IF r < 5 THEN caddyConfigFor(j.new) ELSE None
          /\ PoolsAre(s, j.new.php, IF r < 4 THEN j.new.limits ELSE None)
          /\ j.new.domains = {s}
    /\ j.undo =>
          /\ s \in users <=> r >= 2
          /\ enabled[s] # None <=> Head(j.todo) = "removeVhost"
          /\ r <= 4 => PoolsAre(s, j.new.php, None)
          /\ \A v \in Versions \ {j.new.php} : pools[v][s] = None

EditAt(s, j, r) ==
    LET activated == r <= (IF j.new.status = "active" THEN 2 ELSE 1) IN
    /\ states[s] = j.old \/ (j.op = "install" /\ states[s] = j.new)
    /\ Lives(s) /\ PoolsAre(s, j.old.php, j.old.limits) /\ Fits(j.vhost, j.old)
    /\ j.undo => Other(s, j.old.status) = None
    /\ ~j.undo => VhostsAre(s, j.old.status, IF activated THEN caddyConfigFor(j.new) ELSE j.vhost)

StatusAt(s, j, r) ==
    LET moved == IF j.undo THEN r = 2 ELSE r < 3 IN
    /\ states[s] = j.old
    /\ Lives(s) /\ PoolsAre(s, j.old.php, j.old.limits) /\ Fits(j.vhost, j.old)
    /\ VhostsAre(s, IF moved THEN j.new.status ELSE j.old.status, j.vhost)

PHPAt(s, j, r) ==
    /\ states[s] = j.old
    /\ Lives(s) /\ VhostsFit(s, j.old) /\ j.pool = j.old.limits
    /\ \A v \in Versions \ {j.old.php, j.new.php} : pools[v][s] = None
    /\ ~j.undo =>
          /\ pools[j.new.php][s] = IF r < 5 THEN j.new.limits ELSE None
          /\ pools[j.old.php][s] = IF r < 4 THEN None ELSE j.old.limits
    /\ j.undo =>
          /\ r < 4 => pools[j.new.php][s] = None
          /\ r < 3 => pools[j.old.php][s] = j.old.limits

LimitsAt(s, j, r) ==
    /\ states[s] = j.old
    /\ Lives(s) /\ VhostsFit(s, j.old) /\ j.pool = j.old.limits
    /\ \A v \in Versions \ {j.old.php} : pools[v][s] = None
    /\ ~j.undo => pools[j.old.php][s] = IF r < 3 THEN j.new.limits ELSE j.old.limits
    /\ j.undo /\ r < 2 => pools[j.old.php][s] = j.old.limits

DeleteAt(s, j, r) ==
    /\ enabled[s] = None /\ Fits(j.vhost, j.old) /\ j.pool = j.old.limits /\ s \in users
    /\ \A v \in Versions \ {j.old.php} : pools[v][s] = None
    /\ ~j.undo =>
          /\ roots[s] # None <=> r = 6
          /\ disabled[s] = IF r >= 5 THEN j.vhost ELSE None
          /\ pools[j.old.php][s] = IF r >= 4 THEN j.old.limits ELSE None
          /\ states[s] = IF r >= 2 THEN j.old ELSE None
    /\ j.undo =>
          /\ roots[s] # None <=> r < 5
          /\ r < 4 => disabled[s] = j.vhost
          /\ r < 3 => pools[j.old.php][s] = j.old.limits
          /\ states[s] = j.old \/ (r > 1 /\ states[s] = None)

JobAt(s, j, r) ==
    /\ j.op = "create" => CreateAt(s, j, r)
    /\ j.op \in {"domains", "install"} => EditAt(s, j, r)
    /\ j.op = "status" => StatusAt(s, j, r)
    /\ j.op = "php" => PHPAt(s, j, r)
    /\ j.op = "limits" => LimitsAt(s, j, r)
    /\ j.op = "delete" => DeleteAt(s, j, r)

ResetAt(s, r) ==
    LET st == states[s] IN
    /\ ~reset.failed /\ st # None /\ reset.snap[s] = st
    /\ IF r = 6 THEN VhostsFit(s, st) ELSE enabled[s] = None /\ disabled[s] = None
    /\ PoolsAre(s, st.php, IF r >= 5 THEN st.limits ELSE None)
    /\ s \in users <=> r > 2
    /\ roots[s] # None <=> r > 1
    /\ \A v \in runtimes : fpm[v][s] = pools[v][s] \/ (v = st.php /\ r = 4)
-----------------------------------------------------------------------------
(* What runs.                                                              *)

\* An operation that has changed a pool of version v has still to tell php-fpm.
Pending(j, v, r) ==
    \/ j.op = "create" /\ ~j.undo /\ v = j.new.php /\ r \in 2 .. 3
    \/ j.op = "create" /\ j.undo /\ v = j.new.php /\ (r >= 4 \/ Head(j.todo) = "reloadFpm")
    \/ j.op = "php" /\ ~j.undo /\ ((v = j.new.php /\ r \in 2 .. 4) \/ (v = j.old.php /\ r = 3))
    \/ j.op = "php" /\ j.undo /\ (v = j.new.php \/ (v = j.old.php /\ r >= 2))
    \/ j.op = "limits" /\ v = j.new.php /\ (j.undo \/ r = 2)
    \/ j.op = "delete" /\ v = j.new.php /\ (j.undo \/ r = 3)

FpmAt(s, j, r) == \A v \in runtimes : fpm[v][s] = pools[v][s] \/ Pending(j, v, r)

\* A site without a vhost in sites-enabled is not served, but while its
\* operation has still to tell Caddy.
ServedAt(s, j, r) ==
    enabled[s] = None /\ (states[s] # None \/ j.op = "delete") =>
        served[s] = None \/ (j.op = "status" /\ (j.undo \/ r = 2))

InFlight(s, j, r) == JobAt(s, j, r) /\ FpmAt(s, j, r) /\ ServedAt(s, j, r)

AtRest(s) ==
    /\ Matches(s, states[s])
    /\ \A v \in runtimes : fpm[v][s] = pools[v][s]
    /\ enabled[s] = None /\ states[s] # None => served[s] = None

SiteInv(s) ==
    IF jobs[s] # None THEN InFlight(s, jobs[s], Len(jobs[s].todo))
    ELSE IF s = reset.site THEN ResetAt(s, Len(reset.todo))
    ELSE /\ AtRest(s)
         /\ s \in reset.rest => states[s] # None /\ reset.snap[s] = states[s]

\* The type invariant, but for the history variable `revived`.
SystemTypes ==
    /\ states \in [Sites -> State \cup {None}]
    /\ sitesFile \in [Sites -> State \cup {None}]
    /\ {enabled, disabled, served} \subseteq [Sites -> Vhost \cup {None}]
    /\ {pools, fpm} \subseteq [Versions -> [Sites -> Limits \cup {None}]]
    /\ {users, tainted} \subseteq SUBSET Sites
    /\ {roots, trash} \subseteq [Sites -> Contents \cup {None}]
    /\ runtimes \subseteq Versions
    /\ jobs \in [Sites -> Job \cup {None}]
    /\ reset.site \in Sites \cup {None} /\ reset.rest \subseteq Sites
    /\ removing \in Versions \cup {None}
    /\ ops \in 0 .. MaxOps
    /\ faults \in 0 .. MaxFaults

ProvInv ==
    /\ SystemTypes /\ FormInv
    /\ Supported \subseteq runtimes /\ removing \notin Supported
    /\ \A s \in Sites \ tainted : SiteInv(s)
-----------------------------------------------------------------------------
(* Sequences and programs.                                                 *)

LEMMA TodoHead ==
    ASSUME NEW p, NEW n \in Nat, Len(p) = n, NEW t \in Seq(HostSteps), TodoOf(p, t)
    PROVE  Len(t) \in 1 .. n /\ Head(t) = p[n - Len(t) + 1] /\ t[1] = Head(t)
BY DEF TodoOf

LEMMA TailLen ==
    ASSUME NEW t \in Seq(HostSteps), Len(t) >= 1
    PROVE  /\ Tail(t) \in Seq(HostSteps) /\ Len(Tail(t)) = Len(t) - 1
           /\ Len(t) = 1 <=> Tail(t) = <<>>
           /\ \A i \in 1 .. Len(Tail(t)) : Tail(t)[i] = t[i + 1]
<1>1. t # <<>>
  BY EmptySeq
<1>2. /\ Tail(t) \in Seq(HostSteps) /\ Len(Tail(t)) = Len(t) - 1
      /\ \A i \in 1 .. Len(Tail(t)) : Tail(t)[i] = t[i + 1]
  BY <1>1, HeadTailProperties
<1>3. Tail(t) = <<>> => Len(Tail(t)) = 0
  BY EmptySeq
<1>4. Tail(t) # <<>> => Len(Tail(t)) \in Nat \ {0}
  BY <1>2, EmptySeq
<1>5. Len(t) \in Nat
  BY LenProperties
<1>. QED
  BY <1>2, <1>3, <1>4, <1>5

LEMMA TodoTail ==
    ASSUME NEW p, Len(p) \in Nat, NEW t \in Seq(HostSteps), TodoOf(p, t), Len(t) # 1
    PROVE  TodoOf(p, Tail(t))
<1>0. PICK n \in Nat : n = Len(p)
  OBVIOUS
<1>1. PICK m \in 1 .. n : m = Len(t)
  BY <1>0 DEF TodoOf
<1>2. Len(Tail(t)) = m - 1 /\ m - 1 \in 1 .. n
  <2>1. Len(Tail(t)) = m - 1
    BY <1>1, TailLen
  <2>. QED
    BY <1>1, <2>1
<1>3. ASSUME NEW i \in 1 .. (m - 1)
      PROVE  Tail(t)[i] = p[n - (m - 1) + i]
  <2>1. Tail(t)[i] = t[i + 1]
    BY <1>1, <1>2, <1>3, TailLen
  <2>2. t[i + 1] = p[n - m + (i + 1)]
    BY <1>0, <1>1, <1>3 DEF TodoOf
  <2>3. n - m + (i + 1) = n - (m - 1) + i
    BY <1>1, <1>3
  <2>. QED
    BY <2>1, <2>2, <2>3
<1>. QED
  BY <1>0, <1>2, <1>3 DEF TodoOf

LEMMA TodoWhole ==
    ASSUME NEW p, Len(p) \in Nat \ {0}
    PROVE  TodoOf(p, p)
<1>1. PICK n \in Nat \ {0} : n = Len(p)
  OBVIOUS
<1>2. \A i \in 1 .. n : p[i] = p[n - n + i]
  BY <1>1
<1>. QED
  BY <1>1, <1>2 DEF TodoOf

\* The step that is next, by what is left of each program.
LEMMA CreateStepsNext ==
    ASSUME NEW t \in Seq(HostSteps), NEW r, Len(t) = r, TodoOf(createSteps, t)
    PROVE  /\ r \in 1 .. 7
           /\ r = 7 => Head(t) = "useradd"
           /\ r = 6 => Head(t) = "mkdir"
           /\ r = 5 => Head(t) = "activateVhost"
           /\ r = 4 => Head(t) = "activatePool"
           /\ r = 3 => Head(t) = "reloadCaddy"
           /\ r = 2 => Head(t) = "reloadFpm"
           /\ r = 1 => Head(t) = "save"
<1>1. Len(createSteps) = 7
  BY DEF createSteps
<1>2. r \in 1 .. 7 /\ Head(t) = createSteps[7 - r + 1]
  BY <1>1, TodoHead
<1>. QED
  BY <1>2 DEF createSteps

LEMMA UncreateStepsNext ==
    ASSUME NEW t \in Seq(HostSteps), NEW r, Len(t) = r, TodoOf(uncreateSteps, t)
    PROVE  /\ r \in 1 .. 6
           /\ r = 6 => Head(t) = "removeVhost"
           /\ r = 5 => Head(t) = "removePool"
           /\ r = 4 => Head(t) = "reloadCaddy"
           /\ r = 3 => Head(t) = "reloadFpm"
           /\ r = 2 => Head(t) = "userdel"
           /\ r = 1 => Head(t) = "removeRoot"
<1>1. Len(uncreateSteps) = 6
  BY DEF uncreateSteps
<1>2. r \in 1 .. 6 /\ Head(t) = uncreateSteps[6 - r + 1]
  BY <1>1, TodoHead
<1>. QED
  BY <1>2 DEF uncreateSteps

LEMMA UncreateShortNext ==
    ASSUME NEW t \in Seq(HostSteps), NEW r, Len(t) = r, TodoOf(uncreateShort, t)
    PROVE  /\ r \in 1 .. 3
           /\ r = 3 => Head(t) = "removeVhost"
           /\ r = 2 => Head(t) = "userdel"
           /\ r = 1 => Head(t) = "removeRoot"
<1>1. Len(uncreateShort) = 3
  BY DEF uncreateShort
<1>2. r \in 1 .. 3 /\ Head(t) = uncreateShort[3 - r + 1]
  BY <1>1, TodoHead
<1>. QED
  BY <1>2 DEF uncreateShort

LEMMA EditStepsNext ==
    ASSUME NEW t \in Seq(HostSteps), NEW r, Len(t) = r, TodoOf(editSteps, t)
    PROVE  /\ r \in 1 .. 5
           /\ r = 5 => Head(t) = "wp"
           /\ r = 4 => Head(t) = "save"
           /\ r = 3 => Head(t) = "activateVhost"
           /\ r = 2 => Head(t) = "reloadCaddy"
           /\ r = 1 => Head(t) = "save"
<1>1. Len(editSteps) = 5
  BY DEF editSteps
<1>2. r \in 1 .. 5 /\ Head(t) = editSteps[5 - r + 1]
  BY <1>1, TodoHead
<1>. QED
  BY <1>2 DEF editSteps

LEMMA EditQuietlyNext ==
    ASSUME NEW t \in Seq(HostSteps), NEW r, Len(t) = r, TodoOf(editQuietly, t)
    PROVE  /\ r \in 1 .. 4
           /\ r = 4 => Head(t) = "wp"
           /\ r = 3 => Head(t) = "save"
           /\ r = 2 => Head(t) = "activateVhost"
           /\ r = 1 => Head(t) = "save"
<1>1. Len(editQuietly) = 4
  BY DEF editQuietly
<1>2. r \in 1 .. 4 /\ Head(t) = editQuietly[4 - r + 1]
  BY <1>1, TodoHead
<1>. QED
  BY <1>2 DEF editQuietly

LEMMA UneditStepsNext ==
    ASSUME NEW t \in Seq(HostSteps), NEW r, Len(t) = r, TodoOf(uneditSteps, t)
    PROVE  /\ r \in 1 .. 1
           /\ r = 1 => Head(t) = "restoreVhost"
<1>1. Len(uneditSteps) = 1
  BY DEF uneditSteps
<1>2. r \in 1 .. 1 /\ Head(t) = uneditSteps[1 - r + 1]
  BY <1>1, TodoHead
<1>. QED
  BY <1>2 DEF uneditSteps

LEMMA StatusStepsNext ==
    ASSUME NEW t \in Seq(HostSteps), NEW r, Len(t) = r, TodoOf(statusSteps, t)
    PROVE  /\ r \in 1 .. 3
           /\ r = 3 => Head(t) = "move"
           /\ r = 2 => Head(t) = "reloadCaddy"
           /\ r = 1 => Head(t) = "save"
<1>1. Len(statusSteps) = 3
  BY DEF statusSteps
<1>2. r \in 1 .. 3 /\ Head(t) = statusSteps[3 - r + 1]
  BY <1>1, TodoHead
<1>. QED
  BY <1>2 DEF statusSteps

LEMMA UnstatusStepsNext ==
    ASSUME NEW t \in Seq(HostSteps), NEW r, Len(t) = r, TodoOf(unstatusSteps, t)
    PROVE  /\ r \in 1 .. 2
           /\ r = 2 => Head(t) = "moveBack"
           /\ r = 1 => Head(t) = "reloadCaddy"
<1>1. Len(unstatusSteps) = 2
  BY DEF unstatusSteps
<1>2. r \in 1 .. 2 /\ Head(t) = unstatusSteps[2 - r + 1]
  BY <1>1, TodoHead
<1>. QED
  BY <1>2 DEF unstatusSteps

LEMMA PhpStepsNext ==
    ASSUME NEW t \in Seq(HostSteps), NEW r, Len(t) = r, TodoOf(phpSteps, t)
    PROVE  /\ r \in 1 .. 5
           /\ r = 5 => Head(t) = "activatePool"
           /\ r = 4 => Head(t) = "removeOldPool"
           /\ r = 3 => Head(t) = "reloadOldFpm"
           /\ r = 2 => Head(t) = "reloadFpm"
           /\ r = 1 => Head(t) = "save"
<1>1. Len(phpSteps) = 5
  BY DEF phpSteps
<1>2. r \in 1 .. 5 /\ Head(t) = phpSteps[5 - r + 1]
  BY <1>1, TodoHead
<1>. QED
  BY <1>2 DEF phpSteps

LEMMA UnphpStepsNext ==
    ASSUME NEW t \in Seq(HostSteps), NEW r, Len(t) = r, TodoOf(unphpSteps, t)
    PROVE  /\ r \in 1 .. 4
           /\ r = 4 => Head(t) = "removePool"
           /\ r = 3 => Head(t) = "restorePool"
           /\ r = 2 => Head(t) = "reloadOldFpm"
           /\ r = 1 => Head(t) = "reloadFpm"
<1>1. Len(unphpSteps) = 4
  BY DEF unphpSteps
<1>2. r \in 1 .. 4 /\ Head(t) = unphpSteps[4 - r + 1]
  BY <1>1, TodoHead
<1>. QED
  BY <1>2 DEF unphpSteps

LEMMA LimitsStepsNext ==
    ASSUME NEW t \in Seq(HostSteps), NEW r, Len(t) = r, TodoOf(limitsSteps, t)
    PROVE  /\ r \in 1 .. 3
           /\ r = 3 => Head(t) = "activatePool"
           /\ r = 2 => Head(t) = "reloadFpm"
           /\ r = 1 => Head(t) = "save"
<1>1. Len(limitsSteps) = 3
  BY DEF limitsSteps
<1>2. r \in 1 .. 3 /\ Head(t) = limitsSteps[3 - r + 1]
  BY <1>1, TodoHead
<1>. QED
  BY <1>2 DEF limitsSteps

LEMMA UnlimitsStepsNext ==
    ASSUME NEW t \in Seq(HostSteps), NEW r, Len(t) = r, TodoOf(unlimitsSteps, t)
    PROVE  /\ r \in 1 .. 2
           /\ r = 2 => Head(t) = "restorePool"
           /\ r = 1 => Head(t) = "reloadFpm"
<1>1. Len(unlimitsSteps) = 2
  BY DEF unlimitsSteps
<1>2. r \in 1 .. 2 /\ Head(t) = unlimitsSteps[2 - r + 1]
  BY <1>1, TodoHead
<1>. QED
  BY <1>2 DEF unlimitsSteps

LEMMA DeleteStepsNext ==
    ASSUME NEW t \in Seq(HostSteps), NEW r, Len(t) = r, TodoOf(deleteSteps, t)
    PROVE  /\ r \in 1 .. 6
           /\ r = 6 => Head(t) = "archive"
           /\ r = 5 => Head(t) = "removeVhost"
           /\ r = 4 => Head(t) = "removePool"
           /\ r = 3 => Head(t) = "reloadFpm"
           /\ r = 2 => Head(t) = "forget"
           /\ r = 1 => Head(t) = "userdel"
<1>1. Len(deleteSteps) = 6
  BY DEF deleteSteps
<1>2. r \in 1 .. 6 /\ Head(t) = deleteSteps[6 - r + 1]
  BY <1>1, TodoHead
<1>. QED
  BY <1>2 DEF deleteSteps

LEMMA UndeleteStepsNext ==
    ASSUME NEW t \in Seq(HostSteps), NEW r, Len(t) = r, TodoOf(undeleteSteps, t)
    PROVE  /\ r \in 1 .. 5
           /\ r = 5 => Head(t) = "unarchive"
           /\ r = 4 => Head(t) = "restoreVhost"
           /\ r = 3 => Head(t) = "restorePool"
           /\ r = 2 => Head(t) = "saveOld"
           /\ r = 1 => Head(t) = "reloadFpm"
<1>1. Len(undeleteSteps) = 5
  BY DEF undeleteSteps
<1>2. r \in 1 .. 5 /\ Head(t) = undeleteSteps[5 - r + 1]
  BY <1>1, TodoHead
<1>. QED
  BY <1>2 DEF undeleteSteps

LEMMA ResetStepsNext ==
    ASSUME NEW t \in Seq(HostSteps), NEW r, Len(t) = r, TodoOf(resetSteps, t)
    PROVE  /\ r \in 1 .. 6
           /\ r = 6 => Head(t) = "clearVhosts"
           /\ r = 5 => Head(t) = "clearPool"
           /\ r = 4 => Head(t) = "reloadFpm"
           /\ r = 3 => Head(t) = "userdel"
           /\ r = 2 => Head(t) = "removeRoot"
           /\ r = 1 => Head(t) = "forget"
<1>1. Len(resetSteps) = 6
  BY DEF resetSteps
<1>2. r \in 1 .. 6 /\ Head(t) = resetSteps[6 - r + 1]
  BY <1>1, TodoHead
<1>. QED
  BY <1>2 DEF resetSteps

-----------------------------------------------------------------------------
(* The host steps.                                                         *)

\* What a step of the host does, one by one.
LEMMA HostEffect ==
    ASSUME NEW s, NEW j, NEW step, HostStep(s, j, step)
    PROVE  /\ step = "useradd" => Users(users \cup {s})
           /\ step = "userdel" => Users(users \ {s})
           /\ step = "mkdir" => Directories("files", trash[s], s)
           /\ step = "wp" => Directories("wordpress", trash[s], s)
           /\ step = "archive" => Directories(None, roots[s], s) /\ roots[s] # None
           /\ step = "unarchive" => Directories(trash[s], None, s) /\ trash[s] # None
           /\ step = "removeRoot" => Directories(None, trash[s], s)
           /\ step = "activateVhost" => WriteVhost(s, j, caddyConfigFor(j.new))
           /\ step = "restoreVhost" => WriteVhost(s, j, j.vhost)
           /\ step = "removeVhost" => WriteVhost(s, j, None)
           /\ step = "move" => MoveVhost(s, j.new.status = "suspended")
           /\ step = "moveBack" => MoveVhost(s, j.new.status # "suspended")
           /\ step = "reloadCaddy" => ReloadCaddy
           /\ step = "activatePool" => WritePool(s, j.new.php, j.new.limits)
           /\ step = "removePool" => WritePool(s, j.new.php, None)
           /\ step = "removeOldPool" => WritePool(s, j.old.php, None)
           /\ step = "restorePool" => WritePool(s, j.old.php, j.pool)
           /\ step = "reloadFpm" => ReloadFpm(j.new.php)
           /\ step = "reloadOldFpm" => ReloadFpm(j.old.php)
           /\ step \notin StoreSteps
BY DEF HostStep, Allowed, StoreSteps

\* A step changes the files of its own site; other sites' running
\* configuration may catch up with their files.
Untouched(t) ==
    /\ enabled'[t] = enabled[t] /\ disabled'[t] = disabled[t]
    /\ roots'[t] = roots[t] /\ trash'[t] = trash[t] /\ (t \in users' <=> t \in users)
    /\ \A v \in Versions : pools'[v][t] = pools[v][t]

CatchesUp(t) ==
    /\ served'[t] \in {served[t], enabled[t]}
    /\ runtimes' \subseteq runtimes
    /\ \A v \in runtimes' : fpm'[v][t] \in {fpm[v][t], pools[v][t]}

HostTypes ==
    /\ {enabled, disabled, served} \subseteq [Sites -> Vhost \cup {None}]
    /\ {pools, fpm} \subseteq [Versions -> [Sites -> Limits \cup {None}]]
    /\ users \subseteq Sites
    /\ {roots, trash} \subseteq [Sites -> Contents \cup {None}]
    /\ runtimes \subseteq Versions

LEMMA PoolWritten ==
    ASSUME HostTypes, NEW s \in Sites, NEW v, NEW limits \in Limits \cup {None}, WritePool(s, v, limits)
    PROVE  /\ HostTypes'
           /\ \A w \in Versions, t \in Sites :
                 pools'[w][t] = IF w = v /\ t = s THEN limits ELSE pools[w][t]
           /\ UNCHANGED <<vhosts, fpm, runtimes, host>>
<1>1. pools' = [pools EXCEPT ![v][s] = limits] /\ UNCHANGED <<vhosts, fpm, runtimes, host>>
  BY DEF WritePool
<1>2. pools \in [Versions -> [Sites -> Limits \cup {None}]]
  BY DEF HostTypes
<1>3. pools' \in [Versions -> [Sites -> Limits \cup {None}]]
  BY <1>1, <1>2
<1>4. \A w \in Versions, t \in Sites :
         pools'[w][t] = IF w = v /\ t = s THEN limits ELSE pools[w][t]
  BY <1>1, <1>2
<1>. QED
  BY <1>1, <1>3, <1>4 DEF HostTypes, vhosts, host
-----------------------------------------------------------------------------
(* One step of an operation on its own site, program by program.           *)

\* The next step of job j succeeds.
Acts(s, j) ==
    \/ HostStep(s, j, Head(j.todo)) /\ UNCHANGED records
    \/ StoreStep(s, j, Head(j.todo), "ok")

\* The job k is j with other steps left.
Same(k, j, todo, undo) ==
    /\ k.op = j.op /\ k.new = j.new /\ k.old = j.old /\ k.vhost = j.vhost /\ k.pool = j.pool
    /\ k.todo = todo /\ k.undo = undo

SiteTypes == HostTypes /\ states \in [Sites -> State \cup {None}] /\ sitesFile = states

\* A save or a removal of the record leaves the host alone.
LEMMA StoreEffect ==
    ASSUME SiteTypes, NEW s \in Sites, NEW j, NEW step, StoreStep(s, j, step, "ok")
    PROVE  /\ UNCHANGED hostVars /\ sitesFile' = states'
           /\ \A t \in Sites \ {s} : states'[t] = states[t]
           /\ step = "save" => states'[s] = j.new
           /\ step = "saveOld" => states'[s] = j.old
           /\ step = "forget" => states'[s] = None
           /\ step \in StoreSteps
BY DEF StoreStep, AtomicWrite, MemoryAfter, SiteTypes, StoreSteps

LEMMA ActsKind ==
    ASSUME NEW s, NEW j, Acts(s, j)
    PROVE  IF Head(j.todo) \in StoreSteps
           THEN StoreStep(s, j, Head(j.todo), "ok")
           ELSE HostStep(s, j, Head(j.todo)) /\ UNCHANGED records
BY HostEffect DEF Acts, StoreStep

\* A record saved or dropped, seen from its site.
LEMMA ActsStore ==
    ASSUME SiteTypes, NEW s \in Sites, NEW j, Acts(s, j)
    PROVE  /\ Head(j.todo) = "save" => UNCHANGED hostVars /\ states'[s] = j.new
           /\ Head(j.todo) = "saveOld" => UNCHANGED hostVars /\ states'[s] = j.old
           /\ Head(j.todo) = "forget" => UNCHANGED hostVars /\ states'[s] = None
BY ActsKind, StoreEffect DEF StoreSteps

LEMMA CreateForward ==
    ASSUME SiteTypes, NEW s \in Sites, NEW j \in Job, JobForm(j), j.op = "create", ~j.undo,
           NEW r, Len(j.todo) = r, InFlight(s, j, r), Acts(s, j),
           NEW k \in Job, r # 1 => Same(k, j, Tail(j.todo), j.undo)
    PROVE  IF r = 1 THEN AtRest(s)' ELSE InFlight(s, k, r - 1)'
<1>1. /\ j.todo \in Seq(HostSteps) /\ TodoOf(createSteps, j.todo)
      /\ j.new \in State /\ j.new # None /\ j.new.php \in Versions /\ j.new.limits \in Limits
      /\ j.new.status = "active" /\ CreateAt(s, j, r) /\ FpmAt(s, j, r)
  BY NoneIsNoEntry DEF Job, JobForm, InFlight, JobAt, State
<1>2. /\ r \in 1 .. 7
      /\ r = 7 => Head(j.todo) = "useradd"
      /\ r = 6 => Head(j.todo) = "mkdir"
      /\ r = 5 => Head(j.todo) = "activateVhost"
      /\ r = 4 => Head(j.todo) = "activatePool"
      /\ r = 3 => Head(j.todo) = "reloadCaddy"
      /\ r = 2 => Head(j.todo) = "reloadFpm"
      /\ r = 1 => Head(j.todo) = "save"
  BY <1>1, CreateStepsNext
<1>3. HostTypes /\ (r # 1 => HostStep(s, j, Head(j.todo)) /\ UNCHANGED records)
  BY <1>2, ActsKind DEF StoreSteps, SiteTypes
<1>. USE DEF InFlight, JobAt, CreateAt, FpmAt, ServedAt, PoolsAre, Pending, Same, records
<1>4. CASE r = 7
  <2>1. Users(users \cup {s})
    BY <1>2, <1>3, <1>4, HostEffect
  <2>. QED
    BY <1>1, <1>3, <1>4, <2>1 DEF Users, vhosts, php
<1>5. CASE r = 6
  <2>1. Directories("files", trash[s], s)
    BY <1>2, <1>3, <1>5, HostEffect
  <2>2. roots'[s] = "files" /\ "files" # None
    BY <1>3, <2>1, NoneIsNoEntry DEF Directories, HostTypes, Contents
  <2>. QED
    BY <1>1, <1>3, <1>5, <2>1, <2>2 DEF Directories, vhosts, php
<1>6. CASE r = 5
  <2>1. WriteVhost(s, j, caddyConfigFor(j.new))
    BY <1>2, <1>3, <1>6, HostEffect
  <2>2. enabled'[s] = caddyConfigFor(j.new) /\ UNCHANGED <<disabled, served, php, host>>
    BY <1>1, <1>3, <2>1 DEF WriteVhost, HostTypes
  <2>. QED
    BY <1>1, <1>3, <1>6, <2>2 DEF php, host
<1>7. CASE r = 4
  <2>1. WritePool(s, j.new.php, j.new.limits)
    BY <1>2, <1>3, <1>7, HostEffect
  <2>. QED
    BY <1>1, <1>3, <1>7, <2>1, PoolWritten DEF vhosts, host, HostTypes
<1>8. CASE r = 3
  <2>1. ReloadCaddy
    BY <1>2, <1>3, <1>8, HostEffect
  <2>. QED
    BY <1>1, <1>3, <1>8, <2>1 DEF ReloadCaddy, php, host
<1>9. CASE r = 2
  <2>1. ReloadFpm(j.new.php)
    BY <1>2, <1>3, <1>9, HostEffect
  <2>. QED
    BY <1>1, <1>3, <1>9, <2>1 DEF ReloadFpm, vhosts, host, HostTypes
<1>10. CASE r = 1
  <2>1. UNCHANGED hostVars /\ states'[s] = j.new
    BY <1>2, <1>10, ActsStore
  <2>2. caddyConfigFor(j.new) # None
    BY <1>1, NoneIsNoEntry DEF caddyConfigFor, State, Vhost
  <2>. QED
    BY <1>1, <1>3, <1>10, <2>1, <2>2
    DEF AtRest, Matches, VhostsFit, Fits, File, Other, Lives, caddyConfigFor, hostVars, vhosts, php, host
<1>. QED
  BY <1>2, <1>4, <1>5, <1>6, <1>7, <1>8, <1>9, <1>10

LEMMA CreateBackward ==
    ASSUME SiteTypes, NEW s \in Sites, NEW j \in Job, JobForm(j), j.op = "create", j.undo,
           NEW r, Len(j.todo) = r, InFlight(s, j, r), Acts(s, j),
           NEW k \in Job, r # 1 => Same(k, j, Tail(j.todo), j.undo)
    PROVE  IF r = 1 THEN AtRest(s)' ELSE InFlight(s, k, r - 1)'
<1>1. /\ j.todo \in Seq(HostSteps)
      /\ TodoOf(uncreateSteps, j.todo) \/ TodoOf(uncreateShort, j.todo)
      /\ j.new \in State /\ j.new.php \in Versions
      /\ j.new.status = "active" /\ CreateAt(s, j, r) /\ FpmAt(s, j, r)
  BY DEF Job, JobForm, InFlight, JobAt, State
<1>2. /\ r \in 1 .. 6
      /\ r = 6 => Head(j.todo) = "removeVhost"
      /\ r = 5 => Head(j.todo) = "removePool"
      /\ r = 4 => Head(j.todo) = "reloadCaddy"
      /\ r = 3 => Head(j.todo) \in {"reloadFpm", "removeVhost"}
      /\ r = 2 => Head(j.todo) = "userdel"
      /\ r = 1 => Head(j.todo) = "removeRoot"
  BY <1>1, UncreateStepsNext, UncreateShortNext
<1>3. /\ r # 1 /\ r # 4 => Head(Tail(j.todo)) \notin {"removeVhost", "reloadFpm"}
      /\ r = 4 => Head(Tail(j.todo)) = "reloadFpm"
  <2>1. ASSUME r # 1 PROVE Tail(j.todo) \in Seq(HostSteps) /\ Len(Tail(j.todo)) = r - 1
    BY <1>1, <1>2, <2>1, TailLen
  <2>2. Len(uncreateSteps) = 6 /\ Len(uncreateShort) = 3
    BY DEF uncreateSteps, uncreateShort
  <2>3. ASSUME r # 1, TodoOf(uncreateSteps, j.todo)
        PROVE  /\ r - 1 = 5 => Head(Tail(j.todo)) = "removePool"
               /\ r - 1 = 4 => Head(Tail(j.todo)) = "reloadCaddy"
               /\ r - 1 = 3 => Head(Tail(j.todo)) = "reloadFpm"
               /\ r - 1 = 2 => Head(Tail(j.todo)) = "userdel"
               /\ r - 1 = 1 => Head(Tail(j.todo)) = "removeRoot"
    <3>0. Len(uncreateSteps) \in Nat /\ Len(j.todo) # 1
      BY <2>2, <2>3
    <3>1. TodoOf(uncreateSteps, Tail(j.todo))
      BY <1>1, <2>3, <3>0, TodoTail
    <3>2. PICK q : q = Len(Tail(j.todo)) /\ q = r - 1
      BY <2>1, <2>3
    <3>. QED
      BY <2>1, <2>3, <3>1, <3>2, UncreateStepsNext
  <2>4. ASSUME r # 1, TodoOf(uncreateShort, j.todo)
        PROVE  /\ r \in 1 .. 3
               /\ r - 1 = 2 => Head(Tail(j.todo)) = "userdel"
               /\ r - 1 = 1 => Head(Tail(j.todo)) = "removeRoot"
    <3>0. Len(uncreateShort) \in Nat /\ Len(j.todo) # 1
      BY <2>2, <2>4
    <3>1. TodoOf(uncreateShort, Tail(j.todo)) /\ r \in 1 .. 3
      BY <1>1, <2>4, <3>0, TodoTail, UncreateShortNext
    <3>2. PICK q : q = Len(Tail(j.todo)) /\ q = r - 1
      BY <2>1, <2>4
    <3>. QED
      BY <2>1, <2>4, <3>1, <3>2, UncreateShortNext
  <2>. QED
    BY <1>1, <1>2, <2>3, <2>4
<1>4. HostTypes /\ HostStep(s, j, Head(j.todo)) /\ UNCHANGED records
  BY <1>2, ActsKind DEF StoreSteps, SiteTypes
<1>5. Head(j.todo) = "removeVhost" => enabled'[s] = None /\ UNCHANGED <<disabled, served, php, host>>
  <2>1. Head(j.todo) = "removeVhost" => WriteVhost(s, j, None)
    BY <1>4, HostEffect
  <2>. QED
    BY <1>1, <1>4, <2>1 DEF WriteVhost, HostTypes
<1>6. r # 1 => k.todo = Tail(j.todo) /\ k.op = "create" /\ k.undo /\ k.new = j.new /\ k.old = j.old
  BY DEF Same
<1>. USE DEF InFlight, JobAt, CreateAt, FpmAt, ServedAt, PoolsAre, Pending, records
<1>7. CASE r = 6
  <2>1. Head(k.todo) \notin {"removeVhost", "reloadFpm"} /\ Head(j.todo) = "removeVhost"
    BY <1>2, <1>3, <1>6, <1>7
  <2>. QED
    BY <1>1, <1>4, <1>5, <1>6, <1>7, <2>1 DEF php, host
<1>8. CASE r = 5
  <2>1. WritePool(s, j.new.php, None)
    BY <1>2, <1>4, <1>8, HostEffect
  <2>2. Head(k.todo) \notin {"removeVhost", "reloadFpm"} /\ Head(j.todo) = "removePool"
    BY <1>2, <1>3, <1>6, <1>8
  <2>. QED
    BY <1>1, <1>4, <1>6, <1>8, <2>1, <2>2, PoolWritten DEF vhosts, host, HostTypes
<1>9. CASE r = 4
  <2>1. ReloadCaddy
    BY <1>2, <1>4, <1>9, HostEffect, ZenonT(40)
  <2>2. Head(k.todo) = "reloadFpm" /\ Head(j.todo) = "reloadCaddy"
    BY <1>2, <1>3, <1>6, <1>9
  <2>. QED
    <3>1. CreateAt(s, k, 3)'
      BY <1>1, <1>4, <1>6, <1>9, <2>1, <2>2 DEF ReloadCaddy, php, host
    <3>2. FpmAt(s, k, 3)'
      BY <1>1, <1>6, <1>9, <2>1, <2>2 DEF ReloadCaddy, php
    <3>. QED
      BY <1>1, <1>6, <1>9, <3>1, <3>2
<1>10. CASE r = 3
  <2>. Head(k.todo) \notin {"removeVhost", "reloadFpm"}
    <3>1. r # 1 /\ r # 4
      BY <1>10
    <3>. QED
      BY <1>3, <1>6, <3>1
  <2>1. CASE Head(j.todo) = "removeVhost"
    BY <1>1, <1>4, <1>5, <1>6, <1>10, <2>1 DEF php, host
  <2>2. CASE Head(j.todo) = "reloadFpm"
    <3>1. ReloadFpm(j.new.php)
      BY <1>4, <2>2, HostEffect
    <3>. QED
      BY <1>1, <1>4, <1>6, <1>10, <2>2, <3>1 DEF ReloadFpm, vhosts, host, HostTypes
  <2>. QED
    BY <1>2, <1>10, <2>1, <2>2
<1>11. CASE r = 2
  <2>1. Users(users \ {s})
    BY <1>2, <1>4, <1>11, HostEffect, ZenonT(40)
  <2>2. Head(k.todo) \notin {"removeVhost", "reloadFpm"} /\ Head(j.todo) = "userdel"
    BY <1>2, <1>3, <1>6, <1>11
  <2>. QED
    BY <1>1, <1>4, <1>6, <1>11, <2>1, <2>2 DEF Users, vhosts, php
<1>12. CASE r = 1
  <2>1. Directories(None, trash[s], s) /\ Head(j.todo) = "removeRoot"
    BY <1>2, <1>4, <1>12, HostEffect
  <2>2. roots'[s] = None /\ UNCHANGED <<vhosts, php, users>>
    BY <1>4, <2>1 DEF Directories, HostTypes
  <2>. QED
    BY <1>1, <1>4, <1>12, <2>1, <2>2 DEF AtRest, Matches, Nothing, vhosts, php
<1>. QED
  BY <1>2, <1>7, <1>8, <1>9, <1>10, <1>11, <1>12

LEMMA EditForward ==
    ASSUME SiteTypes, NEW s \in Sites, NEW j \in Job, JobForm(j), j.op \in {"domains", "install"}, ~j.undo,
           NEW r, Len(j.todo) = r, InFlight(s, j, r), Acts(s, j),
           NEW k \in Job, r # 1 => Same(k, j, Tail(j.todo), j.undo)
    PROVE  IF r = 1 THEN AtRest(s)' ELSE InFlight(s, k, r - 1)'
<1>1. /\ j.todo \in Seq(HostSteps) /\ j.new \in State /\ j.old \in State /\ j.new # None /\ j.old # None
      /\ j.new.status = j.old.status /\ j.new.php = j.old.php /\ j.new.limits = j.old.limits
      /\ j.new.status \in {"active", "suspended"}
      /\ j.op = "domains" => j.new.app = j.old.app
      /\ j.op = "install" => j.new.app /\ j.new.domains = j.old.domains
      /\ EditAt(s, j, r) /\ FpmAt(s, j, r) /\ ServedAt(s, j, r)
  BY NoneIsNoEntry DEF Job, JobForm, InFlight, JobAt, State
<1>2. PICK last \in {1, 2} : last = IF j.new.status = "active" THEN 2 ELSE 1
  OBVIOUS
<1>3. /\ r \in 1 .. 5
      /\ r > last + 2 => Head(j.todo) = "wp"
      /\ r = last + 2 => Head(j.todo) = "save" /\ j.op = "install"
      /\ r = last + 1 => Head(j.todo) = "activateVhost"
      /\ r = last /\ r # 1 => Head(j.todo) = "reloadCaddy"
      /\ r = 1 => Head(j.todo) = "save"
  <2>1. CASE j.new.status = "active"
    <3>1. TodoOf(editSteps, j.todo) /\ (j.op = "domains" => r <= 3)
      BY <2>1 DEF JobForm
    <3>2. last = 2
      BY <1>2, <2>1
    <3>. QED
      BY <1>1, <3>1, <3>2, EditStepsNext
  <2>2. CASE j.new.status = "suspended"
    <3>1. TodoOf(editQuietly, j.todo) /\ (j.op = "domains" => r <= 2)
      BY <2>2 DEF JobForm
    <3>2. last = 1
      BY <1>2, <2>2
    <3>. QED
      BY <1>1, <3>1, <3>2, EditQuietlyNext
  <2>. QED
    BY <1>1, <2>1, <2>2
<1>4. HostTypes /\ (Head(j.todo) # "save" => HostStep(s, j, Head(j.todo)) /\ UNCHANGED records)
  <2>1. Head(j.todo) \in {"wp", "save", "activateVhost", "reloadCaddy"}
    BY <1>2, <1>3
  <2>. QED
    BY <2>1, ActsKind DEF StoreSteps, SiteTypes
<1>5. /\ states[s] = j.old \/ (j.op = "install" /\ states[s] = j.new)
      /\ Lives(s) /\ PoolsAre(s, j.old.php, j.old.limits) /\ Fits(j.vhost, j.old)
      /\ Other(s, j.old.status) = None
      /\ File(s, j.old.status) = IF r <= last THEN caddyConfigFor(j.new) ELSE j.vhost
  BY <1>1, <1>2 DEF EditAt, VhostsAre
<1>6. caddyConfigFor(j.new) # None /\ j.vhost # None
  BY <1>1, <1>5, NoneIsNoEntry DEF caddyConfigFor, State, Vhost, Fits
<1>7. \A v \in runtimes : fpm[v][s] = pools[v][s]
  BY <1>1 DEF FpmAt, Pending
<1>8. ASSUME r # 1, UNCHANGED <<pools, fpm, runtimes, users>>, roots'[s] # None,
             Other(s, j.old.status)' = None,
             File(s, j.old.status)' = IF r - 1 <= last THEN caddyConfigFor(j.new) ELSE j.vhost,
             states'[s] = j.old \/ (j.op = "install" /\ states'[s] = j.new),
             ServedAt(s, k, r - 1)'
      PROVE  InFlight(s, k, r - 1)'
  <2>1. EditAt(s, k, r - 1)'
    BY <1>1, <1>2, <1>5, <1>8 DEF EditAt, Same, VhostsAre, Lives, PoolsAre, Fits
  <2>2. FpmAt(s, k, r - 1)'
    BY <1>7, <1>8 DEF FpmAt
  <2>. QED
    BY <1>8, <2>1, <2>2 DEF InFlight, JobAt, Same
<1>9. CASE r > last + 2
  <2>1. Directories("wordpress", trash[s], s) /\ UNCHANGED records
    BY <1>3, <1>4, <1>9, HostEffect
  <2>2. roots'[s] # None /\ UNCHANGED <<vhosts, php, users, records>>
    BY <1>4, <2>1, NoneIsNoEntry DEF Directories, HostTypes, Contents
  <2>3. r # 1 /\ ~(r <= last) /\ ~(r - 1 <= last) /\ r # 3 /\ j.op # "status"
    BY <1>2, <1>3, <1>9
  <2>4. ServedAt(s, k, r - 1)'
    BY <1>1, <2>2, <2>3 DEF ServedAt, Same, vhosts, records
  <2>. QED
    BY <1>5, <1>8, <2>2, <2>3, <2>4 DEF vhosts, php, records, File, Other
<1>10. CASE r = last + 2
  <2>1. UNCHANGED hostVars /\ states'[s] = j.new /\ j.op = "install"
    BY <1>3, <1>10, ActsStore
  <2>2. r # 1 /\ ~(r <= last) /\ ~(r - 1 <= last)
    BY <1>2, <1>3, <1>10
  <2>3. ServedAt(s, k, r - 1)'
    BY <1>1, <1>5, <2>1, <2>2 DEF ServedAt, Same, hostVars, vhosts
  <2>. QED
    BY <1>5, <1>8, <2>1, <2>2, <2>3 DEF hostVars, vhosts, php, host, File, Other, Lives
<1>11. CASE r = last + 1
  <2>1. WriteVhost(s, j, caddyConfigFor(j.new)) /\ UNCHANGED records
    BY <1>3, <1>4, <1>11, HostEffect
  <2>2. r # 1 /\ r - 1 <= last
    BY <1>2, <1>3, <1>11
  <2>3. /\ File(s, j.old.status)' = caddyConfigFor(j.new) /\ Other(s, j.old.status)' = Other(s, j.old.status)
        /\ UNCHANGED <<served, php, host>>
    BY <1>1, <1>4, <2>1 DEF WriteVhost, HostTypes, File, Other
  <2>4. ServedAt(s, k, r - 1)'
    BY <1>1, <1>5, <1>6, <2>1, <2>2, <2>3 DEF ServedAt, Same, File, Other, records
  <2>. QED
    BY <1>5, <1>8, <2>1, <2>2, <2>3, <2>4 DEF php, host, records, Lives
<1>12. CASE r = last /\ r # 1
  <2>1. ReloadCaddy /\ UNCHANGED records
    BY <1>3, <1>4, <1>12, HostEffect
  <2>2. r - 1 <= last /\ r <= last
    BY <1>2, <1>3, <1>12
  <2>3. ServedAt(s, k, r - 1)'
    BY <2>1 DEF ServedAt, ReloadCaddy
  <2>. QED
    BY <1>5, <1>8, <1>12, <2>1, <2>2, <2>3 DEF ReloadCaddy, php, host, records, Lives, File, Other
<1>13. CASE r = 1
  <2>1. UNCHANGED hostVars /\ states'[s] = j.new
    BY <1>3, <1>13, ActsStore
  <2>2. r <= last
    BY <1>2, <1>13
  <2>3. Matches(s, j.new)'
    BY <1>1, <1>5, <1>6, <2>1, <2>2
    DEF Matches, VhostsFit, Fits, File, Other, Lives, PoolsAre, caddyConfigFor, hostVars, vhosts, php, host
  <2>4. enabled'[s] = None => served'[s] = None
    BY <1>1, <1>5, <1>6, <2>1, <2>2 DEF ServedAt, hostVars, vhosts, File, Other
  <2>. QED
    BY <1>7, <1>13, <2>1, <2>3, <2>4 DEF AtRest, Matches, hostVars, php
<1>. QED
  BY <1>2, <1>3, <1>9, <1>10, <1>11, <1>12, <1>13

LEMMA EditBackward ==
    ASSUME SiteTypes, NEW s \in Sites, NEW j \in Job, JobForm(j), j.op \in {"domains", "install"}, j.undo,
           NEW r, Len(j.todo) = r, InFlight(s, j, r), Acts(s, j)
    PROVE  r = 1 /\ AtRest(s)'
<1>1. /\ j.todo \in Seq(HostSteps) /\ j.new \in State /\ j.old \in State /\ j.new # None /\ j.old # None
      /\ j.new.status = j.old.status /\ j.new.php = j.old.php /\ j.new.limits = j.old.limits
      /\ j.op = "install" => j.new.app /\ j.new.domains = j.old.domains
      /\ EditAt(s, j, r) /\ FpmAt(s, j, r) /\ ServedAt(s, j, r)
      /\ TodoOf(uneditSteps, j.todo)
  BY NoneIsNoEntry DEF Job, JobForm, InFlight, JobAt, State
<1>2. r = 1 /\ Head(j.todo) = "restoreVhost"
  BY <1>1, UneditStepsNext
<1>3. HostTypes /\ WriteVhost(s, j, j.vhost) /\ UNCHANGED records
  BY <1>2, ActsKind, HostEffect DEF StoreSteps, SiteTypes
<1>4. /\ states[s] = j.old \/ (j.op = "install" /\ states[s] = j.new)
      /\ Lives(s) /\ PoolsAre(s, j.old.php, j.old.limits) /\ Fits(j.vhost, j.old)
      /\ Other(s, j.old.status) = None
  BY <1>1 DEF EditAt
<1>5. /\ File(s, j.old.status)' = j.vhost /\ Other(s, j.old.status)' = None
      /\ UNCHANGED <<served, php, host>>
  BY <1>1, <1>3, <1>4 DEF WriteVhost, HostTypes, File, Other
<1>6. states'[s] = states[s] /\ states[s] # None /\ states[s].status = j.old.status
  BY <1>1, <1>3, <1>4 DEF records
<1>7. Matches(s, states[s])'
  BY <1>1, <1>4, <1>5, <1>6 DEF Matches, VhostsFit, Fits, Lives, PoolsAre, php, host
<1>8. \A v \in runtimes' : fpm'[v][s] = pools'[v][s]
  BY <1>1, <1>5 DEF FpmAt, Pending, php
<1>9. enabled'[s] = None => served'[s] = None
  BY <1>1, <1>3, <1>4, <1>5, <1>6 DEF ServedAt, File, Other, Fits
<1>. QED
  BY <1>2, <1>7, <1>8, <1>9 DEF AtRest

LEMMA StatusForward ==
    ASSUME SiteTypes, NEW s \in Sites, NEW j \in Job, JobForm(j), j.op = "status", ~j.undo,
           NEW r, Len(j.todo) = r, InFlight(s, j, r), Acts(s, j),
           NEW k \in Job, r # 1 => Same(k, j, Tail(j.todo), j.undo)
    PROVE  IF r = 1 THEN AtRest(s)' ELSE InFlight(s, k, r - 1)'
<1>1. /\ j.todo \in Seq(HostSteps) /\ j.new \in State /\ j.old \in State /\ j.new # None /\ j.old # None
      /\ j.new.status # j.old.status /\ j.new.php = j.old.php /\ j.new.limits = j.old.limits
      /\ {j.new.status, j.old.status} \subseteq {"active", "suspended"}
      /\ j.new.domains = j.old.domains /\ j.new.app = j.old.app
      /\ StatusAt(s, j, r) /\ FpmAt(s, j, r) /\ ServedAt(s, j, r)
      /\ TodoOf(statusSteps, j.todo)
  BY NoneIsNoEntry DEF Job, JobForm, InFlight, JobAt, State
<1>2. /\ r \in 1 .. 3
      /\ r = 3 => Head(j.todo) = "move"
      /\ r = 2 => Head(j.todo) = "reloadCaddy"
      /\ r = 1 => Head(j.todo) = "save"
  BY <1>1, StatusStepsNext
<1>3. HostTypes /\ (r # 1 => HostStep(s, j, Head(j.todo)) /\ UNCHANGED records)
  BY <1>2, ActsKind DEF StoreSteps, SiteTypes
<1>4. /\ states[s] = j.old
      /\ Lives(s) /\ PoolsAre(s, j.old.php, j.old.limits) /\ Fits(j.vhost, j.old)
      /\ VhostsAre(s, IF r < 3 THEN j.new.status ELSE j.old.status, j.vhost)
  BY <1>1 DEF StatusAt
<1>5. \A v \in runtimes : fpm[v][s] = pools[v][s]
  BY <1>1 DEF FpmAt, Pending
<1>6. ASSUME r # 1, UNCHANGED <<records, php, host>>, VhostsAre(s, j.new.status, j.vhost)',
             ServedAt(s, k, r - 1)'
      PROVE  InFlight(s, k, r - 1)'
  <2>1. StatusAt(s, k, r - 1)'
    BY <1>1, <1>2, <1>4, <1>6 DEF StatusAt, Same, Lives, PoolsAre, Fits, records, php, host
  <2>2. FpmAt(s, k, r - 1)'
    BY <1>5, <1>6 DEF FpmAt, php
  <2>. QED
    BY <1>6, <2>1, <2>2 DEF InFlight, JobAt, Same
<1>7. CASE r = 3
  <2>1. MoveVhost(s, j.new.status = "suspended") /\ UNCHANGED records
    BY <1>2, <1>3, <1>7, HostEffect
  <2>2. VhostsAre(s, j.new.status, j.vhost)' /\ UNCHANGED <<php, host>>
    BY <1>1, <1>3, <1>4, <1>7, <2>1 DEF MoveVhost, HostTypes, VhostsAre, File, Other
  <2>3. ServedAt(s, k, r - 1)'
    BY <1>7 DEF ServedAt, Same
  <2>. QED
    BY <1>6, <1>7, <2>1, <2>2, <2>3
<1>8. CASE r = 2
  <2>1. ReloadCaddy /\ UNCHANGED records
    BY <1>2, <1>3, <1>8, HostEffect
  <2>2. VhostsAre(s, j.new.status, j.vhost)' /\ UNCHANGED <<php, host>>
    BY <1>4, <1>8, <2>1 DEF ReloadCaddy, VhostsAre, File, Other
  <2>3. ServedAt(s, k, r - 1)'
    BY <2>1 DEF ServedAt, ReloadCaddy
  <2>. QED
    BY <1>6, <1>8, <2>1, <2>2, <2>3
<1>9. CASE r = 1
  <2>1. UNCHANGED hostVars /\ states'[s] = j.new
    BY <1>2, <1>9, ActsStore
  <2>2. Matches(s, j.new)'
    BY <1>1, <1>4, <1>9, <2>1
    DEF Matches, VhostsFit, VhostsAre, Fits, File, Other, Lives, PoolsAre, hostVars, vhosts, php, host
  <2>3. enabled'[s] = None => served'[s] = None
    BY <1>1, <1>4, <1>9, <2>1 DEF ServedAt, hostVars, vhosts
  <2>. QED
    BY <1>5, <1>9, <2>1, <2>2, <2>3 DEF AtRest, Matches, hostVars, php
<1>. QED
  BY <1>2, <1>7, <1>8, <1>9

LEMMA StatusBackward ==
    ASSUME SiteTypes, NEW s \in Sites, NEW j \in Job, JobForm(j), j.op = "status", j.undo,
           NEW r, Len(j.todo) = r, InFlight(s, j, r), Acts(s, j),
           NEW k \in Job, r # 1 => Same(k, j, Tail(j.todo), j.undo)
    PROVE  IF r = 1 THEN AtRest(s)' ELSE InFlight(s, k, r - 1)'
<1>1. /\ j.todo \in Seq(HostSteps) /\ j.new \in State /\ j.old \in State /\ j.old # None
      /\ j.new.status # j.old.status
      /\ {j.new.status, j.old.status} \subseteq {"active", "suspended"}
      /\ StatusAt(s, j, r) /\ FpmAt(s, j, r)
      /\ TodoOf(unstatusSteps, j.todo)
  BY NoneIsNoEntry DEF Job, JobForm, InFlight, JobAt, State
<1>2. /\ r \in 1 .. 2
      /\ r = 2 => Head(j.todo) = "moveBack"
      /\ r = 1 => Head(j.todo) = "reloadCaddy"
  BY <1>1, UnstatusStepsNext
<1>3. HostTypes /\ HostStep(s, j, Head(j.todo)) /\ UNCHANGED records
  BY <1>2, ActsKind DEF StoreSteps, SiteTypes
<1>4. /\ states[s] = j.old
      /\ Lives(s) /\ PoolsAre(s, j.old.php, j.old.limits) /\ Fits(j.vhost, j.old)
      /\ VhostsAre(s, IF r = 2 THEN j.new.status ELSE j.old.status, j.vhost)
  BY <1>1 DEF StatusAt
<1>5. \A v \in runtimes : fpm[v][s] = pools[v][s]
  BY <1>1 DEF FpmAt, Pending
<1>6. CASE r = 2
  <2>1. MoveVhost(s, j.new.status # "suspended")
    BY <1>2, <1>3, <1>6, HostEffect
  <2>2. VhostsAre(s, j.old.status, j.vhost)' /\ UNCHANGED <<php, host>>
    BY <1>1, <1>3, <1>4, <1>6, <2>1 DEF MoveVhost, HostTypes, VhostsAre, File, Other
  <2>. r # 1
    BY <1>6
  <2>. /\ k.op = "status" /\ k.undo
       /\ k.new = j.new /\ k.old = j.old /\ k.vhost = j.vhost
    BY DEF Same
  <2>3. StatusAt(s, k, 1)'
    BY <1>3, <1>4, <2>2 DEF StatusAt, Lives, PoolsAre, Fits, records, php, host
  <2>4. FpmAt(s, k, 1)' /\ ServedAt(s, k, 1)'
    BY <1>5, <2>2 DEF FpmAt, ServedAt, php
  <2>. QED
    BY <1>6, <2>3, <2>4 DEF InFlight, JobAt
<1>7. CASE r = 1
  <2>1. ReloadCaddy
    BY <1>2, <1>3, <1>7, HostEffect
  <2>2. Matches(s, states[s])'
    BY <1>1, <1>3, <1>4, <1>7, <2>1
    DEF ReloadCaddy, Matches, VhostsFit, VhostsAre, Fits, File, Other, Lives, PoolsAre, records, php, host
  <2>. QED
    BY <1>5, <1>7, <2>1, <2>2 DEF AtRest, ReloadCaddy, php
<1>. QED
  BY <1>2, <1>6, <1>7

LEMMA PHPForward ==
    ASSUME SiteTypes, NEW s \in Sites, NEW j \in Job, JobForm(j), j.op = "php", ~j.undo,
           NEW r, Len(j.todo) = r, InFlight(s, j, r), Acts(s, j),
           NEW k \in Job, r # 1 => Same(k, j, Tail(j.todo), j.undo)
    PROVE  IF r = 1 THEN AtRest(s)' ELSE InFlight(s, k, r - 1)'
<1>1. /\ j.todo \in Seq(HostSteps) /\ j.new \in State /\ j.old \in State /\ j.new # None /\ j.old # None
      /\ j.new.status = j.old.status /\ j.new.php # j.old.php /\ j.new.limits = j.old.limits
      /\ j.new.php \in Versions /\ j.old.php \in Versions /\ j.new.limits \in Limits
      /\ j.new.domains = j.old.domains /\ j.new.app = j.old.app
      /\ PHPAt(s, j, r) /\ FpmAt(s, j, r) /\ ServedAt(s, j, r)
      /\ TodoOf(phpSteps, j.todo)
  BY NoneIsNoEntry DEF Job, JobForm, InFlight, JobAt, State
<1>2. /\ r \in 1 .. 5
      /\ r = 5 => Head(j.todo) = "activatePool"
      /\ r = 4 => Head(j.todo) = "removeOldPool"
      /\ r = 3 => Head(j.todo) = "reloadOldFpm"
      /\ r = 2 => Head(j.todo) = "reloadFpm"
      /\ r = 1 => Head(j.todo) = "save"
  BY <1>1, PhpStepsNext
<1>3. HostTypes /\ (r # 1 => HostStep(s, j, Head(j.todo)) /\ UNCHANGED records)
  BY <1>2, ActsKind DEF StoreSteps, SiteTypes
<1>4. /\ states[s] = j.old /\ Lives(s) /\ VhostsFit(s, j.old) /\ j.pool = j.old.limits
      /\ \A v \in Versions \ {j.old.php, j.new.php} : pools[v][s] = None
      /\ pools[j.new.php][s] = IF r < 5 THEN j.new.limits ELSE None
      /\ pools[j.old.php][s] = IF r < 4 THEN None ELSE j.old.limits
  BY <1>1 DEF PHPAt
<1>5. /\ runtimes \subseteq Versions
      /\ \A v \in runtimes : fpm[v][s] = pools[v][s] \/ (v = j.new.php /\ r \in 2 .. 4)
                                                    \/ (v = j.old.php /\ r = 3)
  BY <1>1, <1>3 DEF FpmAt, Pending, HostTypes
<1>6. ASSUME r # 1, UNCHANGED <<records, vhosts, host>>,
             \A v \in Versions \ {j.old.php, j.new.php} : pools'[v][s] = None,
             pools'[j.new.php][s] = IF r - 1 < 5 THEN j.new.limits ELSE None,
             pools'[j.old.php][s] = IF r - 1 < 4 THEN None ELSE j.old.limits,
             \A v \in runtimes' : fpm'[v][s] = pools'[v][s] \/ (v = j.new.php /\ r - 1 \in 2 .. 4)
                                                           \/ (v = j.old.php /\ r - 1 = 3)
      PROVE  InFlight(s, k, r - 1)'
  <2>1. /\ k.op = "php" /\ ~k.undo /\ k.new = j.new /\ k.old = j.old
        /\ k.pool = j.pool
    BY <1>6 DEF Same
  <2>2. PHPAt(s, k, r - 1)'
    BY <1>4, <1>6, <2>1 DEF PHPAt, Lives, VhostsFit, Fits, File, Other, records, vhosts, host
  <2>3. FpmAt(s, k, r - 1)'
    BY <1>6, <2>1 DEF FpmAt, Pending
  <2>4. ServedAt(s, k, r - 1)'
    BY <1>1, <1>6, <2>1 DEF ServedAt, records, vhosts
  <2>. QED
    BY <2>1, <2>2, <2>3, <2>4 DEF InFlight, JobAt
<1>7. CASE r = 5
  <2>1. WritePool(s, j.new.php, j.new.limits) /\ UNCHANGED records
    BY <1>2, <1>3, <1>7, HostEffect
  <2>2. /\ \A w \in Versions : pools'[w][s] = IF w = j.new.php THEN j.new.limits ELSE pools[w][s]
        /\ UNCHANGED <<records, vhosts, fpm, runtimes, host>>
    BY <1>1, <1>3, <2>1, PoolWritten
  <2>. QED
    BY <1>1, <1>4, <1>5, <1>6, <1>7, <2>2
<1>8. CASE r = 4
  <2>1. WritePool(s, j.old.php, None) /\ UNCHANGED records
    BY <1>2, <1>3, <1>8, HostEffect
  <2>2. /\ \A w \in Versions : pools'[w][s] = IF w = j.old.php THEN None ELSE pools[w][s]
        /\ UNCHANGED <<records, vhosts, fpm, runtimes, host>>
    BY <1>1, <1>3, <2>1, PoolWritten
  <2>. QED
    BY <1>1, <1>4, <1>5, <1>6, <1>8, <2>2
<1>9. CASE r = 3
  <2>1. ReloadFpm(j.old.php) /\ UNCHANGED records
    BY <1>2, <1>3, <1>9, HostEffect
  <2>2. /\ \A w \in Versions : fpm'[w][s] = IF w = j.old.php THEN pools[w][s] ELSE fpm[w][s]
        /\ UNCHANGED <<records, vhosts, pools, runtimes, host>>
    BY <1>1, <1>3, <2>1 DEF ReloadFpm, HostTypes
  <2>. QED
    BY <1>1, <1>4, <1>5, <1>6, <1>9, <2>2
<1>10. CASE r = 2
  <2>1. ReloadFpm(j.new.php) /\ UNCHANGED records
    BY <1>2, <1>3, <1>10, HostEffect
  <2>2. /\ \A w \in Versions : fpm'[w][s] = IF w = j.new.php THEN pools[w][s] ELSE fpm[w][s]
        /\ UNCHANGED <<records, vhosts, pools, runtimes, host>>
    BY <1>1, <1>3, <2>1 DEF ReloadFpm, HostTypes
  <2>. QED
    BY <1>1, <1>4, <1>5, <1>6, <1>10, <2>2
<1>11. CASE r = 1
  <2>1. UNCHANGED hostVars /\ states'[s] = j.new
    BY <1>2, <1>11, ActsStore
  <2>2. Matches(s, j.new)'
    BY <1>1, <1>4, <1>11, <2>1
    DEF Matches, VhostsFit, Fits, File, Other, Lives, PoolsAre, hostVars, vhosts, php, host
  <2>3. enabled'[s] = None => served'[s] = None
    BY <1>1, <1>4, <2>1 DEF ServedAt, hostVars, vhosts
  <2>. QED
    BY <1>5, <1>11, <2>1, <2>2, <2>3 DEF AtRest, Matches, hostVars, php
<1>. QED
  BY <1>2, <1>7, <1>8, <1>9, <1>10, <1>11

LEMMA PHPBackward ==
    ASSUME SiteTypes, NEW s \in Sites, NEW j \in Job, JobForm(j), j.op = "php", j.undo,
           NEW r, Len(j.todo) = r, InFlight(s, j, r), Acts(s, j),
           NEW k \in Job, r # 1 => Same(k, j, Tail(j.todo), j.undo)
    PROVE  IF r = 1 THEN AtRest(s)' ELSE InFlight(s, k, r - 1)'
<1>1. /\ j.todo \in Seq(HostSteps) /\ j.new \in State /\ j.old \in State /\ j.old # None
      /\ j.new.php # j.old.php /\ j.pool \in Limits \cup {None}
      /\ j.new.php \in Versions /\ j.old.php \in Versions
      /\ PHPAt(s, j, r) /\ FpmAt(s, j, r) /\ ServedAt(s, j, r)
      /\ TodoOf(unphpSteps, j.todo)
  BY NoneIsNoEntry DEF Job, JobForm, InFlight, JobAt, State
<1>2. /\ r \in 1 .. 4
      /\ r = 4 => Head(j.todo) = "removePool"
      /\ r = 3 => Head(j.todo) = "restorePool"
      /\ r = 2 => Head(j.todo) = "reloadOldFpm"
      /\ r = 1 => Head(j.todo) = "reloadFpm"
  BY <1>1, UnphpStepsNext
<1>3. HostTypes /\ HostStep(s, j, Head(j.todo)) /\ UNCHANGED records
  BY <1>2, ActsKind DEF StoreSteps, SiteTypes
<1>4. /\ states[s] = j.old /\ Lives(s) /\ VhostsFit(s, j.old) /\ j.pool = j.old.limits
      /\ \A v \in Versions \ {j.old.php, j.new.php} : pools[v][s] = None
      /\ r < 4 => pools[j.new.php][s] = None
      /\ r < 3 => pools[j.old.php][s] = j.old.limits
  BY <1>1 DEF PHPAt
<1>5. /\ runtimes \subseteq Versions
      /\ \A v \in runtimes : fpm[v][s] = pools[v][s] \/ v = j.new.php \/ (v = j.old.php /\ r >= 2)
  BY <1>1, <1>3 DEF FpmAt, Pending, HostTypes
<1>6. ASSUME r # 1, UNCHANGED <<records, vhosts, host>>,
             \A v \in Versions \ {j.old.php, j.new.php} : pools'[v][s] = None,
             r - 1 < 4 => pools'[j.new.php][s] = None,
             r - 1 < 3 => pools'[j.old.php][s] = j.old.limits,
             \A v \in runtimes' : \/ fpm'[v][s] = pools'[v][s] \/ v = j.new.php
                                  \/ (v = j.old.php /\ r - 1 >= 2)
      PROVE  InFlight(s, k, r - 1)'
  <2>1. /\ k.op = "php" /\ k.undo /\ k.new = j.new /\ k.old = j.old
        /\ k.pool = j.pool
    BY <1>6 DEF Same
  <2>2. PHPAt(s, k, r - 1)'
    BY <1>4, <1>6, <2>1 DEF PHPAt, Lives, VhostsFit, Fits, File, Other, records, vhosts, host
  <2>3. FpmAt(s, k, r - 1)'
    BY <1>6, <2>1 DEF FpmAt, Pending
  <2>4. ServedAt(s, k, r - 1)'
    BY <1>1, <1>6, <2>1 DEF ServedAt, records, vhosts
  <2>. QED
    BY <2>1, <2>2, <2>3, <2>4 DEF InFlight, JobAt
<1>7. CASE r = 4
  <2>1. WritePool(s, j.new.php, None)
    BY <1>2, <1>3, <1>7, HostEffect
  <2>2. /\ \A w \in Versions : pools'[w][s] = IF w = j.new.php THEN None ELSE pools[w][s]
        /\ UNCHANGED <<records, vhosts, fpm, runtimes, host>>
    BY <1>1, <1>3, <2>1, PoolWritten
  <2>. QED
    BY <1>1, <1>4, <1>5, <1>6, <1>7, <2>2
<1>8. CASE r = 3
  <2>1. WritePool(s, j.old.php, j.pool)
    BY <1>2, <1>3, <1>8, HostEffect
  <2>2. /\ \A w \in Versions : pools'[w][s] = IF w = j.old.php THEN j.pool ELSE pools[w][s]
        /\ UNCHANGED <<records, vhosts, fpm, runtimes, host>>
    BY <1>1, <1>3, <2>1, PoolWritten
  <2>. QED
    BY <1>1, <1>4, <1>5, <1>6, <1>8, <2>2
<1>9. CASE r = 2
  <2>1. ReloadFpm(j.old.php)
    BY <1>2, <1>3, <1>9, HostEffect
  <2>2. /\ \A w \in Versions : fpm'[w][s] = IF w = j.old.php THEN pools[w][s] ELSE fpm[w][s]
        /\ UNCHANGED <<records, vhosts, pools, runtimes, host>>
    BY <1>1, <1>3, <2>1 DEF ReloadFpm, HostTypes
  <2>. QED
    BY <1>1, <1>4, <1>5, <1>6, <1>9, <2>2
<1>10. CASE r = 1
  <2>1. ReloadFpm(j.new.php)
    BY <1>2, <1>3, <1>10, HostEffect
  <2>2. /\ \A w \in Versions : fpm'[w][s] = IF w = j.new.php THEN pools[w][s] ELSE fpm[w][s]
        /\ UNCHANGED <<records, vhosts, pools, runtimes, host>>
    BY <1>1, <1>3, <2>1 DEF ReloadFpm, HostTypes
  <2>3. states'[s] = j.old /\ Matches(s, j.old)'
    BY <1>1, <1>4, <1>10, <2>2
    DEF Matches, VhostsFit, Fits, File, Other, Lives, PoolsAre, records, vhosts, host
  <2>4. enabled'[s] = None => served'[s] = None
    BY <1>1, <1>4, <2>2 DEF ServedAt, vhosts
  <2>5. \A v \in runtimes' : fpm'[v][s] = pools'[v][s]
    BY <1>5, <1>10, <2>2
  <2>. QED
    BY <1>10, <2>3, <2>4, <2>5 DEF AtRest, Matches
<1>. QED
  BY <1>2, <1>7, <1>8, <1>9, <1>10

LEMMA LimitsForward ==
    ASSUME SiteTypes, NEW s \in Sites, NEW j \in Job, JobForm(j), j.op = "limits", ~j.undo,
           NEW r, Len(j.todo) = r, InFlight(s, j, r), Acts(s, j),
           NEW k \in Job, r # 1 => Same(k, j, Tail(j.todo), j.undo)
    PROVE  IF r = 1 THEN AtRest(s)' ELSE InFlight(s, k, r - 1)'
<1>1. /\ j.todo \in Seq(HostSteps) /\ j.new \in State /\ j.old \in State /\ j.new # None /\ j.old # None
      /\ j.new.status = j.old.status /\ j.new.php = j.old.php
      /\ j.old.php \in Versions /\ j.new.limits \in Limits
      /\ j.new.domains = j.old.domains /\ j.new.app = j.old.app
      /\ LimitsAt(s, j, r) /\ FpmAt(s, j, r) /\ ServedAt(s, j, r)
      /\ TodoOf(limitsSteps, j.todo)
  BY NoneIsNoEntry DEF Job, JobForm, InFlight, JobAt, State
<1>2. /\ r \in 1 .. 3
      /\ r = 3 => Head(j.todo) = "activatePool"
      /\ r = 2 => Head(j.todo) = "reloadFpm"
      /\ r = 1 => Head(j.todo) = "save"
  BY <1>1, LimitsStepsNext
<1>3. HostTypes /\ (r # 1 => HostStep(s, j, Head(j.todo)) /\ UNCHANGED records)
  BY <1>2, ActsKind DEF StoreSteps, SiteTypes
<1>4. /\ states[s] = j.old /\ Lives(s) /\ VhostsFit(s, j.old) /\ j.pool = j.old.limits
      /\ \A v \in Versions \ {j.old.php} : pools[v][s] = None
      /\ pools[j.old.php][s] = IF r < 3 THEN j.new.limits ELSE j.old.limits
  BY <1>1 DEF LimitsAt
<1>5. /\ runtimes \subseteq Versions
      /\ \A v \in runtimes : fpm[v][s] = pools[v][s] \/ (v = j.old.php /\ r = 2)
  BY <1>1, <1>3 DEF FpmAt, Pending, HostTypes
<1>6. ASSUME r # 1, UNCHANGED <<records, vhosts, host>>,
             \A v \in Versions \ {j.old.php} : pools'[v][s] = None,
             pools'[j.old.php][s] = IF r - 1 < 3 THEN j.new.limits ELSE j.old.limits,
             \A v \in runtimes' : fpm'[v][s] = pools'[v][s] \/ (v = j.old.php /\ r - 1 = 2)
      PROVE  InFlight(s, k, r - 1)'
  <2>1. /\ k.op = "limits" /\ ~k.undo /\ k.new = j.new /\ k.old = j.old
        /\ k.pool = j.pool
    BY <1>6 DEF Same
  <2>2. LimitsAt(s, k, r - 1)'
    BY <1>4, <1>6, <2>1 DEF LimitsAt, Lives, VhostsFit, Fits, File, Other, records, vhosts, host
  <2>3. FpmAt(s, k, r - 1)'
    BY <1>1, <1>6, <2>1 DEF FpmAt, Pending
  <2>4. ServedAt(s, k, r - 1)'
    BY <1>1, <1>6, <2>1 DEF ServedAt, records, vhosts
  <2>. QED
    BY <2>1, <2>2, <2>3, <2>4 DEF InFlight, JobAt
<1>7. CASE r = 3
  <2>1. WritePool(s, j.new.php, j.new.limits) /\ UNCHANGED records
    BY <1>2, <1>3, <1>7, HostEffect
  <2>2. /\ \A w \in Versions : pools'[w][s] = IF w = j.old.php THEN j.new.limits ELSE pools[w][s]
        /\ UNCHANGED <<records, vhosts, fpm, runtimes, host>>
    BY <1>1, <1>3, <2>1, PoolWritten
  <2>. QED
    BY <1>1, <1>4, <1>5, <1>6, <1>7, <2>2
<1>8. CASE r = 2
  <2>1. ReloadFpm(j.new.php) /\ UNCHANGED records
    BY <1>2, <1>3, <1>8, HostEffect
  <2>2. /\ \A w \in Versions : fpm'[w][s] = IF w = j.old.php THEN pools[w][s] ELSE fpm[w][s]
        /\ UNCHANGED <<records, vhosts, pools, runtimes, host>>
    BY <1>1, <1>3, <2>1 DEF ReloadFpm, HostTypes
  <2>. QED
    BY <1>1, <1>4, <1>5, <1>6, <1>8, <2>2
<1>9. CASE r = 1
  <2>1. UNCHANGED hostVars /\ states'[s] = j.new
    BY <1>2, <1>9, ActsStore
  <2>2. Matches(s, j.new)'
    BY <1>1, <1>4, <1>9, <2>1
    DEF Matches, VhostsFit, Fits, File, Other, Lives, PoolsAre, hostVars, vhosts, php, host
  <2>3. enabled'[s] = None => served'[s] = None
    BY <1>1, <1>4, <2>1 DEF ServedAt, hostVars, vhosts
  <2>. QED
    BY <1>5, <1>9, <2>1, <2>2, <2>3 DEF AtRest, Matches, hostVars, php
<1>. QED
  BY <1>2, <1>7, <1>8, <1>9

LEMMA LimitsBackward ==
    ASSUME SiteTypes, NEW s \in Sites, NEW j \in Job, JobForm(j), j.op = "limits", j.undo,
           NEW r, Len(j.todo) = r, InFlight(s, j, r), Acts(s, j),
           NEW k \in Job, r # 1 => Same(k, j, Tail(j.todo), j.undo)
    PROVE  IF r = 1 THEN AtRest(s)' ELSE InFlight(s, k, r - 1)'
<1>1. /\ j.todo \in Seq(HostSteps) /\ j.new \in State /\ j.old \in State /\ j.old # None
      /\ j.new.php = j.old.php /\ j.old.php \in Versions /\ j.pool \in Limits \cup {None}
      /\ LimitsAt(s, j, r) /\ FpmAt(s, j, r) /\ ServedAt(s, j, r)
      /\ TodoOf(unlimitsSteps, j.todo)
  BY NoneIsNoEntry DEF Job, JobForm, InFlight, JobAt, State
<1>2. /\ r \in 1 .. 2
      /\ r = 2 => Head(j.todo) = "restorePool"
      /\ r = 1 => Head(j.todo) = "reloadFpm"
  BY <1>1, UnlimitsStepsNext
<1>3. HostTypes /\ HostStep(s, j, Head(j.todo)) /\ UNCHANGED records
  BY <1>2, ActsKind DEF StoreSteps, SiteTypes
<1>4. /\ states[s] = j.old /\ Lives(s) /\ VhostsFit(s, j.old) /\ j.pool = j.old.limits
      /\ \A v \in Versions \ {j.old.php} : pools[v][s] = None
      /\ r < 2 => pools[j.old.php][s] = j.old.limits
  BY <1>1 DEF LimitsAt
<1>5. runtimes \subseteq Versions /\ \A v \in runtimes : fpm[v][s] = pools[v][s] \/ v = j.old.php
  BY <1>1, <1>3 DEF FpmAt, Pending, HostTypes
<1>6. CASE r = 2
  <2>. r # 1
    BY <1>6
  <2>1. /\ k.op = "limits" /\ k.undo /\ k.new = j.new /\ k.old = j.old
        /\ k.pool = j.pool
    BY DEF Same
  <2>2. WritePool(s, j.old.php, j.pool)
    BY <1>2, <1>3, <1>6, HostEffect
  <2>3. /\ \A w \in Versions : pools'[w][s] = IF w = j.old.php THEN j.pool ELSE pools[w][s]
        /\ UNCHANGED <<records, vhosts, fpm, runtimes, host>>
    BY <1>1, <1>3, <2>2, PoolWritten
  <2>4. LimitsAt(s, k, 1)'
    BY <1>1, <1>4, <2>1, <2>3 DEF LimitsAt, Lives, VhostsFit, Fits, File, Other, records, vhosts, host
  <2>5. FpmAt(s, k, 1)' /\ ServedAt(s, k, 1)'
    BY <1>1, <1>5, <2>1, <2>3 DEF FpmAt, Pending, ServedAt, records, vhosts
  <2>. QED
    BY <1>6, <2>1, <2>4, <2>5 DEF InFlight, JobAt
<1>7. CASE r = 1
  <2>1. ReloadFpm(j.new.php)
    BY <1>2, <1>3, <1>7, HostEffect
  <2>2. /\ \A w \in Versions : fpm'[w][s] = IF w = j.old.php THEN pools[w][s] ELSE fpm[w][s]
        /\ UNCHANGED <<records, vhosts, pools, runtimes, host>>
    BY <1>1, <1>3, <2>1 DEF ReloadFpm, HostTypes
  <2>3. states'[s] = j.old /\ Matches(s, j.old)'
    BY <1>1, <1>4, <1>7, <2>2
    DEF Matches, VhostsFit, Fits, File, Other, Lives, PoolsAre, records, vhosts, host
  <2>4. enabled'[s] = None => served'[s] = None
    BY <1>1, <1>4, <2>2 DEF ServedAt, vhosts
  <2>5. \A v \in runtimes' : fpm'[v][s] = pools'[v][s]
    BY <1>5, <2>2
  <2>. QED
    BY <1>7, <2>3, <2>4, <2>5 DEF AtRest, Matches
<1>. QED
  BY <1>2, <1>6, <1>7

LEMMA DeleteForward ==
    ASSUME SiteTypes, NEW s \in Sites, NEW j \in Job, JobForm(j), j.op = "delete", ~j.undo,
           NEW r, Len(j.todo) = r, InFlight(s, j, r), Acts(s, j),
           NEW k \in Job, r # 1 => Same(k, j, Tail(j.todo), j.undo)
    PROVE  IF r = 1 THEN AtRest(s)' ELSE InFlight(s, k, r - 1)'
<1>1. /\ j.todo \in Seq(HostSteps) /\ j.old \in State /\ j.new = j.old
      /\ j.old.php \in Versions /\ j.old.status = "suspended"
      /\ DeleteAt(s, j, r) /\ FpmAt(s, j, r) /\ ServedAt(s, j, r)
      /\ TodoOf(deleteSteps, j.todo)
  BY NoneIsNoEntry DEF Job, JobForm, InFlight, JobAt, State
<1>2. /\ r \in 1 .. 6
      /\ r = 6 => Head(j.todo) = "archive"
      /\ r = 5 => Head(j.todo) = "removeVhost"
      /\ r = 4 => Head(j.todo) = "removePool"
      /\ r = 3 => Head(j.todo) = "reloadFpm"
      /\ r = 2 => Head(j.todo) = "forget"
      /\ r = 1 => Head(j.todo) = "userdel"
  BY <1>1, DeleteStepsNext
<1>3. HostTypes /\ (r # 2 => HostStep(s, j, Head(j.todo)) /\ UNCHANGED records)
  BY <1>2, ActsKind DEF StoreSteps, SiteTypes
<1>4. /\ enabled[s] = None /\ Fits(j.vhost, j.old) /\ j.pool = j.old.limits /\ s \in users
      /\ \A v \in Versions \ {j.old.php} : pools[v][s] = None
      /\ roots[s] # None <=> r = 6
      /\ disabled[s] = IF r >= 5 THEN j.vhost ELSE None
      /\ pools[j.old.php][s] = IF r >= 4 THEN j.old.limits ELSE None
      /\ states[s] = IF r >= 2 THEN j.old ELSE None
      /\ served[s] = None
  BY <1>1 DEF DeleteAt, ServedAt
<1>5. /\ runtimes \subseteq Versions
      /\ \A v \in runtimes : fpm[v][s] = pools[v][s] \/ (v = j.old.php /\ r = 3)
  BY <1>1, <1>3 DEF FpmAt, Pending, HostTypes
<1>6. ASSUME r # 1, enabled'[s] = None, s \in users', served'[s] = None,
             \A v \in Versions \ {j.old.php} : pools'[v][s] = None,
             roots'[s] # None <=> r - 1 = 6,
             disabled'[s] = IF r - 1 >= 5 THEN j.vhost ELSE None,
             pools'[j.old.php][s] = IF r - 1 >= 4 THEN j.old.limits ELSE None,
             states'[s] = IF r - 1 >= 2 THEN j.old ELSE None,
             \A v \in runtimes' : fpm'[v][s] = pools'[v][s] \/ (v = j.old.php /\ r - 1 = 3)
      PROVE  InFlight(s, k, r - 1)'
  <2>1. /\ k.op = "delete" /\ ~k.undo /\ k.new = j.new /\ k.old = j.old
        /\ k.pool = j.pool /\ k.vhost = j.vhost
    BY <1>6 DEF Same
  <2>2. DeleteAt(s, k, r - 1)'
    BY <1>4, <1>6, <2>1 DEF DeleteAt, Fits
  <2>3. FpmAt(s, k, r - 1)'
    BY <1>1, <1>6, <2>1 DEF FpmAt, Pending
  <2>4. ServedAt(s, k, r - 1)'
    BY <1>6 DEF ServedAt
  <2>. QED
    BY <2>1, <2>2, <2>3, <2>4 DEF InFlight, JobAt
<1>7. CASE r = 6
  <2>1. Directories(None, roots[s], s) /\ UNCHANGED records
    BY <1>2, <1>3, <1>7, HostEffect
  <2>2. roots'[s] = None /\ UNCHANGED <<vhosts, php, users, records>>
    BY <1>3, <2>1 DEF Directories, HostTypes
  <2>3. roots'[s] # None <=> r - 1 = 6
    BY <1>7, <2>2
  <2>. QED
    BY <1>4, <1>5, <1>6, <1>7, <2>2, <2>3 DEF vhosts, php, records
<1>8. CASE r = 5
  <2>1. WriteVhost(s, j, None) /\ UNCHANGED records
    BY <1>2, <1>3, <1>8, HostEffect
  <2>2. disabled'[s] = None /\ UNCHANGED <<enabled, served, php, host, records>>
    BY <1>1, <1>3, <2>1 DEF WriteVhost, HostTypes
  <2>3. roots'[s] # None <=> r - 1 = 6
    BY <1>4, <1>8, <2>2 DEF host
  <2>. QED
    BY <1>4, <1>5, <1>6, <1>8, <2>2, <2>3 DEF host, php, records
<1>9. CASE r = 4
  <2>1. WritePool(s, j.new.php, None) /\ UNCHANGED records
    BY <1>2, <1>3, <1>9, HostEffect
  <2>2. /\ \A w \in Versions : pools'[w][s] = IF w = j.old.php THEN None ELSE pools[w][s]
        /\ UNCHANGED <<records, vhosts, fpm, runtimes, host>>
    BY <1>1, <1>3, <2>1, PoolWritten
  <2>3. roots'[s] # None <=> r - 1 = 6
    BY <1>4, <1>9, <2>2 DEF host
  <2>. QED
    BY <1>1, <1>4, <1>5, <1>6, <1>9, <2>2, <2>3 DEF host, vhosts, records
<1>10. CASE r = 3
  <2>1. ReloadFpm(j.new.php) /\ UNCHANGED records
    BY <1>2, <1>3, <1>10, HostEffect
  <2>2. /\ \A w \in Versions : fpm'[w][s] = IF w = j.old.php THEN pools[w][s] ELSE fpm[w][s]
        /\ UNCHANGED <<records, vhosts, pools, runtimes, host>>
    BY <1>1, <1>3, <2>1 DEF ReloadFpm, HostTypes
  <2>3. roots'[s] # None <=> r - 1 = 6
    BY <1>4, <1>10, <2>2 DEF host
  <2>. QED
    BY <1>1, <1>4, <1>5, <1>6, <1>10, <2>2, <2>3 DEF host, vhosts, records
<1>11. CASE r = 2
  <2>1. UNCHANGED hostVars /\ states'[s] = None
    BY <1>2, <1>11, ActsStore
  <2>2. roots'[s] # None <=> r - 1 = 6
    BY <1>4, <1>11, <2>1 DEF hostVars, host
  <2>. QED
    BY <1>1, <1>4, <1>5, <1>6, <1>11, <2>1, <2>2 DEF hostVars, host, vhosts, php
<1>12. CASE r = 1
  <2>1. Users(users \ {s}) /\ UNCHANGED records
    BY <1>2, <1>3, <1>12, HostEffect
  <2>2. states'[s] = None /\ Matches(s, None)'
    BY <1>1, <1>4, <1>12, <2>1 DEF Users, Matches, Nothing, vhosts, php, records
  <2>. QED
    BY <1>5, <1>12, <2>1, <2>2 DEF AtRest, Matches, Users, php
<1>. QED
  BY <1>2, <1>7, <1>8, <1>9, <1>10, <1>11, <1>12

LEMMA DeleteBackward ==
    ASSUME SiteTypes, NEW s \in Sites, NEW j \in Job, JobForm(j), j.op = "delete", j.undo,
           NEW r, Len(j.todo) = r, InFlight(s, j, r), Acts(s, j),
           NEW k \in Job, r # 1 => Same(k, j, Tail(j.todo), j.undo)
    PROVE  IF r = 1 THEN AtRest(s)' ELSE InFlight(s, k, r - 1)'
<1>1. /\ j.todo \in Seq(HostSteps) /\ j.old \in State /\ j.old # None /\ j.new = j.old
      /\ j.old.php \in Versions /\ j.old.status = "suspended" /\ j.pool \in Limits \cup {None}
      /\ DeleteAt(s, j, r) /\ FpmAt(s, j, r) /\ ServedAt(s, j, r)
      /\ TodoOf(undeleteSteps, j.todo)
  BY NoneIsNoEntry DEF Job, JobForm, InFlight, JobAt, State
<1>2. /\ r \in 1 .. 5
      /\ r = 5 => Head(j.todo) = "unarchive"
      /\ r = 4 => Head(j.todo) = "restoreVhost"
      /\ r = 3 => Head(j.todo) = "restorePool"
      /\ r = 2 => Head(j.todo) = "saveOld"
      /\ r = 1 => Head(j.todo) = "reloadFpm"
  BY <1>1, UndeleteStepsNext
<1>3. HostTypes /\ (r # 2 => HostStep(s, j, Head(j.todo)) /\ UNCHANGED records)
  BY <1>2, ActsKind DEF StoreSteps, SiteTypes
<1>4. /\ enabled[s] = None /\ Fits(j.vhost, j.old) /\ j.pool = j.old.limits /\ s \in users
      /\ \A v \in Versions \ {j.old.php} : pools[v][s] = None
      /\ roots[s] # None <=> r < 5
      /\ r < 4 => disabled[s] = j.vhost
      /\ r < 3 => pools[j.old.php][s] = j.old.limits
      /\ states[s] = j.old \/ (r > 1 /\ states[s] = None)
      /\ served[s] = None
  BY <1>1 DEF DeleteAt, ServedAt
<1>5. runtimes \subseteq Versions /\ \A v \in runtimes : fpm[v][s] = pools[v][s] \/ v = j.old.php
  BY <1>1, <1>3 DEF FpmAt, Pending, HostTypes
<1>6. ASSUME r # 1, enabled'[s] = None, s \in users', served'[s] = None,
             \A v \in Versions \ {j.old.php} : pools'[v][s] = None,
             roots'[s] # None,
             r - 1 < 4 => disabled'[s] = j.vhost,
             r - 1 < 3 => pools'[j.old.php][s] = j.old.limits,
             states'[s] = j.old \/ (r - 1 > 1 /\ states'[s] = None),
             \A v \in runtimes' : fpm'[v][s] = pools'[v][s] \/ v = j.old.php
      PROVE  InFlight(s, k, r - 1)'
  <2>1. /\ k.op = "delete" /\ k.undo /\ k.new = j.new /\ k.old = j.old
        /\ k.pool = j.pool /\ k.vhost = j.vhost
    BY <1>6 DEF Same
  <2>2. DeleteAt(s, k, r - 1)'
    BY <1>2, <1>4, <1>6, <2>1 DEF DeleteAt, Fits
  <2>3. FpmAt(s, k, r - 1)'
    BY <1>1, <1>6, <2>1 DEF FpmAt, Pending
  <2>4. ServedAt(s, k, r - 1)'
    BY <1>6 DEF ServedAt
  <2>. QED
    BY <2>1, <2>2, <2>3, <2>4 DEF InFlight, JobAt
<1>7. CASE r = 5
  <2>1. Directories(trash[s], None, s) /\ trash[s] # None /\ UNCHANGED records
    BY <1>2, <1>3, <1>7, HostEffect
  <2>2. roots'[s] # None /\ UNCHANGED <<vhosts, php, users, records>>
    BY <1>3, <2>1 DEF Directories, HostTypes
  <2>. QED
    BY <1>4, <1>5, <1>6, <1>7, <2>2 DEF vhosts, php, records
<1>8. CASE r = 4
  <2>1. WriteVhost(s, j, j.vhost) /\ UNCHANGED records
    BY <1>2, <1>3, <1>8, HostEffect
  <2>2. disabled'[s] = j.vhost /\ UNCHANGED <<enabled, served, php, host, records>>
    BY <1>1, <1>3, <2>1 DEF WriteVhost, HostTypes
  <2>. QED
    BY <1>4, <1>5, <1>6, <1>8, <2>2 DEF host, php, records
<1>9. CASE r = 3
  <2>1. WritePool(s, j.old.php, j.pool) /\ UNCHANGED records
    BY <1>2, <1>3, <1>9, HostEffect
  <2>2. /\ \A w \in Versions : pools'[w][s] = IF w = j.old.php THEN j.pool ELSE pools[w][s]
        /\ UNCHANGED <<records, vhosts, fpm, runtimes, host>>
    BY <1>1, <1>3, <2>1, PoolWritten
  <2>. QED
    BY <1>1, <1>4, <1>5, <1>6, <1>9, <2>2 DEF host, vhosts, records
<1>10. CASE r = 2
  <2>1. UNCHANGED hostVars /\ states'[s] = j.old
    BY <1>2, <1>10, ActsStore
  <2>. QED
    BY <1>1, <1>4, <1>5, <1>6, <1>10, <2>1 DEF hostVars, host, vhosts, php
<1>11. CASE r = 1
  <2>1. ReloadFpm(j.new.php) /\ UNCHANGED records
    BY <1>2, <1>3, <1>11, HostEffect
  <2>2. /\ \A w \in Versions : fpm'[w][s] = IF w = j.old.php THEN pools[w][s] ELSE fpm[w][s]
        /\ UNCHANGED <<records, vhosts, pools, runtimes, host>>
    BY <1>1, <1>3, <2>1 DEF ReloadFpm, HostTypes
  <2>3. states'[s] = j.old /\ Matches(s, j.old)'
    BY <1>1, <1>4, <1>11, <2>2
    DEF Matches, VhostsFit, Fits, File, Other, Lives, PoolsAre, records, vhosts, host
  <2>4. \A v \in runtimes' : fpm'[v][s] = pools'[v][s]
    BY <1>5, <2>2
  <2>. QED
    BY <1>4, <1>11, <2>2, <2>3, <2>4 DEF AtRest, Matches, vhosts
<1>. QED
  BY <1>2, <1>7, <1>8, <1>9, <1>10, <1>11
-----------------------------------------------------------------------------
(* An operation advances.                                                  *)

\* Whatever the operation, a step that succeeds leaves the site where the
\* operation is next, or at rest after the last one.
LEMMA Acting ==
    ASSUME SiteTypes, NEW s \in Sites, NEW j \in Job, JobForm(j),
           NEW r, Len(j.todo) = r, InFlight(s, j, r), Acts(s, j),
           NEW k \in Job, r # 1 => Same(k, j, Tail(j.todo), j.undo)
    PROVE  IF r = 1 THEN AtRest(s)' ELSE InFlight(s, k, r - 1)'
<1>1. j.op \in {"create", "domains", "install", "status", "php", "limits", "delete"}
  BY DEF Job, Ops
<1>2. CASE ~j.undo
  BY <1>1, <1>2, CreateForward, EditForward, StatusForward, PHPForward, LimitsForward, DeleteForward
<1>3. CASE j.undo
  BY <1>1, <1>3, CreateBackward, EditBackward, StatusBackward, PHPBackward, LimitsBackward, DeleteBackward
<1>. QED
  BY <1>2, <1>3

\* The lengths of the programs.
LEMMA ProgramLengths ==
    /\ Len(createSteps) = 7 /\ Len(uncreateSteps) = 6 /\ Len(uncreateShort) = 3
    /\ Len(editSteps) = 5 /\ Len(editQuietly) = 4 /\ Len(uneditSteps) = 1
    /\ Len(statusSteps) = 3 /\ Len(unstatusSteps) = 2
    /\ Len(phpSteps) = 5 /\ Len(unphpSteps) = 4
    /\ Len(limitsSteps) = 3 /\ Len(unlimitsSteps) = 2
    /\ Len(deleteSteps) = 6 /\ Len(undeleteSteps) = 5
    /\ Len(resetSteps) = 6
<1>1. Len(createSteps) = 7 /\ Len(uncreateSteps) = 6 /\ Len(uncreateShort) = 3
  BY DEF createSteps, uncreateSteps, uncreateShort
<1>2. Len(editSteps) = 5 /\ Len(editQuietly) = 4 /\ Len(uneditSteps) = 1
  BY DEF editSteps, editQuietly, uneditSteps
<1>3. Len(statusSteps) = 3 /\ Len(unstatusSteps) = 2
  BY DEF statusSteps, unstatusSteps
<1>4. Len(phpSteps) = 5 /\ Len(unphpSteps) = 4
  BY DEF phpSteps, unphpSteps
<1>5. Len(limitsSteps) = 3 /\ Len(unlimitsSteps) = 2
  BY DEF limitsSteps, unlimitsSteps
<1>6. Len(deleteSteps) = 6 /\ Len(undeleteSteps) = 5 /\ Len(resetSteps) = 6
  BY DEF deleteSteps, undeleteSteps, resetSteps
<1>. QED
  BY <1>1, <1>2, <1>3, <1>4, <1>5, <1>6

\* An operation in flight has a step left.
LEMMA JobBusy ==
    ASSUME NEW j \in Job, JobForm(j)
    PROVE  j.todo \in Seq(HostSteps) /\ Len(j.todo) \in 1 .. 7
<1>1. j.todo \in Seq(HostSteps) /\ j.op \in Ops /\ j.undo \in BOOLEAN /\ j.new.status \in {"active", "suspended"}
  BY DEF Job, State
<1>2. Len(j.todo) \in 1 .. 1 \/ Len(j.todo) \in 1 .. 2 \/ Len(j.todo) \in 1 .. 3 \/ Len(j.todo) \in 1 .. 4
      \/ Len(j.todo) \in 1 .. 5 \/ Len(j.todo) \in 1 .. 6 \/ Len(j.todo) \in 1 .. 7
  <2>1. CASE j.op \in {"create", "domains", "install"}
    BY <1>1, <2>1, ProgramLengths DEF JobForm, TodoOf
  <2>2. CASE j.op \in {"status", "php", "limits", "delete"}
    BY <1>1, <2>2, ProgramLengths DEF JobForm, TodoOf
  <2>. QED
    BY <1>1, <2>1, <2>2 DEF Ops
<1>. QED
  BY <1>1, <1>2

\* The rest of a program is one.
LEMMA FormAdvances ==
    ASSUME NEW j \in Job, JobForm(j), NEW r, Len(j.todo) = r, r # 1,
           NEW k, Same(k, j, Tail(j.todo), j.undo)
    PROVE  JobForm(k)
<1>1. j.todo \in Seq(HostSteps) /\ r \in 1 .. 7 /\ k.todo = Tail(j.todo)
  BY JobBusy DEF Same
<1>2. Len(j.todo) >= 1 /\ Len(j.todo) # 1
  BY <1>1
<1>3. Len(k.todo) = r - 1 /\ r - 1 < r
  <2>1. Len(Tail(j.todo)) = Len(j.todo) - 1
    BY <1>1, <1>2, TailLen
  <2>. QED
    BY <1>1, <2>1
<1>4. ASSUME NEW p, Len(p) \in Nat, TodoOf(p, j.todo)
      PROVE  TodoOf(p, k.todo)
  BY <1>1, <1>2, <1>4, TodoTail
<1>5. /\ k.op = j.op /\ k.new = j.new /\ k.old = j.old /\ k.undo = j.undo
  BY DEF Same
<1>6. CASE j.op = "create"
  <2>1. /\ ~j.undo => TodoOf(createSteps, k.todo)
        /\ j.undo => TodoOf(uncreateSteps, k.todo) \/ TodoOf(uncreateShort, k.todo)
    BY <1>4, <1>6, ProgramLengths DEF JobForm
  <2>. QED
    BY <1>5, <1>6, <2>1 DEF JobForm
<1>7. CASE j.op \in {"domains", "install"}
  <2>1. /\ ~j.undo /\ j.new.status = "active" => TodoOf(editSteps, k.todo)
        /\ ~j.undo /\ j.new.status = "suspended" => TodoOf(editQuietly, k.todo)
        /\ j.undo => TodoOf(uneditSteps, k.todo)
    BY <1>4, <1>7, ProgramLengths DEF JobForm
  <2>2. ~j.undo /\ j.op = "domains" => Len(k.todo) <= (IF j.new.status = "active" THEN 3 ELSE 2)
    <3>1. ~j.undo /\ j.op = "domains" => r <= (IF j.new.status = "active" THEN 3 ELSE 2)
      BY <1>7 DEF JobForm
    <3>. QED
      BY <1>1, <1>3, <3>1
  <2>. QED
    BY <1>5, <1>7, <2>1, <2>2 DEF JobForm
<1>8. CASE j.op = "status"
  <2>1. TodoOf(IF j.undo THEN unstatusSteps ELSE statusSteps, k.todo)
    BY <1>4, <1>8, ProgramLengths DEF JobForm
  <2>. QED
    BY <1>5, <1>8, <2>1 DEF JobForm
<1>9. CASE j.op = "php"
  <2>1. TodoOf(IF j.undo THEN unphpSteps ELSE phpSteps, k.todo)
    BY <1>4, <1>9, ProgramLengths DEF JobForm
  <2>. QED
    BY <1>5, <1>9, <2>1 DEF JobForm
<1>10. CASE j.op = "limits"
  <2>1. TodoOf(IF j.undo THEN unlimitsSteps ELSE limitsSteps, k.todo)
    BY <1>4, <1>10, ProgramLengths DEF JobForm
  <2>. QED
    BY <1>5, <1>10, <2>1 DEF JobForm
<1>11. CASE j.op = "delete"
  <2>1. TodoOf(IF j.undo THEN undeleteSteps ELSE deleteSteps, k.todo)
    BY <1>4, <1>11, ProgramLengths DEF JobForm
  <2>. QED
    BY <1>5, <1>11, <2>1 DEF JobForm
<1>. QED
  BY <1>6, <1>7, <1>8, <1>9, <1>10, <1>11 DEF Job, Ops
-----------------------------------------------------------------------------
(* A step fails: the rollback starts where its own program expects the     *)
(* site to be, or nothing has been done.                                   *)

LEMMA ProgramsNotEmpty ==
    /\ uncreateSteps # <<>> /\ uncreateShort # <<>> /\ uneditSteps # <<>> /\ unstatusSteps # <<>>
    /\ unphpSteps # <<>> /\ unlimitsSteps # <<>> /\ undeleteSteps # <<>>
    /\ <<"userdel", "removeRoot">> # <<>>
<1>1. Len(<<>>) = 0 /\ Len(<<"userdel", "removeRoot">>) = 2
  OBVIOUS
<1>. QED
  BY <1>1, ProgramLengths, SMTT(30)

LEMMA RollbackIs ==
    ASSUME NEW j
    PROVE  /\ j.op = "create" => Rollback(j) = undoCreate(Head(j.todo))
           /\ j.op \in {"domains", "install"} => Rollback(j) = undoDomains(Head(j.todo), Len(j.todo) = 1)
           /\ j.op = "status" => Rollback(j) = undoStatus(Head(j.todo))
           /\ j.op = "php" => Rollback(j) = undoPHP(Head(j.todo))
           /\ j.op = "limits" => Rollback(j) = undoLimits(Head(j.todo))
           /\ j.op = "delete" => Rollback(j) = undoDelete(Head(j.todo))
BY DEF Rollback

LEMMA CreateFails ==
    ASSUME SiteTypes, NEW s \in Sites, NEW j \in Job, JobForm(j), j.op = "create", ~j.undo,
           NEW r, Len(j.todo) = r, InFlight(s, j, r),
           NEW k \in Job, Rollback(j) # <<>> => Same(k, j, Rollback(j), TRUE)
    PROVE  IF Rollback(j) = <<>> THEN AtRest(s) ELSE InFlight(s, k, Len(k.todo))
<1>1. /\ j.todo \in Seq(HostSteps) /\ TodoOf(createSteps, j.todo)
      /\ j.new \in State /\ CreateAt(s, j, r) /\ FpmAt(s, j, r)
  BY DEF Job, JobForm, InFlight, JobAt
<1>2. /\ r \in 1 .. 7
      /\ r = 7 => Head(j.todo) = "useradd"
      /\ r = 6 => Head(j.todo) = "mkdir"
      /\ r = 5 => Head(j.todo) = "activateVhost"
      /\ r = 4 => Head(j.todo) = "activatePool"
      /\ r = 3 => Head(j.todo) = "reloadCaddy"
      /\ r = 2 => Head(j.todo) = "reloadFpm"
      /\ r = 1 => Head(j.todo) = "save"
  BY <1>1, CreateStepsNext
<1>3. Rollback(j) = undoCreate(Head(j.todo))
  BY RollbackIs
<1>4. runtimes \subseteq Versions /\ caddyConfigFor(j.new) # None
  BY <1>1, NoneIsNoEntry DEF SiteTypes, HostTypes, caddyConfigFor, State, Vhost
<1>5. /\ j.old = None /\ states[s] = None /\ disabled[s] = None
      /\ s \in users <=> r < 7
      /\ roots[s] # None <=> r < 6
      /\ enabled[s] = IF r < 5 THEN caddyConfigFor(j.new) ELSE None
      /\ \A w \in Versions : pools[w][s] = IF w = j.new.php /\ r < 4 THEN j.new.limits ELSE None
  BY <1>1 DEF CreateAt, PoolsAre
<1>6. \A v \in runtimes : fpm[v][s] = pools[v][s] \/ (v = j.new.php /\ r \in 2 .. 3)
  BY <1>1 DEF FpmAt, Pending
<1>7. ASSUME r >= 4
      PROVE  /\ \A w \in Versions : pools[w][s] = None
             /\ \A v \in runtimes : fpm[v][s] = pools[v][s]
  BY <1>2, <1>5, <1>6, <1>7
<1>8. ASSUME Rollback(j) # <<>>, s \in users, enabled[s] # None <=> Head(Rollback(j)) = "removeVhost",
             NEW q \in {2, 3, 6}, Len(Rollback(j)) = q,
             q = 6 \/ ( /\ \A w \in Versions : pools[w][s] = None
                        /\ \A v \in runtimes : fpm[v][s] = pools[v][s])
      PROVE  InFlight(s, k, Len(k.todo))
  <2>1. k.op = "create" /\ k.undo /\ k.new = j.new /\ k.old = j.old /\ k.todo = Rollback(j)
    BY <1>8 DEF Same
  <2>2. CreateAt(s, k, q)
    BY <1>5, <1>8, <2>1 DEF CreateAt, PoolsAre
  <2>3. FpmAt(s, k, q)
    BY <1>6, <1>8, <2>1 DEF FpmAt, Pending
  <2>4. ServedAt(s, k, q)
    BY <1>5, <2>1 DEF ServedAt
  <2>. QED
    BY <1>8, <2>1, <2>2, <2>3, <2>4 DEF InFlight, JobAt
<1>9. CASE r = 7
  <2>1. Rollback(j) = <<>>
    BY <1>2, <1>3, <1>9 DEF undoCreate
  <2>. QED
    BY <1>4, <1>5, <1>6, <1>9, <2>1 DEF AtRest, Matches, Nothing
<1>10. CASE r \in {5, 6}
  <2>1. Rollback(j) = <<"userdel", "removeRoot">>
    BY <1>2, <1>3, <1>10 DEF undoCreate
  <2>2. Len(Rollback(j)) = 2 /\ Head(Rollback(j)) # "removeVhost" /\ Rollback(j) # <<>>
    BY <2>1, ProgramsNotEmpty
  <2>3. s \in users /\ enabled[s] = None /\ r >= 4
    BY <1>5, <1>10
  <2>. QED
    BY <1>7, <1>8, <2>2, <2>3
<1>11. CASE r = 4
  <2>1. Rollback(j) = uncreateShort
    BY <1>2, <1>3, <1>11 DEF undoCreate, uncreateShort
  <2>2. Head(uncreateShort) = "removeVhost"
    BY DEF uncreateShort
  <2>3. Len(Rollback(j)) = 3 /\ Head(Rollback(j)) = "removeVhost" /\ Rollback(j) # <<>>
    BY <2>1, <2>2, ProgramsNotEmpty, ProgramLengths
  <2>4. s \in users /\ enabled[s] # None /\ r >= 4
    BY <1>4, <1>5, <1>11
  <2>. QED
    BY <1>7, <1>8, <2>3, <2>4
<1>12. CASE r \in 1 .. 3
  <2>1. Rollback(j) = uncreateSteps
    BY <1>2, <1>3, <1>12 DEF undoCreate, uncreateSteps
  <2>2. Head(uncreateSteps) = "removeVhost"
    BY DEF uncreateSteps
  <2>3. Len(Rollback(j)) = 6 /\ Head(Rollback(j)) = "removeVhost" /\ Rollback(j) # <<>>
    BY <2>1, <2>2, ProgramsNotEmpty, ProgramLengths
  <2>4. s \in users /\ enabled[s] # None
    BY <1>4, <1>5, <1>12
  <2>. QED
    BY <1>8, <2>3, <2>4
<1>. QED
  BY <1>2, <1>9, <1>10, <1>11, <1>12

LEMMA EditFails ==
    ASSUME SiteTypes, NEW s \in Sites, NEW j \in Job, JobForm(j), j.op \in {"domains", "install"}, ~j.undo,
           NEW r, Len(j.todo) = r, InFlight(s, j, r),
           NEW k \in Job, Rollback(j) # <<>> => Same(k, j, Rollback(j), TRUE)
    PROVE  IF Rollback(j) = <<>> THEN AtRest(s) ELSE InFlight(s, k, Len(k.todo))
<1>1. /\ j.todo \in Seq(HostSteps) /\ j.new \in State /\ j.old \in State /\ j.new # None /\ j.old # None
      /\ j.new.status = j.old.status /\ j.new.php = j.old.php /\ j.new.limits = j.old.limits
      /\ j.new.status \in {"active", "suspended"}
      /\ j.op = "install" => j.new.app /\ j.new.domains = j.old.domains
      /\ EditAt(s, j, r) /\ FpmAt(s, j, r) /\ ServedAt(s, j, r)
  BY NoneIsNoEntry DEF Job, JobForm, InFlight, JobAt, State
<1>2. PICK last \in {1, 2} : last = IF j.new.status = "active" THEN 2 ELSE 1
  OBVIOUS
<1>3. /\ r \in 1 .. 5
      /\ r > last => Head(j.todo) \in {"wp", "save", "activateVhost"} /\ r # 1
      /\ r = last /\ r # 1 => Head(j.todo) = "reloadCaddy"
      /\ r = 1 => Head(j.todo) = "save"
  <2>1. CASE j.new.status = "active"
    <3>1. TodoOf(editSteps, j.todo)
      BY <2>1 DEF JobForm
    <3>2. last = 2
      BY <1>2, <2>1
    <3>. QED
      BY <1>1, <3>1, <3>2, EditStepsNext
  <2>2. CASE j.new.status = "suspended"
    <3>1. TodoOf(editQuietly, j.todo)
      BY <2>2 DEF JobForm
    <3>2. last = 1
      BY <1>2, <2>2
    <3>. QED
      BY <1>1, <3>1, <3>2, EditQuietlyNext
  <2>. QED
    BY <1>1, <2>1, <2>2
<1>4. Rollback(j) = undoDomains(Head(j.todo), r = 1)
  BY RollbackIs
<1>5. /\ states[s] = j.old \/ (j.op = "install" /\ states[s] = j.new)
      /\ Lives(s) /\ PoolsAre(s, j.old.php, j.old.limits) /\ Fits(j.vhost, j.old)
      /\ Other(s, j.old.status) = None
      /\ r > last => File(s, j.old.status) = j.vhost
  BY <1>1, <1>2, <1>3 DEF EditAt, VhostsAre
<1>6. \A v \in runtimes : fpm[v][s] = pools[v][s]
  BY <1>1 DEF FpmAt, Pending
<1>7. CASE r > last
  <2>1. Rollback(j) = <<>>
    BY <1>3, <1>4, <1>7 DEF undoDomains
  <2>2. Matches(s, states[s])
    BY <1>1, <1>5, <1>7 DEF Matches, VhostsFit, Fits
  <2>3. states[s] # None /\ (enabled[s] = None => served[s] = None)
    BY <1>1, <1>5 DEF ServedAt
  <2>. QED
    BY <1>6, <2>1, <2>2, <2>3 DEF AtRest
<1>8. CASE ~(r > last)
  <2>1. Rollback(j) = uneditSteps
    BY <1>2, <1>3, <1>4, <1>8 DEF undoDomains, uneditSteps
  <2>2. k.op = j.op /\ k.undo /\ k.new = j.new /\ k.old = j.old /\ k.vhost = j.vhost /\ Len(k.todo) = 1
    BY <2>1, ProgramsNotEmpty, ProgramLengths DEF Same
  <2>3. EditAt(s, k, 1)
    BY <1>5, <2>2 DEF EditAt
  <2>4. FpmAt(s, k, 1) /\ ServedAt(s, k, 1)
    BY <1>1, <1>6, <2>2 DEF FpmAt, ServedAt
  <2>. QED
    BY <2>1, <2>2, <2>3, <2>4, ProgramsNotEmpty DEF InFlight, JobAt
<1>. QED
  BY <1>7, <1>8

LEMMA StatusFails ==
    ASSUME SiteTypes, NEW s \in Sites, NEW j \in Job, JobForm(j), j.op = "status", ~j.undo,
           NEW r, Len(j.todo) = r, InFlight(s, j, r),
           NEW k \in Job, Rollback(j) # <<>> => Same(k, j, Rollback(j), TRUE)
    PROVE  IF Rollback(j) = <<>> THEN AtRest(s) ELSE InFlight(s, k, Len(k.todo))
<1>1. /\ j.todo \in Seq(HostSteps) /\ j.old # None /\ TodoOf(statusSteps, j.todo)
      /\ StatusAt(s, j, r) /\ FpmAt(s, j, r) /\ ServedAt(s, j, r)
  BY DEF Job, JobForm, InFlight, JobAt
<1>2. /\ r \in 1 .. 3
      /\ r = 3 => Head(j.todo) = "move"
      /\ r = 2 => Head(j.todo) = "reloadCaddy"
      /\ r = 1 => Head(j.todo) = "save"
  BY <1>1, StatusStepsNext
<1>3. Rollback(j) = undoStatus(Head(j.todo))
  BY RollbackIs
<1>4. \A v \in runtimes : fpm[v][s] = pools[v][s]
  BY <1>1 DEF FpmAt, Pending
<1>5. CASE r = 3
  <2>1. Rollback(j) = <<>>
    BY <1>2, <1>3, <1>5 DEF undoStatus
  <2>2. Matches(s, states[s])
    BY <1>1, <1>5 DEF StatusAt, VhostsAre, Matches, VhostsFit
  <2>3. states[s] # None /\ (enabled[s] = None => served[s] = None)
    BY <1>1, <1>5 DEF StatusAt, ServedAt
  <2>. QED
    BY <1>4, <2>1, <2>2, <2>3 DEF AtRest
<1>6. CASE r < 3
  <2>1. Rollback(j) = unstatusSteps
    BY <1>2, <1>3, <1>6 DEF undoStatus, unstatusSteps
  <2>2. k.op = "status" /\ k.undo /\ k.new = j.new /\ k.old = j.old /\ k.vhost = j.vhost /\ Len(k.todo) = 2
    BY <2>1, ProgramsNotEmpty, ProgramLengths DEF Same
  <2>3. StatusAt(s, k, 2)
    BY <1>1, <1>6, <2>2 DEF StatusAt
  <2>4. FpmAt(s, k, 2) /\ ServedAt(s, k, 2)
    BY <1>4, <2>2 DEF FpmAt, ServedAt
  <2>. QED
    BY <2>1, <2>2, <2>3, <2>4, ProgramsNotEmpty DEF InFlight, JobAt
<1>. QED
  BY <1>2, <1>5, <1>6

LEMMA PHPFails ==
    ASSUME SiteTypes, NEW s \in Sites, NEW j \in Job, JobForm(j), j.op = "php", ~j.undo,
           NEW r, Len(j.todo) = r, InFlight(s, j, r),
           NEW k \in Job, Rollback(j) # <<>> => Same(k, j, Rollback(j), TRUE)
    PROVE  IF Rollback(j) = <<>> THEN AtRest(s) ELSE InFlight(s, k, Len(k.todo))
<1>1. /\ j.todo \in Seq(HostSteps) /\ j.old # None /\ TodoOf(phpSteps, j.todo)
      /\ PHPAt(s, j, r) /\ FpmAt(s, j, r) /\ ServedAt(s, j, r)
  BY DEF Job, JobForm, InFlight, JobAt
<1>2. /\ r \in 1 .. 5
      /\ r = 5 => Head(j.todo) = "activatePool"
      /\ r # 5 => Head(j.todo) # "activatePool"
  BY <1>1, PhpStepsNext
<1>3. Rollback(j) = undoPHP(Head(j.todo))
  BY RollbackIs
<1>4. CASE r = 5
  <2>1. Rollback(j) = <<>>
    BY <1>2, <1>3, <1>4 DEF undoPHP
  <2>2. Matches(s, states[s])
    BY <1>1, <1>4 DEF PHPAt, Matches, PoolsAre
  <2>3. states[s] # None /\ (enabled[s] = None => served[s] = None)
    BY <1>1, <1>4 DEF PHPAt, ServedAt
  <2>4. \A v \in runtimes : fpm[v][s] = pools[v][s]
    BY <1>1, <1>4 DEF FpmAt, Pending
  <2>. QED
    BY <2>1, <2>2, <2>3, <2>4 DEF AtRest
<1>5. CASE r # 5
  <2>1. Rollback(j) = unphpSteps
    BY <1>2, <1>3, <1>5 DEF undoPHP, unphpSteps
  <2>2. k.op = "php" /\ k.undo /\ k.new = j.new /\ k.old = j.old /\ k.pool = j.pool /\ Len(k.todo) = 4
    BY <2>1, ProgramsNotEmpty, ProgramLengths DEF Same
  <2>3. PHPAt(s, k, 4)
    BY <1>1, <2>2 DEF PHPAt
  <2>4. FpmAt(s, k, 4) /\ ServedAt(s, k, 4)
    BY <1>1, <2>2 DEF FpmAt, Pending, ServedAt
  <2>. QED
    BY <2>1, <2>2, <2>3, <2>4, ProgramsNotEmpty DEF InFlight, JobAt
<1>. QED
  BY <1>4, <1>5

LEMMA LimitsFails ==
    ASSUME SiteTypes, NEW s \in Sites, NEW j \in Job, JobForm(j), j.op = "limits", ~j.undo,
           NEW r, Len(j.todo) = r, InFlight(s, j, r),
           NEW k \in Job, Rollback(j) # <<>> => Same(k, j, Rollback(j), TRUE)
    PROVE  IF Rollback(j) = <<>> THEN AtRest(s) ELSE InFlight(s, k, Len(k.todo))
<1>1. /\ j.todo \in Seq(HostSteps) /\ j.old # None /\ TodoOf(limitsSteps, j.todo)
      /\ LimitsAt(s, j, r) /\ FpmAt(s, j, r) /\ ServedAt(s, j, r)
  BY DEF Job, JobForm, InFlight, JobAt
<1>2. /\ r \in 1 .. 3
      /\ r = 3 => Head(j.todo) = "activatePool"
      /\ r # 3 => Head(j.todo) # "activatePool"
  BY <1>1, LimitsStepsNext
<1>3. Rollback(j) = undoLimits(Head(j.todo))
  BY RollbackIs
<1>4. CASE r = 3
  <2>1. Rollback(j) = <<>>
    BY <1>2, <1>3, <1>4 DEF undoLimits
  <2>2. Matches(s, states[s])
    BY <1>1, <1>4 DEF LimitsAt, Matches, PoolsAre
  <2>3. states[s] # None /\ (enabled[s] = None => served[s] = None)
    BY <1>1, <1>4 DEF LimitsAt, ServedAt
  <2>4. \A v \in runtimes : fpm[v][s] = pools[v][s]
    BY <1>1, <1>4 DEF FpmAt, Pending
  <2>. QED
    BY <2>1, <2>2, <2>3, <2>4 DEF AtRest
<1>5. CASE r # 3
  <2>1. Rollback(j) = unlimitsSteps
    BY <1>2, <1>3, <1>5 DEF undoLimits, unlimitsSteps
  <2>2. k.op = "limits" /\ k.undo /\ k.new = j.new /\ k.old = j.old /\ k.pool = j.pool /\ Len(k.todo) = 2
    BY <2>1, ProgramsNotEmpty, ProgramLengths DEF Same
  <2>3. LimitsAt(s, k, 2)
    BY <1>1, <2>2 DEF LimitsAt
  <2>4. FpmAt(s, k, 2) /\ ServedAt(s, k, 2)
    BY <1>1, <2>2 DEF FpmAt, Pending, ServedAt
  <2>. QED
    BY <2>1, <2>2, <2>3, <2>4, ProgramsNotEmpty DEF InFlight, JobAt
<1>. QED
  BY <1>4, <1>5

LEMMA DeleteFails ==
    ASSUME SiteTypes, NEW s \in Sites, NEW j \in Job, JobForm(j), j.op = "delete", ~j.undo,
           NEW r, Len(j.todo) = r, InFlight(s, j, r),
           NEW k \in Job, Rollback(j) # <<>> => Same(k, j, Rollback(j), TRUE)
    PROVE  IF Rollback(j) = <<>> THEN AtRest(s) ELSE InFlight(s, k, Len(k.todo))
<1>1. /\ j.todo \in Seq(HostSteps) /\ j.old # None /\ TodoOf(deleteSteps, j.todo)
      /\ j.new = j.old /\ j.new.status = "suspended"
      /\ DeleteAt(s, j, r) /\ FpmAt(s, j, r) /\ ServedAt(s, j, r)
  BY DEF Job, JobForm, InFlight, JobAt
<1>2. /\ r \in 1 .. 6
      /\ r = 6 => Head(j.todo) = "archive"
      /\ r # 6 => Head(j.todo) # "archive"
  BY <1>1, DeleteStepsNext
<1>3. Rollback(j) = undoDelete(Head(j.todo))
  BY RollbackIs
<1>4. CASE r = 6
  <2>1. Rollback(j) = <<>>
    BY <1>2, <1>3, <1>4 DEF undoDelete
  <2>2. Matches(s, states[s])
    BY <1>1, <1>4 DEF DeleteAt, Matches, PoolsAre, VhostsFit, File, Other, Fits, Lives
  <2>3. enabled[s] = None /\ served[s] = None
    BY <1>1, <1>4 DEF DeleteAt, ServedAt
  <2>4. \A v \in runtimes : fpm[v][s] = pools[v][s]
    BY <1>1, <1>4 DEF FpmAt, Pending
  <2>. QED
    BY <2>1, <2>2, <2>3, <2>4 DEF AtRest
<1>5. CASE r # 6
  <2>1. Rollback(j) = undeleteSteps
    BY <1>2, <1>3, <1>5 DEF undoDelete, undeleteSteps
  <2>2. /\ k.op = "delete" /\ k.undo /\ k.new = j.new /\ k.old = j.old /\ k.pool = j.pool
        /\ k.vhost = j.vhost /\ Len(k.todo) = 5
    BY <2>1, ProgramsNotEmpty, ProgramLengths DEF Same
  <2>3. DeleteAt(s, k, 5)
    BY <1>1, <1>2, <1>5, <2>2 DEF DeleteAt
  <2>4. FpmAt(s, k, 5) /\ ServedAt(s, k, 5)
    BY <1>1, <2>2 DEF FpmAt, Pending, ServedAt
  <2>. QED
    BY <2>1, <2>2, <2>3, <2>4, ProgramsNotEmpty DEF InFlight, JobAt
<1>. QED
  BY <1>4, <1>5

\* Whatever the operation and the step that failed.
LEMMA Failing ==
    ASSUME SiteTypes, NEW s \in Sites, NEW j \in Job, JobForm(j), ~j.undo, InFlight(s, j, Len(j.todo)),
           NEW k \in Job, Rollback(j) # <<>> => Same(k, j, Rollback(j), TRUE)
    PROVE  IF Rollback(j) = <<>> THEN AtRest(s) ELSE InFlight(s, k, Len(k.todo))
<1>1. j.op \in {"create", "domains", "install", "status", "php", "limits", "delete"}
  BY DEF Job, Ops
<1>2. PICK r : Len(j.todo) = r /\ InFlight(s, j, r)
  OBVIOUS
<1>. QED
  BY <1>1, <1>2, CreateFails, EditFails, StatusFails, PHPFails, LimitsFails, DeleteFails

\* The programs of the rollbacks.
LEMMA RollbackProgram ==
    ASSUME NEW j
    PROVE  /\ j.op = "create" => Rollback(j) \in {<<>>, <<"userdel", "removeRoot">>, uncreateShort, uncreateSteps}
           /\ j.op \in {"domains", "install"} => Rollback(j) \in {<<>>, uneditSteps}
           /\ j.op = "status" => Rollback(j) \in {<<>>, unstatusSteps}
           /\ j.op = "php" => Rollback(j) \in {<<>>, unphpSteps}
           /\ j.op = "limits" => Rollback(j) \in {<<>>, unlimitsSteps}
           /\ j.op = "delete" => Rollback(j) \in {<<>>, undeleteSteps}
<1>1. undoCreate(Head(j.todo)) \in {<<>>, <<"userdel", "removeRoot">>, uncreateShort, uncreateSteps}
  BY DEF undoCreate, uncreateShort, uncreateSteps
<1>2. undoDomains(Head(j.todo), Len(j.todo) = 1) \in {<<>>, uneditSteps}
  BY DEF undoDomains, uneditSteps
<1>3. undoStatus(Head(j.todo)) \in {<<>>, unstatusSteps}
  BY DEF undoStatus, unstatusSteps
<1>4. undoPHP(Head(j.todo)) \in {<<>>, unphpSteps}
  BY DEF undoPHP, unphpSteps
<1>5. undoLimits(Head(j.todo)) \in {<<>>, unlimitsSteps}
  BY DEF undoLimits, unlimitsSteps
<1>6. undoDelete(Head(j.todo)) \in {<<>>, undeleteSteps}
  BY DEF undoDelete, undeleteSteps
<1>. QED
  BY <1>1, <1>2, <1>3, <1>4, <1>5, <1>6, RollbackIs

LEMMA ProgramTypes ==
    /\ uncreateSteps \in Seq(HostSteps) /\ uncreateShort \in Seq(HostSteps) /\ uneditSteps \in Seq(HostSteps)
    /\ unstatusSteps \in Seq(HostSteps) /\ unphpSteps \in Seq(HostSteps) /\ unlimitsSteps \in Seq(HostSteps)
    /\ undeleteSteps \in Seq(HostSteps) /\ <<"userdel", "removeRoot">> \in Seq(HostSteps)
<1>1. /\ uncreateSteps \in Seq(HostSteps) /\ uncreateShort \in Seq(HostSteps) /\ uneditSteps \in Seq(HostSteps)
      /\ <<"userdel", "removeRoot">> \in Seq(HostSteps)
  BY DEF uncreateSteps, uncreateShort, uneditSteps, HostSteps
<1>2. unstatusSteps \in Seq(HostSteps) /\ unphpSteps \in Seq(HostSteps) /\ unlimitsSteps \in Seq(HostSteps)
  BY DEF unstatusSteps, unphpSteps, unlimitsSteps, HostSteps
<1>3. undeleteSteps \in Seq(HostSteps)
  BY DEF undeleteSteps, HostSteps
<1>. QED
  BY <1>1, <1>2, <1>3

LEMMA WholePrograms ==
    /\ TodoOf(uncreateSteps, uncreateSteps) /\ TodoOf(uncreateShort, uncreateShort)
    /\ TodoOf(uneditSteps, uneditSteps) /\ TodoOf(unstatusSteps, unstatusSteps)
    /\ TodoOf(unphpSteps, unphpSteps) /\ TodoOf(unlimitsSteps, unlimitsSteps)
    /\ TodoOf(undeleteSteps, undeleteSteps)
    /\ TodoOf(createSteps, createSteps) /\ TodoOf(statusSteps, statusSteps)
    /\ TodoOf(phpSteps, phpSteps) /\ TodoOf(limitsSteps, limitsSteps)
    /\ TodoOf(deleteSteps, deleteSteps) /\ TodoOf(resetSteps, resetSteps)
<1>1. TodoOf(uncreateSteps, uncreateSteps)
  <2>1. Len(uncreateSteps) \in Nat \ {0}
    BY ProgramLengths
  <2>. QED
    BY <2>1, TodoWhole
<1>2. TodoOf(uncreateShort, uncreateShort)
  <2>1. Len(uncreateShort) \in Nat \ {0}
    BY ProgramLengths
  <2>. QED
    BY <2>1, TodoWhole
<1>3. TodoOf(uneditSteps, uneditSteps)
  <2>1. Len(uneditSteps) \in Nat \ {0}
    BY ProgramLengths
  <2>. QED
    BY <2>1, TodoWhole
<1>4. TodoOf(unstatusSteps, unstatusSteps)
  <2>1. Len(unstatusSteps) \in Nat \ {0}
    BY ProgramLengths
  <2>. QED
    BY <2>1, TodoWhole
<1>5. TodoOf(unphpSteps, unphpSteps)
  <2>1. Len(unphpSteps) \in Nat \ {0}
    BY ProgramLengths
  <2>. QED
    BY <2>1, TodoWhole
<1>6. TodoOf(unlimitsSteps, unlimitsSteps)
  <2>1. Len(unlimitsSteps) \in Nat \ {0}
    BY ProgramLengths
  <2>. QED
    BY <2>1, TodoWhole
<1>7. TodoOf(undeleteSteps, undeleteSteps)
  <2>1. Len(undeleteSteps) \in Nat \ {0}
    BY ProgramLengths
  <2>. QED
    BY <2>1, TodoWhole
<1>8. TodoOf(createSteps, createSteps)
  <2>1. Len(createSteps) \in Nat \ {0}
    BY ProgramLengths
  <2>. QED
    BY <2>1, TodoWhole
<1>9. TodoOf(statusSteps, statusSteps)
  <2>1. Len(statusSteps) \in Nat \ {0}
    BY ProgramLengths
  <2>. QED
    BY <2>1, TodoWhole
<1>10. TodoOf(phpSteps, phpSteps)
  <2>1. Len(phpSteps) \in Nat \ {0}
    BY ProgramLengths
  <2>. QED
    BY <2>1, TodoWhole
<1>11. TodoOf(limitsSteps, limitsSteps)
  <2>1. Len(limitsSteps) \in Nat \ {0}
    BY ProgramLengths
  <2>. QED
    BY <2>1, TodoWhole
<1>12. TodoOf(deleteSteps, deleteSteps)
  <2>1. Len(deleteSteps) \in Nat \ {0}
    BY ProgramLengths
  <2>. QED
    BY <2>1, TodoWhole
<1>13. TodoOf(resetSteps, resetSteps)
  <2>1. Len(resetSteps) \in Nat \ {0}
    BY ProgramLengths
  <2>. QED
    BY <2>1, TodoWhole
<1>. QED
  BY <1>1, <1>2, <1>3, <1>4, <1>5, <1>6, <1>7, <1>8, <1>9, <1>10, <1>11, <1>12, <1>13

LEMMA FormFails ==
    ASSUME NEW j \in Job, JobForm(j), ~j.undo
    PROVE  /\ Rollback(j) # <<>> => Rollback(j) \in Seq(HostSteps)
           /\ \A k : Rollback(j) # <<>> /\ Same(k, j, Rollback(j), TRUE) => JobForm(k)
<1>1. j.op \in {"create", "domains", "install", "status", "php", "limits", "delete"}
  BY DEF Job, Ops
<1>2. Rollback(j) # <<>> => Rollback(j) \in Seq(HostSteps)
  BY <1>1, RollbackProgram, ProgramTypes
<1>3. ASSUME NEW k, Rollback(j) # <<>>, Same(k, j, Rollback(j), TRUE)
      PROVE  JobForm(k)
  <2>1. k.op = j.op /\ k.new = j.new /\ k.old = j.old /\ k.undo /\ k.todo = Rollback(j)
    BY <1>3 DEF Same
  <2>2. CASE j.op = "create"
    <3>1. TodoOf(uncreateSteps, <<"userdel", "removeRoot">>)
      <4>1. Len(<<"userdel", "removeRoot">>) = 2 /\ Len(uncreateSteps) = 6
        BY ProgramLengths
      <4>2. uncreateSteps[5] = "userdel" /\ uncreateSteps[6] = "removeRoot"
        BY DEF uncreateSteps
      <4>3. <<"userdel", "removeRoot">>[1] = "userdel" /\ <<"userdel", "removeRoot">>[2] = "removeRoot"
        OBVIOUS
      <4>. QED
        BY <4>1, <4>2, <4>3 DEF TodoOf
    <3>2. TodoOf(uncreateSteps, uncreateSteps) /\ TodoOf(uncreateShort, uncreateShort)
      BY WholePrograms
    <3>3. TodoOf(uncreateSteps, k.todo) \/ TodoOf(uncreateShort, k.todo)
      BY <1>3, <2>1, <2>2, <3>1, <3>2, RollbackProgram
    <3>. QED
      BY <2>1, <2>2, <3>3 DEF JobForm
  <2>3. CASE j.op \in {"domains", "install"}
    <3>1. TodoOf(uneditSteps, k.todo)
      BY <1>3, <2>1, <2>3, RollbackProgram, WholePrograms
    <3>. QED
      BY <2>1, <2>3, <3>1 DEF JobForm
  <2>4. CASE j.op = "status"
    <3>1. TodoOf(unstatusSteps, k.todo)
      BY <1>3, <2>1, <2>4, RollbackProgram, WholePrograms
    <3>. QED
      BY <2>1, <2>4, <3>1 DEF JobForm
  <2>5. CASE j.op = "php"
    <3>1. TodoOf(unphpSteps, k.todo)
      BY <1>3, <2>1, <2>5, RollbackProgram, WholePrograms
    <3>. QED
      BY <2>1, <2>5, <3>1 DEF JobForm
  <2>6. CASE j.op = "limits"
    <3>1. TodoOf(unlimitsSteps, k.todo)
      BY <1>3, <2>1, <2>6, RollbackProgram, WholePrograms
    <3>. QED
      BY <2>1, <2>6, <3>1 DEF JobForm
  <2>7. CASE j.op = "delete"
    <3>1. TodoOf(undeleteSteps, k.todo)
      BY <1>3, <2>1, <2>7, RollbackProgram, WholePrograms
    <3>. QED
      BY <2>1, <2>7, <3>1 DEF JobForm
  <2>. QED
    BY <1>1, <2>2, <2>3, <2>4, <2>5, <2>6, <2>7
<1>. QED
  BY <1>2, <1>3
-----------------------------------------------------------------------------
(* What a step on one site leaves of the others.                           *)

LEMMA RestKept ==
    ASSUME NEW t \in Sites, runtimes \subseteq Versions, Untouched(t), CatchesUp(t),
           states'[t] = states[t], AtRest(t)
    PROVE  AtRest(t)'
<1>1. Matches(t, states[t])'
  BY DEF Untouched, AtRest, Matches, Nothing, VhostsFit, Fits, File, Other, Lives, PoolsAre
<1>2. \A v \in runtimes' : fpm'[v][t] = pools'[v][t]
  BY DEF Untouched, CatchesUp, AtRest
<1>3. enabled'[t] = None /\ states'[t] # None => served'[t] = None
  BY DEF Untouched, CatchesUp, AtRest
<1>. QED
  BY <1>1, <1>2, <1>3 DEF AtRest

LEMMA FlightKept ==
    ASSUME NEW t \in Sites, runtimes \subseteq Versions, Untouched(t), CatchesUp(t),
           states'[t] = states[t], NEW j \in Job, JobForm(j), NEW r, InFlight(t, j, r)
    PROVE  InFlight(t, j, r)'
<1>0. j.new.php \in Versions /\ (j.op # "create" => j.old.php \in Versions)
  BY DEF Job, State, JobForm
<1>1. FpmAt(t, j, r)'
  BY DEF InFlight, Untouched, CatchesUp, FpmAt
<1>2. ServedAt(t, j, r)'
  BY DEF InFlight, Untouched, CatchesUp, ServedAt
<1>. USE DEF InFlight, JobAt, Untouched, Lives, VhostsFit, VhostsAre, Fits, File, Other, PoolsAre
<1>3. j.op = "create" => CreateAt(t, j, r)'
  BY DEF CreateAt
<1>4. j.op \in {"domains", "install"} => EditAt(t, j, r)'
  BY DEF EditAt
<1>5. j.op = "status" => StatusAt(t, j, r)'
  BY DEF StatusAt
<1>6. j.op = "php" => PHPAt(t, j, r)'
  BY <1>0 DEF PHPAt
<1>7. j.op = "limits" => LimitsAt(t, j, r)'
  BY <1>0 DEF LimitsAt
<1>8. j.op = "delete" => DeleteAt(t, j, r)'
  BY <1>0 DEF DeleteAt
<1>. QED
  BY <1>1, <1>2, <1>3, <1>4, <1>5, <1>6, <1>7, <1>8

LEMMA ResetKept ==
    ASSUME NEW t \in Sites, runtimes \subseteq Versions, Untouched(t), CatchesUp(t),
           states'[t] = states[t], UNCHANGED reset, NEW r, ResetAt(t, r)
    PROVE  ResetAt(t, r)'
<1>1. \A v \in runtimes' : fpm'[v][t] = pools'[v][t] \/ (v = states'[t].php /\ r = 4)
  BY DEF ResetAt, Untouched, CatchesUp
<1>. QED
  BY <1>1 DEF ResetAt, Untouched, VhostsFit, Fits, File, Other, PoolsAre

\* The host keeps its types, and the files of every other site.
LEMMA HostFrame ==
    ASSUME HostTypes, NEW s \in Sites, NEW j, NEW step, HostStep(s, j, step),
           j \in Job \/ step \in {"reloadFpm", "userdel", "removeRoot"}
    PROVE  /\ HostTypes'
           /\ \A t \in Sites \ {s} : Untouched(t) /\ CatchesUp(t)
           /\ UNCHANGED runtimes
           /\ step \notin {"archive", "unarchive"} => trash'[s] = trash[s]
           /\ step = "archive" => trash'[s] # None
<1>1. ASSUME NEW set, set \subseteq Sites, \A t \in Sites \ {s} : t \in set <=> t \in users, Users(set)
      PROVE  /\ HostTypes' /\ (\A t \in Sites \ {s} : Untouched(t) /\ CatchesUp(t))
             /\ UNCHANGED <<runtimes, trash>>
  BY <1>1 DEF Users, HostTypes, Untouched, CatchesUp, vhosts, php
<1>2. ASSUME NEW root \in Contents \cup {None}, NEW dir \in Contents \cup {None}, Directories(root, dir, s)
      PROVE  /\ HostTypes' /\ (\A t \in Sites \ {s} : Untouched(t) /\ CatchesUp(t))
             /\ UNCHANGED runtimes /\ trash'[s] = dir
  BY <1>2 DEF Directories, HostTypes, Untouched, CatchesUp, vhosts, php
<1>3. ASSUME NEW vhost \in Vhost \cup {None}, WriteVhost(s, j, vhost)
      PROVE  /\ HostTypes' /\ (\A t \in Sites \ {s} : Untouched(t) /\ CatchesUp(t))
             /\ UNCHANGED <<runtimes, trash>>
  <2>1. /\ UNCHANGED <<served, pools, fpm, runtimes, users, roots, trash>>
        /\ \/ disabled' = [disabled EXCEPT ![s] = vhost] /\ enabled' = enabled
           \/ enabled' = [enabled EXCEPT ![s] = vhost] /\ disabled' = disabled
    BY <1>3 DEF WriteVhost, php, host
  <2>2. HostTypes'
    BY <2>1 DEF HostTypes
  <2>3. \A t \in Sites \ {s} : enabled'[t] = enabled[t] /\ disabled'[t] = disabled[t]
    BY <2>1 DEF HostTypes
  <2>. QED
    BY <2>1, <2>2, <2>3 DEF Untouched, CatchesUp
<1>4. ASSUME NEW b, MoveVhost(s, b)
      PROVE  /\ HostTypes' /\ (\A t \in Sites \ {s} : Untouched(t) /\ CatchesUp(t))
             /\ UNCHANGED <<runtimes, trash>>
  BY <1>4 DEF MoveVhost, HostTypes, Untouched, CatchesUp, php, host
<1>5. ASSUME ReloadCaddy
      PROVE  /\ HostTypes' /\ (\A t \in Sites \ {s} : Untouched(t) /\ CatchesUp(t))
             /\ UNCHANGED <<runtimes, trash>>
  BY <1>5 DEF ReloadCaddy, HostTypes, Untouched, CatchesUp, php, host
<1>6. ASSUME NEW v, NEW limits \in Limits \cup {None}, WritePool(s, v, limits)
      PROVE  /\ HostTypes' /\ (\A t \in Sites \ {s} : Untouched(t) /\ CatchesUp(t))
             /\ UNCHANGED <<runtimes, trash>>
  <2>1. /\ HostTypes' /\ UNCHANGED <<vhosts, fpm, runtimes, host>>
        /\ \A w \in Versions, t \in Sites :
              pools'[w][t] = IF w = v /\ t = s THEN limits ELSE pools[w][t]
    BY <1>6, PoolWritten
  <2>. QED
    BY <2>1 DEF Untouched, CatchesUp, vhosts, host
<1>7. ASSUME NEW v, ReloadFpm(v)
      PROVE  /\ HostTypes' /\ (\A t \in Sites \ {s} : Untouched(t) /\ CatchesUp(t))
             /\ UNCHANGED <<runtimes, trash>>
  <2>1. /\ \A w \in Versions, t \in Sites : fpm'[w][t] \in {fpm[w][t], pools[w][t]}
        /\ fpm' \in [Versions -> [Sites -> Limits \cup {None}]]
    BY <1>7 DEF ReloadFpm, HostTypes
  <2>. QED
    BY <1>7, <2>1 DEF ReloadFpm, HostTypes, Untouched, CatchesUp, vhosts, host
<1>8. /\ roots[s] \in Contents \cup {None} /\ trash[s] \in Contents \cup {None}
      /\ "files" \in Contents /\ "wordpress" \in Contents /\ users \subseteq Sites
  BY DEF HostTypes, Contents
<1>9. CASE step \in {"useradd", "userdel"}
  <2>1. Users(users \cup {s}) \/ Users(users \ {s})
    BY <1>9, HostEffect
  <2>2. users \cup {s} \subseteq Sites /\ users \ {s} \subseteq Sites
    BY <1>8
  <2>. QED
    BY <1>1, <1>9, <2>1, <2>2
<1>10. CASE step \in {"mkdir", "wp", "removeRoot"}
  <2>1. \/ Directories("files", trash[s], s) \/ Directories("wordpress", trash[s], s)
        \/ Directories(None, trash[s], s)
    BY <1>10, HostEffect
  <2>. QED
    BY <1>2, <1>8, <1>10, <2>1
<1>11. CASE step \in {"archive", "unarchive"}
  <2>1. /\ step = "archive" => Directories(None, roots[s], s) /\ roots[s] # None
        /\ step = "unarchive" => Directories(trash[s], None, s)
    BY <1>11, HostEffect
  <2>. QED
    BY <1>2, <1>8, <1>11, <2>1
<1>12. CASE step \in {"activateVhost", "restoreVhost", "removeVhost"}
  <2>1. caddyConfigFor(j.new) \in Vhost /\ j.vhost \in Vhost \cup {None}
    BY <1>12 DEF Job, State, Vhost, caddyConfigFor
  <2>2. \/ WriteVhost(s, j, caddyConfigFor(j.new)) \/ WriteVhost(s, j, j.vhost)
        \/ WriteVhost(s, j, None)
    BY <1>12, HostEffect
  <2>. QED
    BY <1>3, <1>12, <2>1, <2>2
<1>13. CASE step \in {"move", "moveBack", "reloadCaddy"}
  BY <1>4, <1>5, <1>13, HostEffect
<1>14. CASE step \in {"activatePool", "removePool", "removeOldPool", "restorePool"}
  <2>1. j.new.limits \in Limits /\ j.pool \in Limits \cup {None}
    BY <1>14 DEF Job, State
  <2>2. \/ WritePool(s, j.new.php, j.new.limits) \/ WritePool(s, j.new.php, None)
        \/ WritePool(s, j.old.php, None) \/ WritePool(s, j.old.php, j.pool)
    BY <1>14, HostEffect
  <2>. QED
    BY <1>6, <1>14, <2>1, <2>2
<1>15. CASE step \in {"reloadFpm", "reloadOldFpm"}
  BY <1>7, <1>15, HostEffect
<1>16. \/ step \in {"useradd", "userdel"} \/ step \in {"mkdir", "wp", "removeRoot"}
       \/ step \in {"archive", "unarchive"} \/ step \in {"activateVhost", "restoreVhost", "removeVhost"}
       \/ step \in {"move", "moveBack", "reloadCaddy"} \/ step \in {"reloadFpm", "reloadOldFpm"}
       \/ step \in {"activatePool", "removePool", "removeOldPool", "restorePool"}
  BY DEF HostStep
<1>. QED
  BY <1>9, <1>10, <1>11, <1>12, <1>13, <1>14, <1>15, <1>16
-----------------------------------------------------------------------------
(* The invariant, for a step that works on one site.                       *)

ControlTypes ==
    /\ states \in [Sites -> State \cup {None}] /\ sitesFile \in [Sites -> State \cup {None}]
    /\ tainted \subseteq Sites
    /\ jobs \in [Sites -> Job \cup {None}]
    /\ reset.site \in Sites \cup {None} /\ reset.rest \subseteq Sites
    /\ removing \in Versions \cup {None}
    /\ ops \in 0 .. MaxOps
    /\ faults \in 0 .. MaxFaults

LEMMA Types == SystemTypes <=> HostTypes /\ ControlTypes
BY DEF SystemTypes, HostTypes, ControlTypes

LEMMA HostIdle ==
    ASSUME HostTypes, UNCHANGED hostVars
    PROVE  HostTypes' /\ UNCHANGED runtimes /\ \A t \in Sites : Untouched(t) /\ CatchesUp(t)
BY DEF hostVars, vhosts, php, host, HostTypes, Untouched, CatchesUp

\* What the invariant says of one site.
LEMMA InvAt ==
    ASSUME ProvInv, NEW s \in Sites
    PROVE  /\ SiteTypes /\ runtimes \subseteq Versions /\ tainted \subseteq Sites
           /\ states[s] \in State \cup {None} /\ jobs[s] \in Job \cup {None}
           /\ jobs[s] # None => /\ jobs[s] \in Job /\ JobForm(jobs[s]) /\ Archived(s, jobs[s])
                                /\ s \in Resetting => s \in tainted
           /\ s \notin tainted => SiteInv(s)
BY Types DEF ProvInv, FormInv, SiteTypes, HostTypes, ControlTypes

LEMMA SiteKept ==
    ASSUME ProvInv, NEW t \in Sites, t \notin tainted, UNCHANGED reset, jobs'[t] = jobs[t],
           states'[t] = states[t], Untouched(t), CatchesUp(t)
    PROVE  SiteInv(t)'
<1>1. /\ SiteInv(t) /\ runtimes \subseteq Versions
      /\ jobs[t] # None => jobs[t] \in Job /\ JobForm(jobs[t])
  BY InvAt
<1>2. CASE jobs[t] # None
  <2>1. PICK j \in Job : j = jobs[t]
    BY <1>1, <1>2
  <2>2. PICK r : r = Len(j.todo)
    OBVIOUS
  <2>3. InFlight(t, j, r)
    BY <1>1, <1>2, <2>1, <2>2 DEF SiteInv
  <2>4. InFlight(t, j, r)'
    BY <1>1, <1>2, <2>1, <2>3, FlightKept
  <2>. QED
    BY <1>2, <2>1, <2>2, <2>4 DEF SiteInv
<1>3. CASE jobs[t] = None /\ t = reset.site
  <2>1. PICK r : r = Len(reset.todo)
    OBVIOUS
  <2>2. ResetAt(t, r)'
    BY <1>1, <1>3, <2>1, ResetKept DEF SiteInv
  <2>. QED
    BY <1>3, <2>1, <2>2 DEF SiteInv
<1>4. CASE jobs[t] = None /\ t # reset.site
  <2>1. AtRest(t)'
    BY <1>1, <1>4, RestKept DEF SiteInv
  <2>. QED
    BY <1>1, <1>4, <2>1 DEF SiteInv
<1>. QED
  BY <1>2, <1>3, <1>4

LEMMA OneSite ==
    ASSUME ProvInv, NEW s \in Sites, UNCHANGED <<reset, removing>>,
           HostTypes', UNCHANGED runtimes, ops' \in 0 .. MaxOps, faults' \in 0 .. MaxFaults,
           states' \in [Sites -> State \cup {None}], sitesFile' = states',
           jobs' \in [Sites -> Job \cup {None}],
           \A t \in Sites \ {s} : /\ Untouched(t) /\ CatchesUp(t)
                                  /\ states'[t] = states[t] /\ jobs'[t] = jobs[t],
           tainted \subseteq tainted', tainted' \subseteq Sites,
           jobs'[s] # None => JobForm(jobs'[s]) /\ Archived(s, jobs[s])',
           s \in Resetting /\ jobs'[s] # None => s \in tainted',
           s \notin tainted' => SiteInv(s)'
    PROVE  ProvInv'
<1>1. SystemTypes'
  <2>1. ControlTypes'
    BY Types DEF ProvInv, ControlTypes
  <2>. QED
    BY <2>1, Types DEF SystemTypes, HostTypes, ControlTypes
<1>2. FormInv'
  <2>1. ASSUME NEW t \in Sites, jobs'[t] # None
        PROVE  JobForm(jobs'[t]) /\ Archived(t, jobs[t])'
    BY <2>1, InvAt DEF Archived, Untouched
  <2>2. ResetForm' /\ Resetting' = Resetting
    BY DEF ProvInv, FormInv, ResetForm, Resetting
  <2>3. \A t \in Resetting : jobs'[t] # None => t \in tainted'
    <3>1. Resetting \subseteq Sites
      BY Types DEF ProvInv, ControlTypes, Resetting
    <3>. QED
      BY <3>1, InvAt
  <2>. QED
    BY <2>1, <2>2, <2>3 DEF FormInv
<1>3. ASSUME NEW t \in Sites, t \notin tainted'
      PROVE  SiteInv(t)'
  <2>1. CASE t # s
    BY <1>3, <2>1, SiteKept
  <2>. QED
    BY <1>3, <2>1
<1>4. Supported \subseteq runtimes' /\ removing' \notin Supported
  BY DEF ProvInv
<1>. QED
  BY <1>1, <1>2, <1>3, <1>4 DEF ProvInv
-----------------------------------------------------------------------------
(* The steps of an operation.                                              *)

\* A write of the record, however it ends: the file and memory stay the same.
LEMMA StoreKeeps ==
    ASSUME SiteTypes, NEW s \in Sites, NEW j, j.new \in State \cup {None}, j.old \in State \cup {None},
           NEW step, NEW outcome \in Outcomes, StoreStep(s, j, step, outcome)
    PROVE  /\ UNCHANGED hostVars /\ states' \in [Sites -> State \cup {None}] /\ sitesFile' = states'
           /\ \A t \in Sites \ {s} : states'[t] = states[t]
           /\ states'[s] \in {states[s], j.new, j.old, None}
           /\ outcome = "failed" => states' = states
           /\ states'[s] = None => states[s] = None \/ step = "forget" \/ None \in {j.new, j.old}
           /\ step \in StoreSteps
<1>. DEFINE st == IF step = "forget" THEN None ELSE IF step = "saveOld" THEN j.old ELSE j.new
<1>1. /\ states' \in {states, [states EXCEPT ![s] = st]} /\ sitesFile' = states'
      /\ outcome = "failed" => states' = states
  BY DEF StoreStep, AtomicWrite, MemoryAfter, IsCommitted, SiteTypes, Outcomes
<1>2. states \in [Sites -> State \cup {None}] /\ st \in State \cup {None}
  BY DEF SiteTypes
<1>3. UNCHANGED hostVars /\ step \in StoreSteps
  BY DEF StoreStep
<1>. QED
  BY <1>1, <1>2, <1>3

LEMMA Continues ==
    ASSUME jobs \in [Sites -> Job \cup {None}], NEW s \in Sites, jobs[s] \in Job,
           NEW todo, todo # <<>> => todo \in Seq(HostSteps), NEW undo \in BOOLEAN, Continue(s, todo, undo)
    PROVE  /\ jobs' \in [Sites -> Job \cup {None}]
           /\ \A t \in Sites \ {s} : jobs'[t] = jobs[t]
           /\ todo = <<>> => jobs'[s] = None
           /\ todo # <<>> => jobs'[s] \in Job /\ jobs'[s] # None /\ Same(jobs'[s], jobs[s], todo, undo)
<1>1. PICK j \in Job : j = jobs[s]
  OBVIOUS
<1>2. CASE todo = <<>>
  BY <1>2 DEF Continue
<1>3. CASE todo # <<>>
  <2>1. PICK k : k = [j EXCEPT !.todo = todo, !.undo = undo]
    OBVIOUS
  <2>2. k \in Job /\ Same(k, j, todo, undo)
    BY <1>3, <2>1 DEF Job, Same
  <2>3. jobs' = [jobs EXCEPT ![s] = k]
    BY <1>1, <1>3, <2>1 DEF Continue
  <2>. QED
    BY <1>1, <1>3, <2>2, <2>3, NoneIsNoEntry
<1>. QED
  BY <1>2, <1>3

\* What a successful step does beside its own site's files.
LEMMA ActsKeeps ==
    ASSUME SiteTypes, NEW s \in Sites, NEW j \in Job, Acts(s, j)
    PROVE  /\ HostTypes' /\ UNCHANGED runtimes
           /\ states' \in [Sites -> State \cup {None}] /\ sitesFile' = states'
           /\ \A t \in Sites \ {s} : Untouched(t) /\ CatchesUp(t) /\ states'[t] = states[t]
           /\ states'[s] \in {states[s], j.new, j.old, None}
           /\ Head(j.todo) \notin {"archive", "unarchive"} => trash'[s] = trash[s]
           /\ Head(j.todo) = "archive" => trash'[s] # None
<1>1. HostTypes /\ states \in [Sites -> State \cup {None}] /\ sitesFile = states
      /\ j.new \in State \cup {None} /\ j.old \in State \cup {None}
  BY DEF SiteTypes, Job
<1>2. CASE HostStep(s, j, Head(j.todo)) /\ UNCHANGED records
  BY <1>1, <1>2, HostFrame DEF records
<1>3. CASE StoreStep(s, j, Head(j.todo), "ok")
  <2>1. /\ UNCHANGED hostVars /\ states' \in [Sites -> State \cup {None}] /\ sitesFile' = states'
        /\ \A t \in Sites \ {s} : states'[t] = states[t]
        /\ states'[s] \in {states[s], j.new, j.old, None}
        /\ Head(j.todo) \in StoreSteps
    BY <1>1, <1>3, StoreKeeps DEF Outcomes
  <2>. QED
    BY <1>1, <2>1, HostIdle DEF hostVars, host, StoreSteps
<1>. QED
  BY <1>2, <1>3 DEF Acts

\* The remaining steps, as numbers.
LEMMA NextTodo ==
    ASSUME NEW j \in Job, JobForm(j), NEW r, Len(j.todo) = r
    PROVE  /\ r \in 1 .. 7 /\ j.undo \in BOOLEAN
           /\ Tail(j.todo) \in Seq(HostSteps)
           /\ r = 1 <=> Tail(j.todo) = <<>>
           /\ Len(Tail(j.todo)) = r - 1
<1>1. j.todo \in Seq(HostSteps) /\ r \in 1 .. 7
  BY JobBusy
<1>2. Len(j.todo) >= 1
  BY <1>1
<1>3. /\ Tail(j.todo) \in Seq(HostSteps) /\ Len(Tail(j.todo)) = Len(j.todo) - 1
      /\ Len(j.todo) = 1 <=> Tail(j.todo) = <<>>
  BY <1>1, <1>2, TailLen
<1>. QED
  BY <1>1, <1>3 DEF Job

LEMMA StepKeeps ==
    ASSUME ProvInv, NEW s \in Sites, Step(s)
    PROVE  ProvInv'
<1>1. PICK j \in Job : j = jobs[s]
  BY InvAt DEF Step
<1>2. /\ j # None /\ JobForm(j) /\ Archived(s, j) /\ (s \in Resetting => s \in tainted)
      /\ SiteTypes /\ tainted \subseteq Sites
  BY <1>1, InvAt DEF Step
<1>3. Acts(s, j) /\ Continue(s, Tail(j.todo), j.undo) /\ UNCHANGED <<reset, removing, ops, faults, tainted>>
  BY <1>1 DEF Step, Acts
<1>4. PICK r : r = Len(j.todo)
  OBVIOUS
<1>5. /\ r \in 1 .. 7 /\ j.undo \in BOOLEAN /\ Tail(j.todo) \in Seq(HostSteps)
      /\ r = 1 <=> Tail(j.todo) = <<>>
      /\ Len(Tail(j.todo)) = r - 1
  BY <1>2, <1>4, NextTodo
<1>6. jobs \in [Sites -> Job \cup {None}] /\ ops \in 0 .. MaxOps /\ faults \in 0 .. MaxFaults
  BY Types DEF ProvInv, ControlTypes
<1>7. /\ jobs' \in [Sites -> Job \cup {None}]
      /\ \A t \in Sites \ {s} : jobs'[t] = jobs[t]
      /\ r = 1 => jobs'[s] = None
      /\ r # 1 => jobs'[s] \in Job /\ jobs'[s] # None /\ Same(jobs'[s], j, Tail(j.todo), j.undo)
  BY <1>1, <1>3, <1>5, <1>6, Continues
<1>8. /\ HostTypes' /\ UNCHANGED runtimes
      /\ states' \in [Sites -> State \cup {None}] /\ sitesFile' = states'
      /\ \A t \in Sites \ {s} : Untouched(t) /\ CatchesUp(t) /\ states'[t] = states[t]
      /\ states'[s] \in {states[s], j.new, j.old, None}
      /\ Head(j.todo) \notin {"archive", "unarchive"} => trash'[s] = trash[s]
      /\ Head(j.todo) = "archive" => trash'[s] # None
  BY <1>2, <1>3, ActsKeeps
<1>9. ASSUME jobs'[s] # None
      PROVE  JobForm(jobs'[s]) /\ Archived(s, jobs[s])'
  <2>1. PICK k \in Job : k = jobs'[s] /\ Same(k, j, Tail(j.todo), j.undo)
    BY <1>7, <1>9
  <2>2. r # 1
    BY <1>7, <1>9
  <2>3. JobForm(k)
    BY <1>2, <1>4, <2>1, <2>2, FormAdvances
  <2>4. ASSUME j.op = "delete", ~j.undo
        PROVE  trash'[s] # None
    <3>1. TodoOf(deleteSteps, j.todo) /\ j.todo \in Seq(HostSteps)
      BY <1>2, <2>4 DEF JobForm, Job
    <3>2. /\ r = 6 => Head(j.todo) = "archive"
          /\ r # 6 => Head(j.todo) \notin {"archive", "unarchive"} /\ r <= 5
      <4>1. /\ r \in 1 .. 6
            /\ r = 6 => Head(j.todo) = "archive"
            /\ r = 5 => Head(j.todo) = "removeVhost"
            /\ r = 4 => Head(j.todo) = "removePool"
            /\ r = 3 => Head(j.todo) = "reloadFpm"
            /\ r = 2 => Head(j.todo) = "forget"
            /\ r = 1 => Head(j.todo) = "userdel"
        BY <1>4, <3>1, DeleteStepsNext
      <4>. QED
        BY <4>1
    <3>3. r # 6 => trash[s] # None
      BY <1>2, <1>4, <2>4, <3>2 DEF Archived
    <3>. QED
      BY <1>8, <3>2, <3>3
  <2>5. k.op = j.op /\ k.undo = j.undo
    BY <2>1 DEF Same
  <2>. QED
    BY <2>1, <2>3, <2>4, <2>5 DEF Archived
<1>10. ASSUME s \notin tainted'
       PROVE  SiteInv(s)'
  <2>1. SiteInv(s) /\ s \notin Resetting
    BY <1>2, <1>3, <1>10, InvAt
  <2>2. InFlight(s, j, r)
    BY <1>1, <1>2, <1>4, <2>1 DEF SiteInv
  <2>4. CASE r = 1
    <3>1. AtRest(s)'
      BY <1>2, <1>3, <1>4, <2>2, <2>4, Acting
    <3>2. s # reset'.site /\ s \notin reset'.rest
      BY <1>3, <2>1, NoneIsNoEntry DEF Resetting
    <3>. QED
      BY <1>7, <2>4, <3>1, <3>2 DEF SiteInv
  <2>5. CASE r # 1
    <3>1. PICK k \in Job : k = jobs'[s] /\ k # None /\ Same(k, j, Tail(j.todo), j.undo)
      BY <1>7, <2>5
    <3>2. InFlight(s, k, r - 1)'
      BY <1>2, <1>3, <1>4, <2>2, <2>5, <3>1, Acting
    <3>3. Len(k.todo) = r - 1
      BY <1>5, <3>1 DEF Same
    <3>. QED
      BY <3>1, <3>2, <3>3 DEF SiteInv
  <2>. QED
    BY <2>4, <2>5
<1>11. /\ UNCHANGED <<reset, removing>> /\ ops' \in 0 .. MaxOps /\ faults' \in 0 .. MaxFaults
       /\ tainted \subseteq tainted' /\ tainted' \subseteq Sites
       /\ s \in Resetting /\ jobs'[s] # None => s \in tainted'
       /\ \A t \in Sites \ {s} : /\ Untouched(t) /\ CatchesUp(t)
                                 /\ states'[t] = states[t] /\ jobs'[t] = jobs[t]
  BY <1>2, <1>3, <1>6, <1>7, <1>8
<1>. QED
  BY <1>7, <1>8, <1>9, <1>10, <1>11, OneSite

\* An error of a step changes at most the record of its site.
LEMMA ErrorKeeps ==
    ASSUME SiteTypes, faults \in 0 .. MaxFaults, NEW s \in Sites, NEW j,
           j.new \in State \cup {None}, j.old \in State \cup {None}, NEW step,
           \/ HostError(s, j, step)
           \/ \E o \in {"failed", "committed"} : StoreError(s, j, step, o)
    PROVE  /\ UNCHANGED hostVars /\ faults' \in 0 .. MaxFaults
           /\ states' \in [Sites -> State \cup {None}] /\ sitesFile' = states'
           /\ \A t \in Sites \ {s} : states'[t] = states[t]
           /\ states'[s] \in {states[s], j.new, j.old, None}
           /\ states'[s] = None => states[s] = None \/ step = "forget" \/ None \in {j.new, j.old}
<1>1. MaxFaults \in Nat
  BY ProvisionerAssumption
<1>2. CASE HostError(s, j, step)
  BY <1>1, <1>2 DEF HostError, SiteTypes, records
<1>3. ASSUME NEW o \in {"failed", "committed"}, StoreError(s, j, step, o)
      PROVE  /\ UNCHANGED hostVars /\ faults' \in 0 .. MaxFaults
             /\ states' \in [Sites -> State \cup {None}] /\ sitesFile' = states'
             /\ \A t \in Sites \ {s} : states'[t] = states[t]
             /\ states'[s] \in {states[s], j.new, j.old, None}
             /\ states'[s] = None => states[s] = None \/ step = "forget" \/ None \in {j.new, j.old}
  <2>1. StoreStep(s, j, step, o) /\ faults' \in 0 .. MaxFaults /\ o \in Outcomes
    BY <1>1, <1>3 DEF StoreError, Outcomes
  <2>. QED
    BY <2>1, StoreKeeps
<1>. QED
  BY <1>2, <1>3

LEMMA FailKeeps ==
    ASSUME ProvInv, NEW s \in Sites, Fail(s)
    PROVE  ProvInv'
<1>1. PICK j \in Job : j = jobs[s]
  BY InvAt DEF Fail
<1>2. /\ j # None /\ JobForm(j) /\ (s \in Resetting => s \in tainted) /\ ~j.undo
      /\ SiteTypes /\ HostTypes /\ tainted \subseteq Sites /\ runtimes \subseteq Versions
      /\ j.new \in State \cup {None} /\ j.old \in State \cup {None}
  BY <1>1, InvAt DEF Fail, SiteTypes, Job
<1>3. /\ HostError(s, j, Head(j.todo)) \/ StoreError(s, j, Head(j.todo), "failed")
      /\ Continue(s, Rollback(j), TRUE) /\ UNCHANGED <<reset, removing, ops, tainted>>
  BY <1>1 DEF Fail
<1>4. jobs \in [Sites -> Job \cup {None}] /\ ops \in 0 .. MaxOps /\ faults \in 0 .. MaxFaults
  BY Types DEF ProvInv, ControlTypes
<1>5. UNCHANGED hostVars /\ faults' \in 0 .. MaxFaults /\ states' = states /\ sitesFile' = states'
  <2>1. CASE HostError(s, j, Head(j.todo))
    BY <1>2, <1>4, <2>1, ErrorKeeps DEF HostError, records
  <2>2. CASE StoreError(s, j, Head(j.todo), "failed")
    <3>1. StoreStep(s, j, Head(j.todo), "failed") /\ "failed" \in Outcomes
      BY <2>2 DEF StoreError, Outcomes
    <3>2. states' = states
      BY <1>2, <3>1, StoreKeeps
    <3>. QED
      BY <1>2, <1>4, <2>2, <3>2, ErrorKeeps
  <2>. QED
    BY <1>3, <2>1, <2>2
<1>6. /\ Rollback(j) # <<>> => Rollback(j) \in Seq(HostSteps)
      /\ \A k : Rollback(j) # <<>> /\ Same(k, j, Rollback(j), TRUE) => JobForm(k)
  BY <1>2, FormFails
<1>7. /\ jobs' \in [Sites -> Job \cup {None}]
      /\ \A t \in Sites \ {s} : jobs'[t] = jobs[t]
      /\ Rollback(j) = <<>> => jobs'[s] = None
      /\ Rollback(j) # <<>> => jobs'[s] \in Job /\ jobs'[s] # None /\ Same(jobs'[s], j, Rollback(j), TRUE)
  BY <1>1, <1>3, <1>4, <1>6, Continues
<1>8. HostTypes' /\ UNCHANGED runtimes /\ \A t \in Sites : Untouched(t) /\ CatchesUp(t)
  BY <1>2, <1>5, HostIdle
<1>9. ASSUME jobs'[s] # None
      PROVE  JobForm(jobs'[s]) /\ Archived(s, jobs[s])'
  BY <1>6, <1>7, <1>9 DEF Same, Archived
<1>10. ASSUME s \notin tainted'
       PROVE  SiteInv(s)'
  <2>1. SiteInv(s) /\ s \notin Resetting
    BY <1>2, <1>3, <1>10, InvAt
  <2>2. InFlight(s, j, Len(j.todo))
    BY <1>1, <1>2, <2>1 DEF SiteInv
  <2>4. CASE Rollback(j) = <<>>
    <3>1. AtRest(s)
      BY <1>2, <2>2, <2>4, Failing
    <3>2. AtRest(s)'
      BY <1>2, <1>5, <1>8, <3>1, RestKept
    <3>3. s # reset'.site /\ s \notin reset'.rest
      BY <1>3, <2>1, NoneIsNoEntry DEF Resetting
    <3>. QED
      BY <1>7, <2>4, <3>2, <3>3 DEF SiteInv
  <2>5. CASE Rollback(j) # <<>>
    <3>1. PICK k \in Job : k = jobs'[s] /\ k # None /\ Same(k, j, Rollback(j), TRUE)
      BY <1>7, <2>5
    <3>2. PICK q : q = Len(k.todo)
      OBVIOUS
    <3>3. InFlight(s, k, q) /\ JobForm(k)
      BY <1>2, <1>6, <2>2, <2>5, <3>1, <3>2, Failing
    <3>4. InFlight(s, k, q)'
      BY <1>2, <1>5, <1>8, <3>3, FlightKept
    <3>. QED
      BY <3>1, <3>2, <3>4 DEF SiteInv
  <2>. QED
    BY <2>4, <2>5
<1>11. /\ UNCHANGED <<reset, removing>> /\ ops' \in 0 .. MaxOps
       /\ tainted \subseteq tainted' /\ tainted' \subseteq Sites
       /\ s \in Resetting /\ jobs'[s] # None => s \in tainted'
       /\ states' \in [Sites -> State \cup {None}]
       /\ \A t \in Sites \ {s} : /\ Untouched(t) /\ CatchesUp(t)
                                 /\ states'[t] = states[t] /\ jobs'[t] = jobs[t]
  BY <1>2, <1>3, <1>4, <1>5, <1>7, <1>8 DEF SiteTypes
<1>. QED
  BY <1>5, <1>7, <1>8, <1>9, <1>10, <1>11, OneSite

LEMMA FailCommittedKeeps ==
    ASSUME ProvInv, NEW s \in Sites, FailCommitted(s)
    PROVE  ProvInv'
<1>1. PICK j \in Job : j = jobs[s]
  BY InvAt DEF FailCommitted
<1>2. /\ j # None /\ JobForm(j) /\ ~j.undo
      /\ SiteTypes /\ HostTypes /\ tainted \subseteq Sites
      /\ j.new \in State \cup {None} /\ j.old \in State \cup {None}
  BY <1>1, InvAt DEF FailCommitted, SiteTypes, Job
<1>3. /\ StoreError(s, j, Head(j.todo), "committed")
      /\ Continue(s, Rollback(j), TRUE) /\ UNCHANGED <<reset, removing, ops>> /\ tainted' = tainted \cup {s}
  BY <1>1 DEF FailCommitted
<1>4. jobs \in [Sites -> Job \cup {None}] /\ ops \in 0 .. MaxOps /\ faults \in 0 .. MaxFaults
  BY Types DEF ProvInv, ControlTypes
<1>5. /\ UNCHANGED hostVars /\ faults' \in 0 .. MaxFaults
      /\ states' \in [Sites -> State \cup {None}] /\ sitesFile' = states'
      /\ \A t \in Sites \ {s} : states'[t] = states[t]
  BY <1>2, <1>3, <1>4, ErrorKeeps
<1>6. /\ Rollback(j) # <<>> => Rollback(j) \in Seq(HostSteps)
      /\ \A k : Rollback(j) # <<>> /\ Same(k, j, Rollback(j), TRUE) => JobForm(k)
  BY <1>2, FormFails
<1>7. /\ jobs' \in [Sites -> Job \cup {None}]
      /\ \A t \in Sites \ {s} : jobs'[t] = jobs[t]
      /\ Rollback(j) = <<>> => jobs'[s] = None
      /\ Rollback(j) # <<>> => jobs'[s] \in Job /\ jobs'[s] # None /\ Same(jobs'[s], j, Rollback(j), TRUE)
  BY <1>1, <1>3, <1>4, <1>6, Continues
<1>8. HostTypes' /\ UNCHANGED runtimes /\ \A t \in Sites : Untouched(t) /\ CatchesUp(t)
  BY <1>2, <1>5, HostIdle
<1>9. ASSUME jobs'[s] # None
      PROVE  JobForm(jobs'[s]) /\ Archived(s, jobs[s])'
  BY <1>6, <1>7, <1>9 DEF Same, Archived
<1>10. /\ UNCHANGED <<reset, removing>> /\ ops' \in 0 .. MaxOps
       /\ tainted \subseteq tainted' /\ tainted' \subseteq Sites /\ s \in tainted'
       /\ \A t \in Sites \ {s} : /\ Untouched(t) /\ CatchesUp(t)
                                 /\ states'[t] = states[t] /\ jobs'[t] = jobs[t]
  BY <1>2, <1>3, <1>4, <1>5, <1>7, <1>8
<1>. QED
  BY <1>5, <1>7, <1>8, <1>9, <1>10, OneSite

LEMMA FailUndoKeeps ==
    ASSUME ProvInv, NEW s \in Sites, FailUndo(s)
    PROVE  ProvInv'
<1>1. PICK j \in Job : j = jobs[s]
  BY InvAt DEF FailUndo
<1>2. /\ j # None /\ JobForm(j) /\ j.undo
      /\ SiteTypes /\ HostTypes /\ tainted \subseteq Sites
      /\ j.new \in State \cup {None} /\ j.old \in State \cup {None}
  BY <1>1, InvAt DEF FailUndo, SiteTypes, Job
<1>3. /\ \/ HostError(s, j, Head(j.todo))
         \/ \E o \in {"failed", "committed"} : StoreError(s, j, Head(j.todo), o)
      /\ Continue(s, Tail(j.todo), TRUE) /\ UNCHANGED <<reset, removing, ops>> /\ tainted' = tainted \cup {s}
  BY <1>1 DEF FailUndo
<1>4. jobs \in [Sites -> Job \cup {None}] /\ ops \in 0 .. MaxOps /\ faults \in 0 .. MaxFaults
  BY Types DEF ProvInv, ControlTypes
<1>5. /\ UNCHANGED hostVars /\ faults' \in 0 .. MaxFaults
      /\ states' \in [Sites -> State \cup {None}] /\ sitesFile' = states'
      /\ \A t \in Sites \ {s} : states'[t] = states[t]
  BY <1>2, <1>3, <1>4, ErrorKeeps
<1>6. PICK r : r = Len(j.todo)
  OBVIOUS
<1>7. Tail(j.todo) \in Seq(HostSteps) /\ (r = 1 <=> Tail(j.todo) = <<>>)
  BY <1>2, <1>6, NextTodo
<1>8. /\ jobs' \in [Sites -> Job \cup {None}]
      /\ \A t \in Sites \ {s} : jobs'[t] = jobs[t]
      /\ r = 1 => jobs'[s] = None
      /\ r # 1 => jobs'[s] \in Job /\ jobs'[s] # None /\ Same(jobs'[s], j, Tail(j.todo), TRUE)
  BY <1>1, <1>3, <1>4, <1>7, Continues
<1>9. HostTypes' /\ UNCHANGED runtimes /\ \A t \in Sites : Untouched(t) /\ CatchesUp(t)
  BY <1>2, <1>5, HostIdle
<1>10. ASSUME jobs'[s] # None
       PROVE  JobForm(jobs'[s]) /\ Archived(s, jobs[s])'
  <2>1. PICK k \in Job : k = jobs'[s] /\ Same(k, j, Tail(j.todo), TRUE) /\ r # 1
    BY <1>8, <1>10
  <2>2. j.undo = TRUE
    BY <1>2 DEF Job
  <2>3. JobForm(k)
    BY <1>2, <1>6, <2>1, <2>2, FormAdvances
  <2>. QED
    BY <2>1, <2>3 DEF Same, Archived
<1>11. /\ UNCHANGED <<reset, removing>> /\ ops' \in 0 .. MaxOps
       /\ tainted \subseteq tainted' /\ tainted' \subseteq Sites /\ s \in tainted'
       /\ \A t \in Sites \ {s} : /\ Untouched(t) /\ CatchesUp(t)
                                 /\ states'[t] = states[t] /\ jobs'[t] = jobs[t]
  BY <1>2, <1>3, <1>4, <1>5, <1>8, <1>9
<1>. QED
  BY <1>5, <1>8, <1>9, <1>10, <1>11, OneSite
-----------------------------------------------------------------------------
(* The operations begin.                                                   *)

\* k is the operation that has just read the site.
Fresh(k, s, op, new, todo) ==
    /\ k.op = op /\ k.new = new /\ k.old = states[s] /\ k.todo = todo /\ k.undo = FALSE
    /\ k.vhost = IF states[s] = None THEN None ELSE File(s, states[s].status)
    /\ k.pool = IF states[s] = None THEN None ELSE pools[states[s].php][s]

LEMMA BeginKeeps ==
    ASSUME ProvInv, NEW s \in Sites, NEW op \in Ops, NEW new \in State,
           NEW todo, todo # <<>> => todo \in Seq(HostSteps), Begin(s, op, new, todo),
           op = "delete" => ~(Len(todo) <= 5),
           \A k \in Job : todo # <<>> /\ Fresh(k, s, op, new, todo) =>
               JobForm(k) /\ (AtRest(s) => InFlight(s, k, Len(todo)))
    PROVE  ProvInv'
<1>1. /\ jobs[s] = None /\ UNCHANGED <<records, hostVars, reset, removing, faults>>
      /\ tainted' = tainted \cup Overlapping'
  BY DEF Begin
<1>2. /\ jobs \in [Sites -> Job \cup {None}] /\ ops' \in 0 .. MaxOps /\ faults' \in 0 .. MaxFaults
  BY Types, ProvisionerAssumption DEF ProvInv, ControlTypes, Begin
<1>3. /\ SiteTypes /\ HostTypes /\ runtimes \subseteq Versions /\ tainted \subseteq Sites
      /\ states[s] \in State \cup {None}
      /\ states[s] \in State => states[s].php \in Versions
  BY InvAt DEF SiteTypes, State
<1>0. PICK k : k = [op |-> op, new |-> new, old |-> states[s], todo |-> todo, undo |-> FALSE,
                  vhost |-> IF states[s] = None THEN None
                            ELSE IF states[s].status = "suspended" THEN disabled[s]
                            ELSE enabled[s],
                  pool |-> IF states[s] = None THEN None ELSE pools[states[s].php][s]]
  OBVIOUS
<1>4. todo # <<>> => k \in Job /\ k # None /\ Fresh(k, s, op, new, todo)
  <2>1. disabled[s] \in Vhost \cup {None} /\ enabled[s] \in Vhost \cup {None}
    BY <1>3 DEF HostTypes
  <2>2. states[s] # None => pools[states[s].php][s] \in Limits \cup {None}
    BY <1>3 DEF HostTypes
  <2>3. todo # <<>> => k \in Job
    <3>1. PICK vhost \in Vhost \cup {None} : vhost = k.vhost
      BY <1>0, <2>1
    <3>2. PICK pool \in Limits \cup {None} : pool = k.pool
      BY <1>0, <2>2
    <3>3. k = [op |-> op, new |-> new, old |-> states[s], todo |-> todo, undo |-> FALSE,
               vhost |-> vhost, pool |-> pool]
      BY <1>0, <3>1, <3>2
    <3>. QED
      BY <1>3, <3>3 DEF Job
  <2>4. Fresh(k, s, op, new, todo)
    BY <1>0 DEF Fresh, File
  <2>. QED
    BY <2>3, <2>4, NoneIsNoEntry
<1>5. jobs' = IF todo = <<>> THEN jobs ELSE [jobs EXCEPT ![s] = k]
  BY <1>0 DEF Begin
<1>6. /\ jobs' \in [Sites -> Job \cup {None}]
      /\ \A t \in Sites \ {s} : jobs'[t] = jobs[t]
      /\ jobs'[s] = IF todo = <<>> THEN None ELSE k
  BY <1>1, <1>2, <1>4, <1>5
<1>7. HostTypes' /\ UNCHANGED runtimes /\ \A t \in Sites : Untouched(t) /\ CatchesUp(t)
  BY <1>1, <1>3, HostIdle
<1>8. UNCHANGED <<states, sitesFile>> /\ sitesFile' = states' /\ states' \in [Sites -> State \cup {None}]
  BY <1>1, <1>3 DEF records, SiteTypes
<1>9. ASSUME jobs'[s] # None
      PROVE  JobForm(jobs'[s]) /\ Archived(s, jobs[s])'
  <2>1. JobForm(k) /\ jobs'[s] = k /\ k.op = op /\ k.todo = todo
    BY <1>4, <1>6, <1>9 DEF Fresh
  <2>. QED
    BY <2>1 DEF Archived
<1>10. jobs'[s] # None /\ s \in Resetting => s \in tainted'
  BY <1>1, <1>6 DEF Overlapping, Resetting
<1>11. ASSUME s \notin tainted'
       PROVE  SiteInv(s)'
  <2>1. SiteInv(s)
    BY <1>1, <1>11, InvAt
  <2>2. CASE todo = <<>>
    BY <1>1, <1>6, <1>7, <1>8, <1>11, <2>2, SiteKept
  <2>3. CASE todo # <<>>
    <3>1. k \in Job /\ k # None /\ Fresh(k, s, op, new, todo) /\ jobs'[s] = k
      BY <1>4, <1>6, <2>3
    <3>2. s # reset.site
      BY <1>10, <1>11, <3>1, NoneIsNoEntry DEF Resetting
    <3>3. AtRest(s)
      BY <1>1, <2>1, <3>2 DEF SiteInv
    <3>4. PICK r : r = Len(todo)
      OBVIOUS
    <3>5. JobForm(k) /\ InFlight(s, k, r)
      BY <2>3, <3>1, <3>3, <3>4
    <3>6. InFlight(s, k, r)'
      BY <1>3, <1>7, <1>8, <3>1, <3>5, FlightKept
    <3>. QED
      BY <3>1, <3>4, <3>6 DEF SiteInv, Fresh
  <2>. QED
    BY <2>2, <2>3
<1>12. tainted \subseteq tainted' /\ tainted' \subseteq Sites
  BY <1>1, <1>3, Types DEF Overlapping, Resetting, ProvInv, ControlTypes
<1>13. /\ UNCHANGED <<reset, removing>> /\ (s \in Resetting /\ jobs'[s] # None => s \in tainted')
       /\ \A t \in Sites \ {s} : /\ Untouched(t) /\ CatchesUp(t)
                                 /\ states'[t] = states[t] /\ jobs'[t] = jobs[t]
  BY <1>1, <1>6, <1>7, <1>8, <1>10
<1>. QED
  BY <1>2, <1>6, <1>7, <1>8, <1>9, <1>11, <1>12, <1>13, OneSite

LEMMA CreateKeeps ==
    ASSUME ProvInv, NEW s \in Sites, NEW v \in Versions, NEW l \in Limits, Create(s, v, l)
    PROVE  ProvInv'
<1>1. /\ v \in Supported /\ roots[s] = None /\ Begin(s, "create", NewState(s, v, l), createSteps)
  BY DEF Create, ValidateNewSite, createSteps
<1>2. NewState(s, v, l) \in State /\ "create" \in Ops /\ createSteps \in Seq(HostSteps)
  BY DEF NewState, State, Domains, Ops, createSteps, HostSteps
<1>3. /\ NewState(s, v, l).php = v /\ NewState(s, v, l).status = "active" /\ NewState(s, v, l).domains = {s}
  BY DEF NewState
<1>4. ASSUME NEW k \in Job, Fresh(k, s, "create", NewState(s, v, l), createSteps)
      PROVE  JobForm(k) /\ (AtRest(s) => InFlight(s, k, Len(createSteps)))
  <2>1. k.op = "create" /\ ~k.undo /\ k.new = NewState(s, v, l) /\ k.old = states[s] /\ k.todo = createSteps
    BY <1>4 DEF Fresh
  <2>2. JobForm(k)
    BY <1>1, <1>3, <2>1, WholePrograms DEF JobForm
  <2>3. ASSUME AtRest(s)
        PROVE  InFlight(s, k, 7)
    <3>1. states[s] = None /\ Nothing(s) /\ \A w \in runtimes : fpm[w][s] = pools[w][s]
      BY <1>1, <2>3 DEF AtRest, Matches, Lives
    <3>2. CreateAt(s, k, 7)
      BY <1>3, <2>1, <3>1 DEF CreateAt, Nothing, PoolsAre
    <3>. QED
      BY <2>1, <3>1, <3>2 DEF InFlight, JobAt, FpmAt, ServedAt
  <2>. QED
    BY <2>2, <2>3, ProgramLengths
<1>. QED
  BY <1>1, <1>2, <1>3, <1>4, BeginKeeps

\* One more step at the front.
LEMMA TodoPrepend ==
    ASSUME NEW p, Len(p) \in Nat, NEW t \in Seq(HostSteps), Len(t) \in Nat,
           TodoOf(p, t), Len(t) < Len(p), NEW x \in HostSteps, p[Len(p) - Len(t)] = x
    PROVE  <<x>> \o t \in Seq(HostSteps) /\ Len(<<x>> \o t) = Len(t) + 1 /\ TodoOf(p, <<x>> \o t)
<1>0. PICK n \in Nat, m \in Nat : n = Len(p) /\ m = Len(t) /\ m < n /\ p[n - m] = x
  OBVIOUS
<1>1. <<x>> \in Seq(HostSteps) /\ Len(<<x>>) = 1 /\ <<x>>[1] = x
  OBVIOUS
<1>2. PICK u : u = <<x>> \o t
  OBVIOUS
<1>3. u \in Seq(HostSteps) /\ Len(u) = 1 + m /\ \A i \in 1 .. 1 + m : u[i] = IF i <= 1 THEN x ELSE t[i - 1]
  BY <1>0, <1>1, <1>2, ConcatProperties
<1>4. ASSUME NEW i \in 1 .. m + 1
      PROVE  u[i] = p[n - (m + 1) + i]
  <2>1. CASE i = 1
    <3>1. n - (m + 1) + 1 = n - m
      BY <1>0
    <3>. QED
      BY <1>0, <1>3, <2>1, <3>1
  <2>2. CASE i > 1
    <3>1. i - 1 \in 1 .. m /\ n - m + (i - 1) = n - (m + 1) + i /\ ~(i <= 1) /\ i \in 1 .. 1 + m
      BY <1>0, <1>4, <2>2
    <3>2. t[i - 1] = p[n - m + (i - 1)]
      BY <1>0, <3>1 DEF TodoOf
    <3>. QED
      BY <1>3, <3>1, <3>2
  <2>. QED
    BY <1>4, <2>1, <2>2
<1>5. PICK q : q = m + 1
  OBVIOUS
<1>6. Len(u) = q /\ q \in 1 .. n /\ \A i \in 1 .. q : u[i] = p[n - q + i]
  BY <1>0, <1>3, <1>4, <1>5
<1>7. TodoOf(p, u)
  BY <1>0, <1>6 DEF TodoOf
<1>. QED
  BY <1>0, <1>2, <1>3, <1>7

\* t is what r steps of an edit of `new` are left.
EditTodo(new, t, r) ==
    /\ t \in Seq(HostSteps) /\ Len(t) = r
    /\ TodoOf(IF new.status = "suspended" THEN editQuietly ELSE editSteps, t)

\* The steps of AddDomain and RemoveDomain, of a retried site.app.install and
\* of a first one are the ends of one program.
LEMMA EditPrograms ==
    ASSUME NEW new
    PROVE  \E r \in {2, 3} :
              /\ r = IF new.status = "suspended" THEN 2 ELSE 3
              /\ EditTodo(new, applyDomains(new), r)
              /\ EditTodo(new, <<"save">> \o applyDomains(new), r + 1)
              /\ EditTodo(new, <<"wp">> \o (<<"save">> \o applyDomains(new)), r + 2)
<1>1. /\ Len(editQuietly) = 4 /\ editQuietly[1] = "wp" /\ editQuietly[2] = "save"
      /\ editQuietly[3] = "activateVhost" /\ editQuietly[4] = "save"
  BY DEF editQuietly
<1>2. /\ Len(editSteps) = 5 /\ editSteps[1] = "wp" /\ editSteps[2] = "save"
      /\ editSteps[3] = "activateVhost" /\ editSteps[4] = "reloadCaddy" /\ editSteps[5] = "save"
  BY DEF editSteps
<1>3. "save" \in HostSteps /\ "wp" \in HostSteps
  BY DEF HostSteps
<1>4. CASE new.status = "suspended"
  <2>1. PICK t : t = <<"activateVhost", "save">>
    OBVIOUS
  <2>2. t \in Seq(HostSteps) /\ Len(t) = 2 /\ t[1] = "activateVhost" /\ t[2] = "save" /\ applyDomains(new) = t
    BY <1>4, <2>1 DEF applyDomains, HostSteps
  <2>3. TodoOf(editQuietly, t)
    BY <1>1, <2>2 DEF TodoOf
  <2>4. PICK u : u = <<"save">> \o t
    OBVIOUS
  <2>5. u \in Seq(HostSteps) /\ Len(u) = 3 /\ TodoOf(editQuietly, u)
    <3>1. /\ Len(editQuietly) \in Nat /\ Len(t) \in Nat /\ Len(t) < Len(editQuietly)
          /\ editQuietly[Len(editQuietly) - Len(t)] = "save"
      BY <1>1, <2>2
    <3>2. t \in Seq(HostSteps)
      BY <2>2
    <3>3. /\ <<"save">> \o t \in Seq(HostSteps) /\ Len(<<"save">> \o t) = Len(t) + 1
          /\ TodoOf(editQuietly, <<"save">> \o t)
      BY <1>3, <2>3, <3>1, <3>2, TodoPrepend
    <3>. QED
      BY <2>2, <2>4, <3>3
  <2>6. <<"wp">> \o u \in Seq(HostSteps) /\ Len(<<"wp">> \o u) = 4 /\ TodoOf(editQuietly, <<"wp">> \o u)
    <3>1. /\ Len(editQuietly) \in Nat /\ Len(u) \in Nat /\ Len(u) < Len(editQuietly)
          /\ editQuietly[Len(editQuietly) - Len(u)] = "wp"
      BY <1>1, <2>5
    <3>2. <<"wp">> \o u \in Seq(HostSteps) /\ Len(<<"wp">> \o u) = Len(u) + 1 /\ TodoOf(editQuietly, <<"wp">> \o u)
      BY <1>1, <2>5, <1>3, <3>1, TodoPrepend
    <3>. QED
      BY <1>1, <2>5, <3>2
  <2>. QED
    BY <1>4, <2>2, <2>3, <2>4, <2>5, <2>6 DEF EditTodo
<1>5. CASE new.status # "suspended"
  <2>1. PICK t : t = <<"activateVhost", "reloadCaddy", "save">>
    OBVIOUS
  <2>2. /\ t \in Seq(HostSteps) /\ Len(t) = 3 /\ t[1] = "activateVhost" /\ t[2] = "reloadCaddy" /\ t[3] = "save"
        /\ applyDomains(new) = t
    BY <1>5, <2>1 DEF applyDomains, HostSteps
  <2>3. TodoOf(editSteps, t)
    BY <1>2, <2>2 DEF TodoOf
  <2>4. PICK u : u = <<"save">> \o t
    OBVIOUS
  <2>5. u \in Seq(HostSteps) /\ Len(u) = 4 /\ TodoOf(editSteps, u)
    <3>1. /\ Len(editSteps) \in Nat /\ Len(t) \in Nat /\ Len(t) < Len(editSteps)
          /\ editSteps[Len(editSteps) - Len(t)] = "save"
      BY <1>2, <2>2
    <3>2. t \in Seq(HostSteps)
      BY <2>2
    <3>3. /\ <<"save">> \o t \in Seq(HostSteps) /\ Len(<<"save">> \o t) = Len(t) + 1
          /\ TodoOf(editSteps, <<"save">> \o t)
      BY <1>3, <2>3, <3>1, <3>2, TodoPrepend
    <3>. QED
      BY <2>2, <2>4, <3>3
  <2>6. <<"wp">> \o u \in Seq(HostSteps) /\ Len(<<"wp">> \o u) = 5 /\ TodoOf(editSteps, <<"wp">> \o u)
    <3>1. /\ Len(editSteps) \in Nat /\ Len(u) \in Nat /\ Len(u) < Len(editSteps)
          /\ editSteps[Len(editSteps) - Len(u)] = "wp"
      BY <1>2, <2>5
    <3>2. <<"wp">> \o u \in Seq(HostSteps) /\ Len(<<"wp">> \o u) = Len(u) + 1 /\ TodoOf(editSteps, <<"wp">> \o u)
      BY <1>2, <2>5, <1>3, <3>1, TodoPrepend
    <3>. QED
      BY <1>2, <2>5, <3>2
  <2>. QED
    BY <1>5, <2>2, <2>3, <2>4, <2>5, <2>6 DEF EditTodo
<1>. QED
  BY <1>4, <1>5

LEMMA EditBegins ==
    ASSUME NEW s \in Sites, states[s] \in State, NEW op \in {"domains", "install"}, NEW new \in State,
           NEW todo, NEW r, Len(todo) = r, NEW k \in Job, Fresh(k, s, op, new, todo),
           new.status = states[s].status, new.php = states[s].php, new.limits = states[s].limits,
           op = "domains" => new.app = states[s].app,
           op = "install" => new.app /\ new.domains = states[s].domains,
           IF new.status = "suspended"
           THEN TodoOf(editQuietly, todo) /\ (r = 2 \/ (op = "install" /\ r \in {3, 4}))
           ELSE TodoOf(editSteps, todo) /\ (r = 3 \/ (op = "install" /\ r \in {4, 5}))
    PROVE  JobForm(k) /\ (AtRest(s) => InFlight(s, k, Len(todo)))
<1>1. /\ k.op = op /\ ~k.undo /\ k.new = new /\ k.old = states[s] /\ k.todo = todo
      /\ k.vhost = File(s, states[s].status) /\ states[s] # None
      /\ new.status \in {"active", "suspended"}
  BY NoneIsNoEntry DEF Fresh, State
<1>2. JobForm(k)
  <2>1. op = "domains" => r <= (IF new.status = "active" THEN 3 ELSE 2)
    BY <1>1
  <2>2. /\ new.status = "active" => TodoOf(editSteps, todo)
        /\ new.status = "suspended" => TodoOf(editQuietly, todo)
    OBVIOUS
  <2>. QED
    BY <1>1, <2>1, <2>2 DEF JobForm
<1>3. ASSUME AtRest(s)
      PROVE  InFlight(s, k, r)
  <2>1. ~(r <= (IF new.status = "active" THEN 2 ELSE 1))
    BY <1>1
  <2>2. /\ VhostsFit(s, states[s]) /\ Lives(s) /\ PoolsAre(s, states[s].php, states[s].limits)
        /\ \A v \in runtimes : fpm[v][s] = pools[v][s]
        /\ enabled[s] = None => served[s] = None
    BY <1>1, <1>3 DEF AtRest, Matches
  <2>3. EditAt(s, k, r)
    BY <1>1, <2>1, <2>2 DEF EditAt, VhostsFit, VhostsAre
  <2>4. FpmAt(s, k, r) /\ ServedAt(s, k, r)
    BY <1>1, <2>2 DEF FpmAt, ServedAt
  <2>. QED
    BY <1>1, <2>3, <2>4 DEF InFlight, JobAt
<1>. QED
  BY <1>2, <1>3

LEMMA DomainsKeeps ==
    ASSUME ProvInv, NEW s \in Sites, s \in Recorded, NEW domains \in SUBSET Domains,
           NEW new, new = [states[s] EXCEPT !.domains = domains],
           Begin(s, "domains", new, applyDomains(new))
    PROVE  ProvInv'
<1>1. states[s] \in State /\ states[s] # None
  BY InvAt DEF Recorded
<1>2. /\ new \in State /\ new.status = states[s].status /\ new.php = states[s].php
      /\ new.limits = states[s].limits /\ new.app = states[s].app
  <2>1. PICK st \in State : st = states[s]
    BY <1>1
  <2>. QED
    BY <2>1 DEF State
<1>3. PICK r \in {2, 3} : /\ r = IF new.status = "suspended" THEN 2 ELSE 3
                         /\ EditTodo(new, applyDomains(new), r)
  BY EditPrograms
<1>4. ASSUME NEW k \in Job, Fresh(k, s, "domains", new, applyDomains(new))
      PROVE  JobForm(k) /\ (AtRest(s) => InFlight(s, k, Len(applyDomains(new))))
  <2>1. /\ Len(applyDomains(new)) = r
        /\ IF new.status = "suspended"
           THEN TodoOf(editQuietly, applyDomains(new)) /\ r = 2
           ELSE TodoOf(editSteps, applyDomains(new)) /\ r = 3
    BY <1>3 DEF EditTodo
  <2>. QED
    BY <1>1, <1>2, <1>4, <2>1, EditBegins
<1>5. "domains" \in Ops /\ applyDomains(new) \in Seq(HostSteps)
  BY <1>3 DEF Ops, EditTodo
<1>. QED
  BY <1>1, <1>2, <1>4, <1>5, BeginKeeps

LEMMA AddDomainKeeps ==
    ASSUME ProvInv, NEW s \in Sites, NEW d \in Domains, AddDomain(s, d)
    PROVE  ProvInv'
<1>1. s \in Recorded /\ states[s] \in State
  BY InvAt DEF AddDomain, Recorded
<1>2. states[s].domains \cup {d} \in SUBSET Domains
  BY <1>1 DEF State
<1>3. PICK new : /\ new = [states[s] EXCEPT !.domains = states[s].domains \cup {d}]
                 /\ Begin(s, "domains", new, applyDomains(new))
  BY DEF AddDomain
<1>. QED
  BY <1>1, <1>2, <1>3, DomainsKeeps

LEMMA RemoveDomainKeeps ==
    ASSUME ProvInv, NEW s \in Sites, NEW d \in Domains, RemoveDomain(s, d)
    PROVE  ProvInv'
<1>1. s \in Recorded /\ states[s] \in State
  BY InvAt DEF RemoveDomain, Recorded
<1>2. states[s].domains \ {d} \in SUBSET Domains
  BY <1>1 DEF State
<1>3. PICK new : /\ new = [states[s] EXCEPT !.domains = states[s].domains \ {d}]
                 /\ Begin(s, "domains", new, applyDomains(new))
  BY DEF RemoveDomain
<1>. QED
  BY <1>1, <1>2, <1>3, DomainsKeeps

LEMMA AppInstallKeeps ==
    ASSUME ProvInv, NEW s \in Sites, AppInstall(s)
    PROVE  ProvInv'
<1>1. states[s] \in State /\ states[s] # None
  BY InvAt DEF AppInstall, Recorded
<1>2. PICK new : new = [states[s] EXCEPT !.app = TRUE]
  OBVIOUS
<1>3. /\ new \in State /\ new.status = states[s].status /\ new.php = states[s].php
      /\ new.limits = states[s].limits /\ new.domains = states[s].domains /\ new.app
  <2>1. PICK st \in State : st = states[s]
    BY <1>1
  <2>. QED
    BY <1>2, <2>1 DEF State
<1>4. PICK r \in {2, 3} : /\ r = IF new.status = "suspended" THEN 2 ELSE 3
                         /\ EditTodo(new, <<"save">> \o applyDomains(new), r + 1)
                         /\ EditTodo(new, <<"wp">> \o (<<"save">> \o applyDomains(new)), r + 2)
  BY EditPrograms
<1>5. PICK todo : /\ Begin(s, "install", new, todo)
                  /\ todo = <<>> \/ \E q \in {r + 1, r + 2} : EditTodo(new, todo, q)
  BY <1>2, <1>4 DEF AppInstall
<1>6. todo # <<>> => todo \in Seq(HostSteps)
  BY <1>5 DEF EditTodo
<1>7. ASSUME NEW k \in Job, todo # <<>>, Fresh(k, s, "install", new, todo)
      PROVE  JobForm(k) /\ (AtRest(s) => InFlight(s, k, Len(todo)))
  <2>1. PICK q \in {r + 1, r + 2} : EditTodo(new, todo, q)
    BY <1>5, <1>7
  <2>2. /\ Len(todo) = q
        /\ IF new.status = "suspended"
           THEN TodoOf(editQuietly, todo) /\ q \in {3, 4}
           ELSE TodoOf(editSteps, todo) /\ q \in {4, 5}
    BY <1>4, <2>1 DEF EditTodo
  <2>. QED
    BY <1>1, <1>3, <1>7, <2>2, EditBegins
<1>8. "install" \in Ops
  BY DEF Ops
<1>. QED
  BY <1>1, <1>3, <1>5, <1>6, <1>7, <1>8, BeginKeeps

\* A recorded site at rest.
LEMMA RestOfRecorded ==
    ASSUME NEW s \in Sites, states[s] # None, AtRest(s)
    PROVE  /\ VhostsFit(s, states[s]) /\ Lives(s) /\ PoolsAre(s, states[s].php, states[s].limits)
           /\ \A v \in runtimes : fpm[v][s] = pools[v][s]
           /\ enabled[s] = None => served[s] = None
BY DEF AtRest, Matches

LEMMA setSiteStatusKeeps ==
    ASSUME ProvInv, NEW s \in Sites, NEW target \in {"active", "suspended"}, setSiteStatus(s, target)
    PROVE  ProvInv'
<1>1. PICK st \in State : st = states[s] /\ st # None /\ st.status # target
  BY InvAt DEF setSiteStatus, Recorded
<1>2. PICK new : new = [st EXCEPT !.status = target]
  OBVIOUS
<1>3. /\ new \in State /\ new.status = target /\ new.php = st.php
      /\ new.limits = st.limits /\ new.domains = st.domains /\ new.app = st.app
  BY <1>2 DEF State
<1>4. Begin(s, "status", new, statusSteps)
  BY <1>1, <1>2 DEF setSiteStatus, statusSteps
<1>5. statusSteps \in Seq(HostSteps) /\ "status" \in Ops
  BY DEF statusSteps, HostSteps, Ops
<1>6. ASSUME NEW k \in Job, Fresh(k, s, "status", new, statusSteps)
      PROVE  JobForm(k) /\ (AtRest(s) => InFlight(s, k, Len(statusSteps)))
  <2>1. /\ k.op = "status" /\ ~k.undo /\ k.new = new /\ k.old = st /\ k.todo = statusSteps
        /\ k.vhost = File(s, st.status)
    BY <1>1, <1>6 DEF Fresh
  <2>2. JobForm(k)
    BY <1>1, <1>3, <2>1, WholePrograms DEF JobForm
  <2>3. ASSUME AtRest(s)
        PROVE  InFlight(s, k, 3)
    <3>1. StatusAt(s, k, 3)
      BY <1>1, <2>1, <2>3, RestOfRecorded DEF StatusAt, VhostsFit, VhostsAre
    <3>2. FpmAt(s, k, 3) /\ ServedAt(s, k, 3)
      BY <1>1, <2>1, <2>3, RestOfRecorded DEF FpmAt, ServedAt
    <3>. QED
      BY <2>1, <3>1, <3>2 DEF InFlight, JobAt
  <2>. QED
    BY <2>2, <2>3, ProgramLengths
<1>. QED
  BY <1>1, <1>3, <1>4, <1>5, <1>6, BeginKeeps

LEMMA SetPHPVersionKeeps ==
    ASSUME ProvInv, NEW s \in Sites, NEW v \in Versions, SetPHPVersion(s, v)
    PROVE  ProvInv'
<1>1. PICK st \in State : st = states[s] /\ st # None /\ v # st.php /\ v \in Supported
  BY InvAt DEF SetPHPVersion, Recorded, ValidateNewSite
<1>2. PICK new : new = [st EXCEPT !.php = v]
  OBVIOUS
<1>3. /\ new \in State /\ new.status = st.status /\ new.php = v
      /\ new.limits = st.limits /\ new.domains = st.domains /\ new.app = st.app
  BY <1>2 DEF State
<1>4. Begin(s, "php", new, phpSteps)
  BY <1>1, <1>2 DEF SetPHPVersion, phpSteps
<1>5. phpSteps \in Seq(HostSteps) /\ "php" \in Ops
  BY DEF phpSteps, HostSteps, Ops
<1>6. ASSUME NEW k \in Job, Fresh(k, s, "php", new, phpSteps)
      PROVE  JobForm(k) /\ (AtRest(s) => InFlight(s, k, Len(phpSteps)))
  <2>1. /\ k.op = "php" /\ ~k.undo /\ k.new = new /\ k.old = st /\ k.todo = phpSteps
        /\ k.pool = pools[st.php][s] /\ st.php \in Versions
    BY <1>1, <1>6 DEF Fresh, State
  <2>2. JobForm(k)
    BY <1>1, <1>3, <2>1, WholePrograms DEF JobForm
  <2>3. ASSUME AtRest(s)
        PROVE  InFlight(s, k, 5)
    <3>1. PHPAt(s, k, 5)
      BY <1>1, <1>3, <2>1, <2>3, RestOfRecorded DEF PHPAt, PoolsAre
    <3>2. FpmAt(s, k, 5) /\ ServedAt(s, k, 5)
      BY <1>1, <2>1, <2>3, RestOfRecorded DEF FpmAt, ServedAt
    <3>. QED
      BY <2>1, <3>1, <3>2 DEF InFlight, JobAt
  <2>. QED
    BY <2>2, <2>3, ProgramLengths
<1>. QED
  BY <1>1, <1>3, <1>4, <1>5, <1>6, BeginKeeps

LEMMA SetResourcesKeeps ==
    ASSUME ProvInv, NEW s \in Sites, NEW l \in Limits, SetResources(s, l)
    PROVE  ProvInv'
<1>1. PICK st \in State : st = states[s] /\ st # None
  BY InvAt DEF SetResources, Recorded
<1>2. PICK new : new = [st EXCEPT !.limits = l]
  OBVIOUS
<1>3. /\ new \in State /\ new.status = st.status /\ new.php = st.php
      /\ new.domains = st.domains /\ new.app = st.app
  BY <1>2 DEF State
<1>4. Begin(s, "limits", new, limitsSteps)
  BY <1>1, <1>2 DEF SetResources, limitsSteps
<1>5. limitsSteps \in Seq(HostSteps) /\ "limits" \in Ops
  BY DEF limitsSteps, HostSteps, Ops
<1>6. ASSUME NEW k \in Job, Fresh(k, s, "limits", new, limitsSteps)
      PROVE  JobForm(k) /\ (AtRest(s) => InFlight(s, k, Len(limitsSteps)))
  <2>1. /\ k.op = "limits" /\ ~k.undo /\ k.new = new /\ k.old = st /\ k.todo = limitsSteps
        /\ k.pool = pools[st.php][s] /\ st.php \in Versions
    BY <1>1, <1>6 DEF Fresh, State
  <2>2. JobForm(k)
    BY <1>1, <1>3, <2>1, WholePrograms DEF JobForm
  <2>3. ASSUME AtRest(s)
        PROVE  InFlight(s, k, 3)
    <3>1. LimitsAt(s, k, 3)
      BY <1>1, <1>3, <2>1, <2>3, RestOfRecorded DEF LimitsAt, PoolsAre
    <3>2. FpmAt(s, k, 3) /\ ServedAt(s, k, 3)
      BY <1>1, <2>1, <2>3, RestOfRecorded DEF FpmAt, ServedAt
    <3>. QED
      BY <2>1, <3>1, <3>2 DEF InFlight, JobAt
  <2>. QED
    BY <2>2, <2>3, ProgramLengths
<1>. QED
  BY <1>1, <1>3, <1>4, <1>5, <1>6, BeginKeeps

LEMMA DeleteKeeps ==
    ASSUME ProvInv, NEW s \in Sites, Delete(s)
    PROVE  ProvInv'
<1>1. PICK st \in State : st = states[s] /\ st # None /\ st.status = "suspended"
  BY InvAt DEF Delete, Recorded
<1>2. Begin(s, "delete", st, deleteSteps)
  BY <1>1 DEF Delete, deleteSteps
<1>3. deleteSteps \in Seq(HostSteps) /\ "delete" \in Ops
  BY DEF deleteSteps, HostSteps, Ops
<1>4. ASSUME NEW k \in Job, Fresh(k, s, "delete", st, deleteSteps)
      PROVE  JobForm(k) /\ (AtRest(s) => InFlight(s, k, Len(deleteSteps)))
  <2>1. /\ k.op = "delete" /\ ~k.undo /\ k.new = st /\ k.old = st /\ k.todo = deleteSteps
        /\ k.pool = pools[st.php][s] /\ st.php \in Versions /\ k.vhost = File(s, st.status)
    BY <1>1, <1>4 DEF Fresh, State
  <2>2. JobForm(k)
    BY <1>1, <2>1, WholePrograms DEF JobForm
  <2>3. ASSUME AtRest(s)
        PROVE  InFlight(s, k, 6)
    <3>1. DeleteAt(s, k, 6)
      BY <1>1, <2>1, <2>3, RestOfRecorded DEF DeleteAt, PoolsAre, VhostsFit, File, Other, Lives
    <3>2. FpmAt(s, k, 6) /\ ServedAt(s, k, 6)
      BY <1>1, <2>1, <2>3, RestOfRecorded DEF FpmAt, ServedAt
    <3>. QED
      BY <2>1, <3>1, <3>2 DEF InFlight, JobAt
  <2>. QED
    BY <2>2, <2>3, ProgramLengths
<1>5. ~(Len(deleteSteps) <= 5)
  BY ProgramLengths
<1>. QED
  BY <1>1, <1>2, <1>3, <1>4, <1>5, BeginKeeps
-----------------------------------------------------------------------------
(* Reset.                                                                  *)

\* Reset takes the next site of its list.
LEMMA Proceeds ==
    ASSUME NEW r \in ResetRecord, ResetNext(r), \A t \in r.rest : r.snap[t] # None
    PROVE  /\ ResetForm' /\ reset'.site \in Sites \cup {None} /\ reset'.rest \subseteq Sites
           /\ Resetting' \subseteq r.rest
           /\ reset'.site \in Sites => /\ reset'.site \in r.rest /\ reset'.rest = r.rest \ {reset'.site}
                                       /\ reset'.snap = r.snap /\ ~reset'.failed /\ Len(reset'.todo) = 6
           /\ reset'.site \notin Sites => r.rest = {} /\ reset'.rest = {}
<1>1. CASE r.rest = {} /\ reset' = NoReset
  BY <1>1, NoneIsNoEntry DEF NoReset, ResetForm, Resetting
<1>2. ASSUME NEW s \in r.rest, reset' = forceRemove(r, s)
      PROVE  /\ ResetForm' /\ reset'.site \in Sites \cup {None} /\ reset'.rest \subseteq Sites
             /\ Resetting' \subseteq r.rest
             /\ reset'.site \in Sites => /\ reset'.site \in r.rest /\ reset'.rest = r.rest \ {reset'.site}
                                         /\ reset'.snap = r.snap /\ ~reset'.failed /\ Len(reset'.todo) = 6
             /\ reset'.site \notin Sites => r.rest = {} /\ reset'.rest = {}
  <2>1. resetSteps \in Seq(HostSteps)
    BY DEF resetSteps, HostSteps
  <2>2. s \in Sites /\ r.rest \subseteq Sites
    BY <1>2 DEF ResetRecord
  <2>3. reset' = [r EXCEPT !.site = s, !.rest = r.rest \ {s}, !.failed = FALSE, !.todo = resetSteps]
    BY <1>2 DEF forceRemove, resetSteps
  <2>4. /\ reset'.site = s /\ reset'.rest = r.rest \ {s} /\ reset'.failed = FALSE /\ reset'.todo = resetSteps
        /\ reset'.snap = r.snap /\ reset' \in ResetRecord
    BY <2>1, <2>2, <2>3 DEF ResetRecord
  <2>5. Resetting' \subseteq r.rest
    BY <1>2, <2>4 DEF Resetting
  <2>6. ResetForm'
    BY <2>1, <2>2, <2>4, <2>5, WholePrograms DEF ResetForm, Resetting
  <2>. QED
    BY <1>2, <2>2, <2>4, <2>5, <2>6, ProgramLengths
<1>. QED
  BY <1>1, <1>2 DEF ResetNext

\* A step of Reset that works on the site s0, or on none.
LEMMA ResetFrame ==
    ASSUME ProvInv, UNCHANGED <<jobs, removing, runtimes>>, HostTypes',
           ops' \in 0 .. MaxOps, faults' \in 0 .. MaxFaults,
           states' \in [Sites -> State \cup {None}], sitesFile' = states',
           tainted \subseteq tainted', tainted' \subseteq Sites,
           NEW s0 \in Sites \cup {None},
           \A t \in Sites \ {s0} : Untouched(t) /\ CatchesUp(t) /\ states'[t] = states[t],
           s0 \in Sites => trash'[s0] = trash[s0],
           ResetForm', reset'.site \in Sites \cup {None}, reset'.rest \subseteq Sites,
           \A t \in Resetting' : jobs[t] # None => t \in tainted',
           s0 \in Sites /\ s0 \notin tainted' => jobs[s0] = None,
           \A t \in Sites \ tainted' : jobs[t] = None => SiteInv(t)'
    PROVE  ProvInv'
<1>1. SystemTypes'
  <2>1. ControlTypes'
    BY Types DEF ProvInv, ControlTypes
  <2>. QED
    BY <2>1, Types DEF SystemTypes, HostTypes, ControlTypes
<1>2. FormInv'
  <2>1. ASSUME NEW t \in Sites, jobs'[t] # None
        PROVE  JobForm(jobs'[t]) /\ Archived(t, jobs[t])'
    BY <2>1, InvAt DEF Archived, Untouched
  <2>. QED
    BY <2>1 DEF FormInv
<1>3. ASSUME NEW t \in Sites, t \notin tainted'
      PROVE  SiteInv(t)'
  <2>1. SiteInv(t) /\ runtimes \subseteq Versions
    BY <1>3, InvAt
  <2>3. CASE jobs[t] # None
    <3>1. t # s0
      BY <1>3, <2>3
    <3>2. PICK j \in Job : j = jobs[t] /\ JobForm(j)
      BY <2>3, InvAt
    <3>3. PICK r : r = Len(j.todo)
      OBVIOUS
    <3>4. InFlight(t, j, r)
      BY <2>1, <2>3, <3>2, <3>3 DEF SiteInv
    <3>5. InFlight(t, j, r)'
      BY <2>1, <3>1, <3>2, <3>4, FlightKept
    <3>. QED
      BY <2>3, <3>2, <3>3, <3>5 DEF SiteInv
  <2>. QED
    BY <1>3, <2>3
<1>4. Supported \subseteq runtimes' /\ removing' \notin Supported
  BY DEF ProvInv
<1>. QED
  BY <1>1, <1>2, <1>3, <1>4 DEF ProvInv

\* A site the reset comes to was at rest.
LEMMA ResetTaken ==
    ASSUME NEW s \in Sites, AtRest(s)', states'[s] # None, ~reset'.failed, reset'.snap[s] = states'[s]
    PROVE  ResetAt(s, 6)'
BY DEF AtRest, Matches, ResetAt, Lives, PoolsAre

\* The sites without an operation after Reset has moved on.
LEMMA ProceedsAt ==
    ASSUME NEW r \in ResetRecord, ResetNext(r), \A t \in r.rest : r.snap[t] # None,
           NEW t \in Sites, jobs'[t] = None, AtRest(t)',
           t \in r.rest => states'[t] # None /\ r.snap[t] = states'[t]
    PROVE  SiteInv(t)'
<1>1. /\ Resetting' \subseteq r.rest
      /\ reset'.site \in Sites => /\ reset'.site \in r.rest /\ reset'.rest = r.rest \ {reset'.site}
                                  /\ reset'.snap = r.snap /\ ~reset'.failed /\ Len(reset'.todo) = 6
      /\ reset'.site \notin Sites => r.rest = {} /\ reset'.rest = {}
  BY Proceeds
<1>2. CASE t = reset'.site
  <2>1. ResetAt(t, 6)'
    BY <1>1, <1>2, ResetTaken
  <2>. QED
    BY <1>1, <1>2, <2>1 DEF SiteInv
<1>3. CASE t # reset'.site
  BY <1>1, <1>3 DEF SiteInv
<1>. QED
  BY <1>2, <1>3

LEMMA ResetKeeps ==
    ASSUME ProvInv, Reset
    PROVE  ProvInv'
<1>1. PICK r : r = [NoReset EXCEPT !.rest = Recorded, !.snap = states]
  OBVIOUS
<1>2. /\ reset = NoReset /\ ResetNext(r) /\ UNCHANGED <<records, hostVars, jobs, removing, faults>>
      /\ tainted' = tainted \cup Overlapping'
  BY <1>1 DEF Reset
<1>3. /\ ops' \in 0 .. MaxOps /\ faults' \in 0 .. MaxFaults /\ SiteTypes /\ HostTypes
      /\ runtimes \subseteq Versions /\ tainted \subseteq Sites
  BY Types, ProvisionerAssumption DEF ProvInv, FormInv, ControlTypes, SiteTypes, HostTypes, Reset
<1>4. r \in ResetRecord /\ r.rest = Recorded /\ r.snap = states
  <2>1. r = [site |-> None, rest |-> Recorded, todo |-> <<>>, failed |-> FALSE, snap |-> states]
    BY <1>1 DEF NoReset
  <2>2. <<>> \in Seq(HostSteps)
    BY EmptySeq
  <2>. QED
    BY <1>3, <2>1, <2>2 DEF ResetRecord, SiteTypes, Recorded
<1>5. \A t \in r.rest : r.snap[t] # None
  BY <1>4 DEF Recorded
<1>6. /\ ResetForm' /\ reset'.site \in Sites \cup {None} /\ reset'.rest \subseteq Sites
      /\ Resetting' \subseteq r.rest
  BY <1>2, <1>4, <1>5, Proceeds
<1>7. HostTypes' /\ UNCHANGED runtimes /\ \A t \in Sites : Untouched(t) /\ CatchesUp(t)
  BY <1>2, <1>3, HostIdle
<1>8. UNCHANGED <<states, sitesFile>> /\ sitesFile' = states' /\ states' \in [Sites -> State \cup {None}]
  BY <1>2, <1>3 DEF records, SiteTypes
<1>9. \A t \in Resetting' : jobs[t] # None => t \in tainted'
  BY <1>2, <1>4, <1>6 DEF Overlapping, Recorded
<1>10. ASSUME NEW t \in Sites \ tainted', jobs[t] = None
       PROVE  SiteInv(t)'
  <2>1. SiteInv(t)
    BY <1>2, <1>10, InvAt
  <2>2. AtRest(t)
    BY <1>2, <1>10, <2>1, NoneIsNoEntry DEF SiteInv, NoReset
  <2>3. AtRest(t)'
    BY <1>3, <1>7, <1>8, <2>2, RestKept
  <2>4. t \in r.rest => states'[t] # None /\ r.snap[t] = states'[t]
    BY <1>4, <1>8 DEF Recorded
  <2>5. jobs'[t] = None
    BY <1>2, <1>10
  <2>. QED
    BY <1>2, <1>4, <1>5, <2>3, <2>4, <2>5, ProceedsAt
<1>11. tainted \subseteq tainted' /\ tainted' \subseteq Sites
  BY <1>2, <1>3, <1>4, <1>6 DEF Overlapping, Recorded
<1>12. /\ UNCHANGED <<jobs, removing, runtimes>> /\ None \in Sites \cup {None} /\ None \notin Sites
       /\ \A t \in Sites \ {None} : Untouched(t) /\ CatchesUp(t) /\ states'[t] = states[t]
  BY <1>2, <1>7, <1>8, NoneIsNoEntry
<1>. QED
  BY <1>3, <1>6, <1>7, <1>8, <1>9, <1>10, <1>11, <1>12, ResetFrame

LEMMA ResetTail ==
    ASSUME NEW t \in Seq(HostSteps), NEW r, Len(t) = r, TodoOf(resetSteps, t)
    PROVE  /\ r \in 1 .. 6 /\ Tail(t) \in Seq(HostSteps) /\ Len(Tail(t)) = r - 1
           /\ r # 1 => TodoOf(resetSteps, Tail(t))
<1>1. r \in 1 .. 6 /\ Len(resetSteps) = 6
  BY ResetStepsNext, ProgramLengths
<1>2. Len(t) >= 1
  BY <1>1
<1>3. Tail(t) \in Seq(HostSteps) /\ Len(Tail(t)) = r - 1
  BY <1>2, TailLen
<1>4. ASSUME r # 1
      PROVE  TodoOf(resetSteps, Tail(t))
  <2>1. Len(resetSteps) \in Nat /\ Len(t) # 1
    BY <1>1, <1>4
  <2>. QED
    BY <2>1, TodoTail
<1>. QED
  BY <1>1, <1>3, <1>4

\* What Reset leaves of its list once a step is over.
LEMMA ResetMoves ==
    ASSUME ResetForm, NEW s, s = reset.site, s # None, NEW f \in BOOLEAN, ResetContinue(f)
    PROVE  /\ s \in Sites /\ s \notin reset.rest /\ reset \in ResetRecord /\ reset.rest \subseteq Sites
           /\ ResetForm' /\ reset'.site \in Sites \cup {None} /\ reset'.rest \subseteq Sites
           /\ Resetting' \subseteq Resetting /\ s \in Resetting /\ reset.rest \subseteq Resetting
           /\ Len(reset.todo) # 1 =>
                 /\ reset'.site = s /\ reset'.rest = reset.rest /\ reset'.snap = reset.snap
                 /\ reset'.failed = f /\ reset'.todo = Tail(reset.todo)
           /\ Len(reset.todo) = 1 => ResetNext(reset) /\ \A t \in reset.rest : reset.snap[t] # None
<1>1. /\ reset \in ResetRecord /\ s \in Sites /\ s \notin reset.rest
      /\ \A t \in Resetting : reset.snap[t] # None
      /\ TodoOf(resetSteps, reset.todo)
  BY DEF ResetForm, NoReset
<1>2. /\ reset.rest \subseteq Sites /\ reset.todo \in Seq(HostSteps)
      /\ s \in Resetting /\ reset.rest \subseteq Resetting
  BY <1>1 DEF ResetRecord, Resetting
<1>3. PICK r : r = Len(reset.todo)
  OBVIOUS
<1>4. r \in 1 .. 6
  BY <1>1, <1>2, <1>3, ResetStepsNext
<1>5. CASE r = 1
  <2>1. ResetNext(reset) /\ \A t \in reset.rest : reset.snap[t] # None
    BY <1>1, <1>2, <1>3, <1>5 DEF ResetContinue
  <2>2. /\ ResetForm' /\ reset'.site \in Sites \cup {None} /\ reset'.rest \subseteq Sites
        /\ Resetting' \subseteq reset.rest
    BY <1>1, <2>1, Proceeds
  <2>. QED
    BY <1>1, <1>2, <1>3, <1>5, <2>1, <2>2
<1>6. CASE r # 1
  <2>0. PICK t \in Seq(HostSteps) : t = reset.todo
    BY <1>2
  <2>1. reset' = [reset EXCEPT !.todo = Tail(reset.todo), !.failed = f]
    <3>1. r > 1
      BY <1>4, <1>6
    <3>2. Len(reset.todo) > 1
      BY <1>3, <3>1, Zenon
    <3>. QED
      BY <3>2 DEF ResetContinue
  <2>2. Tail(reset.todo) \in Seq(HostSteps) /\ TodoOf(resetSteps, Tail(reset.todo))
    <3>1. Len(t) = r /\ TodoOf(resetSteps, t)
      BY <1>1, <1>3, <2>0
    <3>. QED
      BY <1>6, <2>0, <3>1, ResetTail
  <2>3. /\ reset' \in ResetRecord /\ reset'.site = s /\ reset'.rest = reset.rest
        /\ reset'.snap = reset.snap /\ reset'.failed = f /\ reset'.todo = Tail(reset.todo)
    BY <1>1, <2>1, <2>2 DEF ResetRecord
  <2>4. Resetting' = Resetting
    BY <2>3 DEF Resetting
  <2>5. ResetForm'
    BY <1>1, <2>2, <2>3, <2>4 DEF ResetForm
  <2>. QED
    BY <1>1, <1>2, <1>3, <1>6, <2>3, <2>4, <2>5
<1>. QED
  BY <1>5, <1>6

\* The sites that Reset has not come to, or has left.
LEMMA ResetPasses ==
    ASSUME ResetForm, NEW s, s = reset.site, s # None, NEW f \in BOOLEAN, ResetContinue(f),
           NEW t \in Sites, t # s \/ Len(reset.todo) = 1, jobs'[t] = None, AtRest(t)',
           t \in reset.rest => states'[t] # None /\ reset.snap[t] = states'[t]
    PROVE  SiteInv(t)'
<1>1. CASE Len(reset.todo) = 1
  BY <1>1, ResetMoves, ProceedsAt
<1>2. CASE Len(reset.todo) # 1
  <2>1. /\ reset'.site = s /\ reset'.rest = reset.rest /\ reset'.snap = reset.snap
    BY <1>2, ResetMoves
  <2>. QED
    BY <1>2, <2>1 DEF SiteInv
<1>. QED
  BY <1>1, <1>2

\* A step of Reset, one by one.
LEMMA ResetEffect ==
    ASSUME SiteTypes, ResetForm, ResetStep, NEW s \in Sites, s = reset.site,
           NEW step, step = Head(reset.todo)
    PROVE  /\ HostTypes' /\ UNCHANGED runtimes /\ trash'[s] = trash[s]
           /\ states' \in [Sites -> State \cup {None}] /\ sitesFile' = states'
           /\ \A t \in Sites \ {s} : Untouched(t) /\ CatchesUp(t) /\ states'[t] = states[t]
           /\ step = "forget" => UNCHANGED hostVars /\ (~reset.failed => states'[s] = None)
           /\ step # "forget" => UNCHANGED states
           /\ step = "clearVhosts" => /\ enabled'[s] = None /\ disabled'[s] = None
                                      /\ UNCHANGED <<pools, fpm, users, roots>>
           /\ step = "clearPool" =>
                 /\ \A w \in Versions : pools'[w][s] = IF w = reset.snap[s].php THEN None ELSE pools[w][s]
                 /\ UNCHANGED <<enabled, disabled, fpm, users, roots>>
           /\ step = "reloadFpm" => /\ fpm' = [fpm EXCEPT ![reset.snap[s].php] = pools[reset.snap[s].php]]
                                    /\ UNCHANGED <<enabled, disabled, pools, users, roots>>
           /\ step = "userdel" => /\ users' = users \ {s}
                                  /\ UNCHANGED <<enabled, disabled, pools, fpm, roots>>
           /\ step = "removeRoot" => /\ roots'[s] = None
                                     /\ UNCHANGED <<enabled, disabled, pools, fpm, users>>
<1>1. /\ HostTypes /\ states \in [Sites -> State \cup {None}] /\ sitesFile = states
      /\ ResetJob.new = reset.snap[s] /\ ResetJob.old = reset.snap[s]
  BY DEF SiteTypes, ResetJob
<1>2. step \in {"clearVhosts", "clearPool", "reloadFpm", "userdel", "removeRoot", "forget"}
      /\ reset.snap[s] \in State \cup {None} /\ reset.failed \in BOOLEAN
  <2>1. reset \in ResetRecord /\ TodoOf(resetSteps, reset.todo)
    BY NoneIsNoEntry DEF ResetForm, NoReset
  <2>2. PICK r : r = Len(reset.todo)
    OBVIOUS
  <2>3. reset.todo \in Seq(HostSteps)
    BY <2>1 DEF ResetRecord
  <2>4. r \in 1 .. 6
    BY <2>1, <2>2, <2>3, ResetStepsNext
  <2>. QED
    BY <2>1, <2>2, <2>3, <2>4, ResetStepsNext DEF ResetRecord
<1>3. \/ /\ step = "clearVhosts"
         /\ enabled' = [enabled EXCEPT ![s] = None]
         /\ disabled' = [disabled EXCEPT ![s] = None]
         /\ UNCHANGED <<served, php, host, records>>
      \/ /\ step = "clearPool"
         /\ WritePool(s, reset.snap[s].php, None)
         /\ UNCHANGED records
      \/ HostStep(s, ResetJob, step) /\ UNCHANGED records
      \/ ~reset.failed /\ StoreStep(s, ResetJob, step, "ok")
      \/ reset.failed /\ step = "forget" /\ UNCHANGED <<records, hostVars>>
  BY DEF ResetStep
<1>4. CASE /\ step = "clearVhosts"
           /\ enabled' = [enabled EXCEPT ![s] = None]
           /\ disabled' = [disabled EXCEPT ![s] = None]
           /\ UNCHANGED <<served, php, host, records>>
  BY <1>1, <1>4 DEF HostTypes, Untouched, CatchesUp, php, host, records
<1>5. CASE step = "clearPool" /\ WritePool(s, reset.snap[s].php, None) /\ UNCHANGED records
  <2>1. /\ HostTypes' /\ UNCHANGED <<vhosts, fpm, runtimes, host>>
        /\ \A w \in Versions, t \in Sites :
              pools'[w][t] = IF w = reset.snap[s].php /\ t = s THEN None ELSE pools[w][t]
    BY <1>1, <1>5, PoolWritten
  <2>. QED
    BY <1>1, <1>5, <2>1 DEF Untouched, CatchesUp, vhosts, host, records
<1>6. CASE HostStep(s, ResetJob, step) /\ UNCHANGED records
  <2>1. step \in {"reloadFpm", "userdel", "removeRoot"}
    BY <1>2, <1>6 DEF HostStep
  <2>2. /\ HostTypes' /\ UNCHANGED runtimes /\ trash'[s] = trash[s]
        /\ \A t \in Sites \ {s} : Untouched(t) /\ CatchesUp(t)
    BY <1>1, <1>6, <2>1, HostFrame
  <2>3. /\ step = "userdel" => Users(users \ {s})
        /\ step = "removeRoot" => Directories(None, trash[s], s)
        /\ step = "reloadFpm" => ReloadFpm(reset.snap[s].php)
    BY <1>1, <1>6, HostEffect, ZenonT(40)
  <2>4. roots \in [Sites -> Contents \cup {None}]
    BY <1>1 DEF HostTypes
  <2>. QED
    BY <1>1, <1>6, <2>1, <2>2, <2>3, <2>4 DEF Users, Directories, ReloadFpm, vhosts, php, host, records
<1>7. CASE ~reset.failed /\ StoreStep(s, ResetJob, step, "ok")
  <2>1. step = "forget"
    BY <1>2, <1>7 DEF StoreStep, StoreSteps
  <2>2. /\ UNCHANGED hostVars /\ sitesFile' = states' /\ states'[s] = None
        /\ \A t \in Sites \ {s} : states'[t] = states[t]
        /\ states' \in [Sites -> State \cup {None}]
    BY <1>1, <1>2, <1>7, <2>1, StoreEffect, StoreKeeps DEF Outcomes
  <2>. QED
    BY <1>1, <2>1, <2>2, HostIdle DEF hostVars, host
<1>8. CASE reset.failed /\ step = "forget" /\ UNCHANGED <<records, hostVars>>
  BY <1>1, <1>8, HostIdle DEF hostVars, host, records
<1>. QED
  BY <1>3, <1>4, <1>5, <1>6, <1>7, <1>8

\* A step of Reset on its site, which nothing else has touched.
LEMMA ResetActs ==
    ASSUME SiteTypes, ResetForm, ResetStep, NEW s \in Sites, s = reset.site,
           NEW r, r = Len(reset.todo), ResetAt(s, r)
    PROVE  /\ r # 1 /\ reset'.snap = reset.snap /\ ~reset'.failed => ResetAt(s, r - 1)'
           /\ r = 1 => AtRest(s)'
           /\ r \in 1 .. 6
<1>1. PICK step : step = Head(reset.todo)
  OBVIOUS
<1>2. /\ r \in 1 .. 6
      /\ r = 6 => step = "clearVhosts"
      /\ r = 5 => step = "clearPool"
      /\ r = 4 => step = "reloadFpm"
      /\ r = 3 => step = "userdel"
      /\ r = 2 => step = "removeRoot"
      /\ r = 1 => step = "forget"
  <2>1. reset.todo \in Seq(HostSteps) /\ TodoOf(resetSteps, reset.todo)
    BY NoneIsNoEntry DEF ResetForm, NoReset, ResetRecord
  <2>. QED
    BY <1>1, <2>1, ResetStepsNext
<1>3. /\ step = "forget" => UNCHANGED hostVars /\ (~reset.failed => states'[s] = None)
      /\ step # "forget" => UNCHANGED states
      /\ step = "clearVhosts" => /\ enabled'[s] = None /\ disabled'[s] = None
                                 /\ UNCHANGED <<pools, fpm, users, roots>>
      /\ step = "clearPool" =>
            /\ \A w \in Versions : pools'[w][s] = IF w = reset.snap[s].php THEN None ELSE pools[w][s]
            /\ UNCHANGED <<enabled, disabled, fpm, users, roots>>
      /\ step = "reloadFpm" => /\ fpm' = [fpm EXCEPT ![reset.snap[s].php] = pools[reset.snap[s].php]]
                               /\ UNCHANGED <<enabled, disabled, pools, users, roots>>
      /\ step = "userdel" => /\ users' = users \ {s}
                             /\ UNCHANGED <<enabled, disabled, pools, fpm, roots>>
      /\ step = "removeRoot" => /\ roots'[s] = None
                                /\ UNCHANGED <<enabled, disabled, pools, fpm, users>>
      /\ UNCHANGED runtimes
  BY <1>1, ResetEffect
<1>4. /\ fpm \in [Versions -> [Sites -> Limits \cup {None}]] /\ runtimes \subseteq Versions
      /\ states[s] # None /\ states[s].php \in Versions /\ reset.snap[s] = states[s] /\ ~reset.failed
  BY DEF SiteTypes, HostTypes, ResetAt, State
<1>5. CASE r = 1
  BY <1>2, <1>3, <1>4, <1>5 DEF ResetAt, AtRest, Matches, Nothing, PoolsAre, hostVars, vhosts, php, host
<1>6. CASE r = 2
  BY <1>2, <1>3, <1>4, <1>6 DEF ResetAt, PoolsAre
<1>7. CASE r = 3
  BY <1>2, <1>3, <1>4, <1>7 DEF ResetAt, PoolsAre
<1>8. CASE r = 4
  BY <1>2, <1>3, <1>4, <1>8 DEF ResetAt, PoolsAre
<1>9. CASE r = 5
  BY <1>2, <1>3, <1>4, <1>9 DEF ResetAt, PoolsAre
<1>10. CASE r = 6
  BY <1>2, <1>3, <1>4, <1>10 DEF ResetAt, PoolsAre
<1>. QED
  BY <1>2, <1>5, <1>6, <1>7, <1>8, <1>9, <1>10

LEMMA ResetStepKeeps ==
    ASSUME ProvInv, ResetStep
    PROVE  ProvInv'
<1>1. /\ SiteTypes /\ ResetForm /\ ops' \in 0 .. MaxOps /\ faults' \in 0 .. MaxFaults
      /\ runtimes \subseteq Versions /\ tainted \subseteq Sites
      /\ \A t \in Resetting : jobs[t] # None => t \in tainted
  BY Types DEF ProvInv, FormInv, ControlTypes, SiteTypes, HostTypes, ResetStep
<1>2. PICK s : s = reset.site /\ s # None
  BY DEF ResetStep
<1>3. PICK f \in BOOLEAN : f = reset.failed /\ ResetContinue(f)
  BY <1>1, <1>2 DEF ResetStep, ResetForm, NoReset, ResetRecord
<1>4. UNCHANGED <<jobs, removing, ops, faults, tainted>>
  BY DEF ResetStep
<1>5. /\ s \in Sites /\ s \notin reset.rest /\ reset \in ResetRecord
      /\ ResetForm' /\ reset'.site \in Sites \cup {None} /\ reset'.rest \subseteq Sites
      /\ Resetting' \subseteq Resetting /\ s \in Resetting
      /\ Len(reset.todo) # 1 =>
            /\ reset'.site = s /\ reset'.snap = reset.snap
            /\ reset'.failed = f /\ reset'.todo = Tail(reset.todo)
  BY <1>1, <1>2, <1>3, ResetMoves
<1>6. /\ HostTypes' /\ UNCHANGED runtimes /\ trash'[s] = trash[s]
      /\ states' \in [Sites -> State \cup {None}] /\ sitesFile' = states'
      /\ \A t \in Sites \ {s} : Untouched(t) /\ CatchesUp(t) /\ states'[t] = states[t]
  BY <1>1, <1>2, <1>5, ResetEffect
<1>7. ASSUME NEW t \in Sites, t \notin tainted, jobs[t] = None, t # s
      PROVE  SiteInv(t)'
  <2>1. AtRest(t) /\ (t \in reset.rest => states[t] # None /\ reset.snap[t] = states[t])
    BY <1>2, <1>7, InvAt DEF SiteInv
  <2>2. AtRest(t)' /\ states'[t] = states[t]
    BY <1>1, <1>6, <1>7, <2>1, RestKept
  <2>. QED
    BY <1>1, <1>2, <1>3, <1>4, <1>7, <2>1, <2>2, ResetPasses
<1>8. ASSUME s \notin tainted
      PROVE  jobs[s] = None /\ SiteInv(s)'
  <2>1. jobs[s] = None /\ SiteInv(s)
    BY <1>1, <1>5, <1>8, InvAt
  <2>2. PICK r : r = Len(reset.todo)
    OBVIOUS
  <2>3. ResetAt(s, r)
    BY <1>2, <2>1, <2>2 DEF SiteInv
  <2>4. /\ r # 1 /\ reset'.snap = reset.snap /\ ~reset'.failed => ResetAt(s, r - 1)'
        /\ r = 1 => AtRest(s)'
        /\ r \in 1 .. 6
    BY <1>1, <1>2, <1>5, <2>2, <2>3, ResetActs
  <2>5. ASSUME r = 1
        PROVE  SiteInv(s)'
    BY <1>1, <1>2, <1>3, <1>4, <1>5, <2>1, <2>2, <2>4, <2>5, ResetPasses
  <2>6. ASSUME r # 1
        PROVE  SiteInv(s)'
    <3>1. /\ reset'.site = s /\ reset'.snap = reset.snap
          /\ reset'.failed = f /\ reset'.todo = Tail(reset.todo) /\ ~f
      BY <1>3, <1>5, <2>2, <2>3, <2>6 DEF ResetAt
    <3>2. PICK t \in Seq(HostSteps) : t = reset.todo
      BY <1>5 DEF ResetRecord
    <3>3. TodoOf(resetSteps, t) /\ Len(t) = r
      BY <1>1, <1>2, <2>2, <3>2 DEF ResetForm, NoReset
    <3>4. Len(reset'.todo) = r - 1
      BY <3>1, <3>2, <3>3, ResetTail
    <3>5. ResetAt(s, r - 1)'
      BY <2>4, <2>6, <3>1
    <3>. QED
      BY <1>4, <2>1, <3>1, <3>4, <3>5 DEF SiteInv
  <2>. QED
    BY <2>1, <2>5, <2>6
<1>9. \A t \in Resetting' : jobs[t] # None => t \in tainted'
  BY <1>1, <1>4, <1>5
<1>10. \A t \in Sites \ tainted' : jobs[t] = None => SiteInv(t)'
  BY <1>4, <1>7, <1>8
<1>11. tainted \subseteq tainted' /\ tainted' \subseteq Sites
  BY <1>1, <1>4
<1>. QED
  BY <1>1, <1>4, <1>5, <1>6, <1>8, <1>9, <1>10, <1>11, ResetFrame

LEMMA ResetFailKeeps ==
    ASSUME ProvInv, ResetFail
    PROVE  ProvInv'
<1>1. /\ SiteTypes /\ HostTypes /\ ResetForm /\ ops' \in 0 .. MaxOps /\ faults \in 0 .. MaxFaults
      /\ runtimes \subseteq Versions /\ tainted \subseteq Sites
      /\ \A t \in Resetting : jobs[t] # None => t \in tainted
  BY Types DEF ProvInv, FormInv, ControlTypes, SiteTypes, HostTypes, ResetFail
<1>2. PICK s : s = reset.site /\ s # None
  BY DEF ResetFail
<1>3. UNCHANGED <<jobs, removing, ops>> /\ tainted' = tainted \cup {s}
  BY <1>2 DEF ResetFail
<1>0. PICK f \in BOOLEAN : ResetContinue(f)
  BY Zenon DEF ResetFail
<1>4. /\ s \in Sites /\ s \notin reset.rest /\ reset \in ResetRecord
      /\ ResetForm' /\ reset'.site \in Sites \cup {None} /\ reset'.rest \subseteq Sites
      /\ Resetting' \subseteq Resetting
  BY <1>0, <1>1, <1>2, ResetMoves
<1>5. /\ UNCHANGED hostVars /\ faults' \in 0 .. MaxFaults
      /\ states' \in [Sites -> State \cup {None}] /\ sitesFile' = states'
      /\ \A t \in Sites \ {s} : states'[t] = states[t]
  <2>1. PICK j : j = ResetJob
    OBVIOUS
  <2>2. j.new \in State \cup {None} /\ j.old \in State \cup {None}
    BY <1>2, <1>4, <2>1 DEF ResetJob, ResetRecord
  <2>3. PICK step : \/ HostError(s, j, step)
                    \/ \E o \in {"failed", "committed"} : StoreError(s, j, step, o)
    BY <1>2, <2>1 DEF ResetFail
  <2>. QED
    BY <1>1, <1>4, <2>2, <2>3, ErrorKeeps
<1>6. HostTypes' /\ UNCHANGED runtimes /\ \A t \in Sites : Untouched(t) /\ CatchesUp(t)
  BY <1>1, <1>5, HostIdle
<1>7. ASSUME NEW t \in Sites \ tainted', jobs[t] = None
      PROVE  SiteInv(t)'
  <2>1. t \in Sites /\ t \notin tainted /\ t # s
    BY <1>3, <1>7
  <2>2. AtRest(t) /\ (t \in reset.rest => states[t] # None /\ reset.snap[t] = states[t])
    BY <1>2, <1>7, <2>1, InvAt DEF SiteInv
  <2>3. AtRest(t)' /\ states'[t] = states[t]
    BY <1>1, <1>5, <1>6, <2>1, <2>2, RestKept
  <2>. QED
    BY <1>0, <1>1, <1>2, <1>3, <1>7, <2>1, <2>2, <2>3, ResetPasses
<1>8. /\ \A t \in Resetting' : jobs[t] # None => t \in tainted'
      /\ tainted \subseteq tainted' /\ tainted' \subseteq Sites /\ s \in tainted'
      /\ trash'[s] = trash[s]
  BY <1>1, <1>3, <1>4, <1>5 DEF hostVars, host
<1>9. \A t \in Sites \ {s} : Untouched(t) /\ CatchesUp(t) /\ states'[t] = states[t]
  BY <1>5, <1>6
<1>. QED
  BY <1>1, <1>3, <1>4, <1>5, <1>6, <1>7, <1>8, <1>9, ResetFrame
-----------------------------------------------------------------------------
(* The removal of a runtime, and a crash.                                  *)

LEMMA RemoveRuntimeKeeps ==
    ASSUME ProvInv, NEW v \in Versions, RemoveRuntime(v)
    PROVE  ProvInv'
<1>1. /\ v \notin Supported /\ ops' = ops + 1 /\ ops < MaxOps /\ removing' = v
      /\ UNCHANGED <<records, hostVars, jobs, reset, faults, tainted>>
  BY DEF RemoveRuntime
<1>2. HostTypes /\ ControlTypes /\ FormInv
  BY Types DEF ProvInv, ControlTypes
<1>3. HostTypes' /\ UNCHANGED runtimes /\ \A t \in Sites : Untouched(t) /\ CatchesUp(t)
  BY <1>1, <1>2, HostIdle
<1>4. ControlTypes'
  BY <1>1, <1>2, ProvisionerAssumption DEF ControlTypes, records
<1>5. FormInv'
  BY <1>1, <1>2 DEF FormInv, ResetForm, Resetting, Archived, records, hostVars, host
<1>6. ASSUME NEW t \in Sites, t \notin tainted'
      PROVE  SiteInv(t)'
  <2>1. t \notin tainted /\ UNCHANGED reset /\ jobs'[t] = jobs[t] /\ states'[t] = states[t]
    BY <1>1, <1>6 DEF records
  <2>. QED
    BY <1>3, <2>1, SiteKept
<1>7. Supported \subseteq runtimes' /\ removing' \notin Supported
  BY <1>1, <1>3 DEF ProvInv
<1>8. SystemTypes'
  BY <1>3, <1>4, Types DEF SystemTypes, HostTypes, ControlTypes
<1>. QED
  BY <1>5, <1>6, <1>7, <1>8 DEF ProvInv

\* The removal ends.
LEMMA RemovalEnds ==
    ASSUME ProvInv, removing # None, removing' = None, faults' \in 0 .. MaxFaults,
           UNCHANGED <<records, vhosts, pools, host, jobs, reset, ops, tainted>>, HostTypes',
           runtimes \ {removing} \subseteq runtimes', \A t \in Sites : Untouched(t) /\ CatchesUp(t)
    PROVE  ProvInv'
<1>1. ControlTypes /\ FormInv
  BY Types DEF ProvInv
<1>2. ControlTypes'
  BY <1>1 DEF ControlTypes, records
<1>3. FormInv'
  BY <1>1 DEF FormInv, ResetForm, Resetting, Archived, records, host
<1>4. ASSUME NEW t \in Sites, t \notin tainted'
      PROVE  SiteInv(t)'
  <2>1. t \notin tainted /\ UNCHANGED reset /\ jobs'[t] = jobs[t] /\ states'[t] = states[t]
    BY <1>4 DEF records
  <2>. QED
    BY <2>1, SiteKept
<1>5. Supported \subseteq runtimes' /\ removing' \notin Supported
  BY NoneIsNoEntry, ProvisionerAssumption DEF ProvInv
<1>6. SystemTypes'
  BY <1>2, Types DEF SystemTypes, HostTypes, ControlTypes
<1>. QED
  BY <1>3, <1>4, <1>5, <1>6 DEF ProvInv

LEMMA AptRemoveKeeps ==
    ASSUME ProvInv, AptRemove
    PROVE  ProvInv'
<1>1. /\ removing # None /\ removing' = None /\ runtimes' = runtimes \ {removing}
      /\ fpm' = [fpm EXCEPT ![removing] = [s \in Sites |-> None]]
      /\ UNCHANGED <<records, vhosts, pools, host, jobs, reset, ops, faults, tainted>>
  BY DEF AptRemove
<1>2. HostTypes /\ faults \in 0 .. MaxFaults /\ fpm \in [Versions -> [Sites -> Limits \cup {None}]]
  BY Types DEF ProvInv, ControlTypes, HostTypes
<1>3. /\ fpm' \in [Versions -> [Sites -> Limits \cup {None}]]
      /\ \A w \in runtimes', t \in Sites : fpm'[w][t] = fpm[w][t]
  BY <1>1, <1>2 DEF HostTypes
<1>4. HostTypes'
  BY <1>1, <1>2, <1>3 DEF HostTypes, vhosts, host
<1>5. \A t \in Sites : Untouched(t) /\ CatchesUp(t)
  BY <1>1, <1>3 DEF Untouched, CatchesUp, vhosts, host
<1>. QED
  BY <1>1, <1>2, <1>4, <1>5, RemovalEnds

LEMMA AptFailsKeeps ==
    ASSUME ProvInv, AptFails
    PROVE  ProvInv'
<1>1. /\ removing # None /\ removing' = None /\ faults < MaxFaults /\ faults' = faults + 1
      /\ UNCHANGED <<records, hostVars, jobs, reset, ops, tainted>>
  BY DEF AptFails
<1>2. HostTypes /\ faults' \in 0 .. MaxFaults
  BY <1>1, Types, ProvisionerAssumption DEF ProvInv, ControlTypes
<1>3. HostTypes' /\ UNCHANGED runtimes /\ \A t \in Sites : Untouched(t) /\ CatchesUp(t)
  BY <1>1, <1>2, HostIdle
<1>. QED
  BY <1>1, <1>2, <1>3, RemovalEnds DEF hostVars, php

LEMMA CrashKeeps ==
    ASSUME ProvInv, Crash
    PROVE  ProvInv'
<1>1. /\ faults < MaxFaults /\ faults' = faults + 1 /\ states' = sitesFile
      /\ tainted' = (tainted \cup {s \in Sites : jobs[s] # None}) \cup ({reset.site} \ {None})
      /\ jobs' = [s \in Sites |-> None] /\ reset' = NoReset /\ removing' = None
      /\ UNCHANGED <<sitesFile, hostVars, ops>>
  BY DEF Crash
<1>2. HostTypes /\ ControlTypes /\ sitesFile = states /\ reset.site \in Sites \cup {None}
      /\ runtimes \subseteq Versions
  BY Types DEF ProvInv, ControlTypes, FormInv, HostTypes
<1>3. HostTypes' /\ UNCHANGED runtimes /\ \A t \in Sites : Untouched(t) /\ CatchesUp(t)
  BY <1>1, <1>2, HostIdle
<1>4. reset'.site = None /\ reset'.rest = {} /\ Resetting' = {}
  BY <1>1 DEF NoReset, Resetting
<1>5. ControlTypes'
  BY <1>1, <1>2, <1>4, ProvisionerAssumption DEF ControlTypes
<1>6. FormInv'
  BY <1>1, <1>2, <1>4 DEF FormInv, ResetForm
<1>7. ASSUME NEW t \in Sites, t \notin tainted'
      PROVE  SiteInv(t)'
  <2>1. t \notin tainted /\ jobs[t] = None /\ t # reset.site /\ states'[t] = states[t]
    BY <1>1, <1>2, <1>7, NoneIsNoEntry
  <2>2. AtRest(t)
    BY <2>1, InvAt DEF SiteInv
  <2>3. AtRest(t)'
    BY <1>2, <1>3, <2>1, <2>2, RestKept
  <2>. QED
    BY <1>1, <1>4, <2>3, NoneIsNoEntry DEF SiteInv
<1>8. Supported \subseteq runtimes' /\ removing' \notin Supported
  BY <1>1, <1>3, NoneIsNoEntry, ProvisionerAssumption DEF ProvInv
<1>9. SystemTypes'
  BY <1>3, <1>5, Types DEF SystemTypes, HostTypes, ControlTypes
<1>. QED
  BY <1>6, <1>7, <1>8, <1>9 DEF ProvInv
-----------------------------------------------------------------------------
(* The theorems.                                                           *)

LEMMA InitHolds == Init => ProvInv
<1>. SUFFICES ASSUME Init
              PROVE  ProvInv
  OBVIOUS
<1>1. /\ states \in [Sites -> State \cup {None}]
      /\ \A s \in Sites : states[s] # None =>
            /\ states[s].php \in Versions /\ states[s].limits = DefaultLimits
            /\ states[s].domains = {s} /\ states[s].app = FALSE
            /\ states[s].status \in {"active", "suspended"}
  <2>1. ASSUME NEW s \in Sites, NEW st \in Past(s)
        PROVE  /\ st \in State /\ st.php \in Versions /\ st.limits = DefaultLimits
               /\ st.domains = {s} /\ st.app = FALSE /\ st.status \in {"active", "suspended"}
    BY DEF Past, State
  <2>2. \A s \in Sites : states[s] \in Past(s) \cup {None}
    BY DEF Init
  <2>3. \E X : states \in [Sites -> X]
    BY DEF Init
  <2>. QED
    BY <2>1, <2>2, <2>3
<1>2. \A s \in Sites : states[s] # None => caddyConfigFor(states[s]) \in Vhost
  BY <1>1 DEF caddyConfigFor, Vhost, Domains
<1>3. /\ \A s \in Sites : enabled[s] = IF states[s] # None /\ states[s].status = "active"
                                       THEN caddyConfigFor(states[s]) ELSE None
      /\ \A s \in Sites : disabled[s] = IF states[s] # None /\ states[s].status = "suspended"
                                        THEN caddyConfigFor(states[s]) ELSE None
      /\ enabled \in [Sites -> Vhost \cup {None}] /\ disabled \in [Sites -> Vhost \cup {None}]
      /\ served = enabled
  BY <1>2 DEF Init, Recorded
<1>4. /\ \A v \in Versions, s \in Sites : pools[v][s] = IF states[s] # None /\ states[s].php = v
                                                        THEN DefaultLimits ELSE None
      /\ pools \in [Versions -> [Sites -> Limits \cup {None}]] /\ fpm = pools
  BY ProvisionerAssumption DEF Init, Recorded
<1>5. /\ \A s \in Sites : s \in users <=> states[s] # None
      /\ \A s \in Sites : roots[s] = IF states[s] # None THEN "files" ELSE None
      /\ users \subseteq Sites
      /\ roots \in [Sites -> Contents \cup {None}] /\ trash \in [Sites -> Contents \cup {None}]
  BY DEF Init, Recorded, Contents
<1>6. /\ sitesFile = states /\ runtimes = Versions /\ jobs = [s \in Sites |-> None] /\ reset = NoReset
      /\ removing = None /\ ops = 0 /\ faults = 0 /\ tainted = {}
  BY DEF Init
<1>7. reset.site = None /\ reset.rest = {} /\ Resetting = {}
  BY <1>6 DEF NoReset, Resetting
<1>8. SystemTypes
  <2>1. HostTypes
    BY <1>3, <1>4, <1>5, <1>6 DEF HostTypes
  <2>2. ControlTypes
    BY <1>1, <1>6, <1>7, ProvisionerAssumption DEF ControlTypes
  <2>. QED
    BY <2>1, <2>2, Types
<1>9. FormInv
  BY <1>6, <1>7 DEF FormInv, ResetForm
<1>10. ASSUME NEW s \in Sites
       PROVE  SiteInv(s)
  <2>1. CASE states[s] = None
    BY <1>3, <1>4, <1>5, <1>6, <1>7, <2>1, NoneIsNoEntry
       DEF SiteInv, AtRest, Matches, Nothing
  <2>2. CASE states[s] # None
    <3>1. VhostsFit(s, states[s])
      <4>1. /\ caddyConfigFor(states[s]).domains = states[s].domains
            /\ caddyConfigFor(states[s]).app = states[s].app
            /\ caddyConfigFor(states[s]) # None
        BY <1>2, <2>2, NoneIsNoEntry DEF caddyConfigFor
      <4>. QED
        BY <1>1, <1>3, <2>2, <4>1 DEF VhostsFit, Fits, File, Other
    <3>2. Lives(s) /\ PoolsAre(s, states[s].php, states[s].limits)
      BY <1>1, <1>4, <1>5, <2>2, NoneIsNoEntry DEF Lives, PoolsAre, Contents
    <3>3. AtRest(s)
      BY <1>3, <1>4, <2>2, <3>1, <3>2 DEF AtRest, Matches
    <3>. QED
      BY <1>6, <1>7, <3>3, NoneIsNoEntry DEF SiteInv
  <2>. QED
    BY <2>1, <2>2
<1>11. Supported \subseteq runtimes /\ removing \notin Supported
  BY <1>6, ProvisionerAssumption, NoneIsNoEntry
<1>. QED
  BY <1>6, <1>8, <1>9, <1>10, <1>11 DEF ProvInv

LEMMA StepHolds == ProvInv /\ [Next]_vars => ProvInv'
<1>. SUFFICES ASSUME ProvInv, [Next]_vars
              PROVE  ProvInv'
  BY ZenonT(40)
<1>1. CASE UNCHANGED vars
  BY <1>1 DEF vars, records, hostVars, vhosts, php, host, control, ProvInv, SystemTypes, FormInv, ResetForm,
              Resetting, Archived, SiteInv, InFlight, JobAt, CreateAt, EditAt, StatusAt, PHPAt,
              LimitsAt, DeleteAt, ResetAt, FpmAt, ServedAt, AtRest, Matches, Nothing, Lives, VhostsFit,
              VhostsAre, PoolsAre, File, Other
<1>2. ASSUME NEW s \in Sites, NEW v \in Versions, NEW l \in Limits, Create(s, v, l)
      PROVE  ProvInv'
  BY <1>2, CreateKeeps
<1>3. ASSUME NEW s \in Sites, NEW d \in Domains, AddDomain(s, d) \/ RemoveDomain(s, d)
      PROVE  ProvInv'
  BY <1>3, AddDomainKeeps, RemoveDomainKeeps
<1>4. ASSUME NEW s \in Sites, AppInstall(s) \/ Delete(s)
      PROVE  ProvInv'
  BY <1>4, AppInstallKeeps, DeleteKeeps
<1>5. ASSUME NEW s \in Sites, NEW target \in {"active", "suspended"}, setSiteStatus(s, target)
      PROVE  ProvInv'
  BY <1>5, setSiteStatusKeeps
<1>6. ASSUME NEW s \in Sites, NEW v \in Versions, SetPHPVersion(s, v)
      PROVE  ProvInv'
  BY <1>6, SetPHPVersionKeeps
<1>7. ASSUME NEW s \in Sites, NEW l \in Limits, SetResources(s, l)
      PROVE  ProvInv'
  BY <1>7, SetResourcesKeeps
<1>8. ASSUME NEW s \in Sites, Step(s) \/ Fail(s) \/ FailCommitted(s) \/ FailUndo(s)
      PROVE  ProvInv'
  BY <1>8, StepKeeps, FailKeeps, FailCommittedKeeps, FailUndoKeeps
<1>9. CASE Reset \/ ResetStep \/ ResetFail
  BY <1>9, ResetKeeps, ResetStepKeeps, ResetFailKeeps
<1>10. ASSUME NEW v \in Versions, RemoveRuntime(v)
       PROVE  ProvInv'
  BY <1>10, RemoveRuntimeKeeps
<1>11. CASE AptRemove \/ AptFails \/ Crash
  BY <1>11, AptRemoveKeeps, AptFailsKeeps, CrashKeeps
<1>. QED
  BY <1>1, <1>2, <1>3, <1>4, <1>5, <1>6, <1>7, <1>8, <1>9, <1>10, <1>11 DEF Next, HostNext

LEMMA InvHolds == Spec => []ProvInv
BY InitHolds, StepHolds, PTL DEF Spec

\* The steps that give a site back no record.
LEMMA WhoForgets ==
    ASSUME NEW j \in Job, JobForm(j)
    PROVE  /\ Head(j.todo) = "forget" => j.op = "delete" /\ ~j.undo /\ Len(j.todo) <= 5
           /\ Head(j.todo) = "saveOld" => j.old # None /\ j.op = "delete"
<1>0. PICK t \in Seq(HostSteps) : t = j.todo
  BY DEF Job
<1>1. PICK r : t = j.todo /\ r = Len(t)
  BY <1>0
<1>2. j.op \in Ops /\ j.undo \in BOOLEAN /\ j.new.status \in {"active", "suspended"}
  BY DEF Job, State
<1>3. CASE j.op = "create"
  <2>1. CASE ~j.undo
    <3>1. TodoOf(createSteps, t)
      BY <1>1, <1>3, <2>1 DEF JobForm
    <3>2. r \in 1 .. 7
      BY <1>1, <3>1, CreateStepsNext
    <3>. QED
      BY <1>1, <3>1, <3>2, CreateStepsNext
  <2>2. CASE j.undo
    <3>1. TodoOf(uncreateSteps, t) \/ TodoOf(uncreateShort, t)
      BY <1>1, <1>3, <2>2 DEF JobForm
    <3>2. CASE TodoOf(uncreateSteps, t)
      <4>1. r \in 1 .. 6
        BY <1>1, <3>2, UncreateStepsNext
      <4>. QED
        BY <1>1, <3>2, <4>1, UncreateStepsNext
    <3>3. CASE TodoOf(uncreateShort, t)
      <4>1. r \in 1 .. 3
        BY <1>1, <3>3, UncreateShortNext
      <4>. QED
        BY <1>1, <3>3, <4>1, UncreateShortNext
    <3>. QED
      BY <3>1, <3>2, <3>3
  <2>. QED
    BY <2>1, <2>2
<1>4. CASE j.op \in {"domains", "install"}
  <2>1. \/ TodoOf(editSteps, t) \/ TodoOf(editQuietly, t) \/ TodoOf(uneditSteps, t)
    BY <1>1, <1>2, <1>4 DEF JobForm
  <2>2. CASE TodoOf(editSteps, t)
    <3>1. r \in 1 .. 5
      BY <1>1, <2>2, EditStepsNext
    <3>. QED
      BY <1>1, <2>2, <3>1, EditStepsNext
  <2>3. CASE TodoOf(editQuietly, t)
    <3>1. r \in 1 .. 4
      BY <1>1, <2>3, EditQuietlyNext
    <3>. QED
      BY <1>1, <2>3, <3>1, EditQuietlyNext
  <2>4. CASE TodoOf(uneditSteps, t)
    <3>1. Head(t) = "restoreVhost"
      BY <1>1, <2>4, UneditStepsNext
    <3>. QED
      BY <1>1, <3>1
  <2>. QED
    BY <2>1, <2>2, <2>3, <2>4
<1>5. CASE j.op = "status"
  <2>1. TodoOf(statusSteps, t) \/ TodoOf(unstatusSteps, t)
    BY <1>1, <1>5 DEF JobForm
  <2>2. CASE TodoOf(statusSteps, t)
    <3>1. r \in 1 .. 3
      BY <1>1, <2>2, StatusStepsNext
    <3>. QED
      BY <1>1, <2>2, <3>1, StatusStepsNext
  <2>3. CASE TodoOf(unstatusSteps, t)
    <3>1. r \in 1 .. 2
      BY <1>1, <2>3, UnstatusStepsNext
    <3>. QED
      BY <1>1, <2>3, <3>1, UnstatusStepsNext
  <2>. QED
    BY <2>1, <2>2, <2>3
<1>6. CASE j.op = "php"
  <2>1. TodoOf(phpSteps, t) \/ TodoOf(unphpSteps, t)
    BY <1>1, <1>6 DEF JobForm
  <2>2. CASE TodoOf(phpSteps, t)
    <3>1. r \in 1 .. 5
      BY <1>1, <2>2, PhpStepsNext
    <3>. QED
      BY <1>1, <2>2, <3>1, PhpStepsNext
  <2>3. CASE TodoOf(unphpSteps, t)
    <3>1. r \in 1 .. 4
      BY <1>1, <2>3, UnphpStepsNext
    <3>. QED
      BY <1>1, <2>3, <3>1, UnphpStepsNext
  <2>. QED
    BY <2>1, <2>2, <2>3
<1>7. CASE j.op = "limits"
  <2>1. TodoOf(limitsSteps, t) \/ TodoOf(unlimitsSteps, t)
    BY <1>1, <1>7 DEF JobForm
  <2>2. CASE TodoOf(limitsSteps, t)
    <3>1. r \in 1 .. 3
      BY <1>1, <2>2, LimitsStepsNext
    <3>. QED
      BY <1>1, <2>2, <3>1, LimitsStepsNext
  <2>3. CASE TodoOf(unlimitsSteps, t)
    <3>1. r \in 1 .. 2
      BY <1>1, <2>3, UnlimitsStepsNext
    <3>. QED
      BY <1>1, <2>3, <3>1, UnlimitsStepsNext
  <2>. QED
    BY <2>1, <2>2, <2>3
<1>8. CASE j.op = "delete"
  <2>1. j.old # None /\ TodoOf(IF j.undo THEN undeleteSteps ELSE deleteSteps, t)
    BY <1>1, <1>8 DEF JobForm
  <2>2. CASE j.undo
    <3>1. TodoOf(undeleteSteps, t)
      BY <2>1, <2>2
    <3>2. r \in 1 .. 5
      BY <1>1, <3>1, UndeleteStepsNext
    <3>. QED
      BY <1>1, <1>8, <2>1, <3>1, <3>2, UndeleteStepsNext
  <2>3. CASE ~j.undo
    <3>1. TodoOf(deleteSteps, t)
      BY <2>1, <2>3
    <3>2. /\ r \in 1 .. 6 /\ (r = 6 => Head(t) = "archive")
      BY <1>1, <3>1, DeleteStepsNext
    <3>3. Head(t) = "forget" => r <= 5
      BY <3>2
    <3>. QED
      BY <1>1, <1>8, <2>1, <2>3, <3>3
  <2>. QED
    BY <2>2, <2>3
<1>. QED
  BY <1>2, <1>3, <1>4, <1>5, <1>6, <1>7, <1>8 DEF Ops

LEMMA StoreForgets ==
    ASSUME SiteTypes, NEW s \in Sites, NEW j \in Job, JobForm(j), Archived(s, j),
           NEW outcome \in Outcomes, StoreStep(s, j, Head(j.todo), outcome),
           NEW t \in Sites, states[t] # None, states'[t] = None
    PROVE  trash'[t] # None
<1>1. PICK step : step = Head(j.todo)
  OBVIOUS
<1>2. PICK st : st = IF step = "forget" THEN None ELSE IF step = "saveOld" THEN j.old ELSE j.new
  OBVIOUS
<1>3. /\ states' \in {states, [states EXCEPT ![s] = st]} /\ UNCHANGED hostVars
  BY <1>1, <1>2 DEF StoreStep, AtomicWrite, MemoryAfter, IsCommitted, Outcomes
<1>4. states \in [Sites -> State \cup {None}]
  BY DEF SiteTypes
<1>5. t = s /\ st = None
  BY <1>3, <1>4
<1>6. j.new # None
  BY NoneIsNoEntry DEF Job
<1>7. step = "forget"
  BY <1>1, <1>2, <1>5, <1>6, WhoForgets
<1>8. trash[s] # None
  BY <1>1, <1>7, WhoForgets DEF Archived
<1>. QED
  BY <1>3, <1>5, <1>8 DEF hostVars, host

LEMMA ForgetsArchived ==
    ASSUME ProvInv, Next, NEW t \in Sites, states[t] # None, states'[t] = None
    PROVE  trash'[t] # None \/ reset.site = t
<1>0. /\ SiteTypes /\ sitesFile = states /\ ResetForm
      /\ \A s \in Sites : jobs[s] # None => jobs[s] \in Job /\ JobForm(jobs[s]) /\ Archived(s, jobs[s])
  BY Types DEF ProvInv, FormInv, SiteTypes, ControlTypes
<1>1. ~UNCHANGED states
  OBVIOUS
<1>2. ASSUME NEW s \in Sites, Step(s) \/ Fail(s) \/ FailCommitted(s) \/ FailUndo(s)
      PROVE  trash'[t] # None
  <2>1. PICK j \in Job : j = jobs[s] /\ JobForm(j) /\ Archived(s, j)
    BY <1>0, <1>2 DEF Step, Fail, FailCommitted, FailUndo
  <2>2. PICK outcome \in Outcomes : StoreStep(s, j, Head(j.todo), outcome)
    <3>1. CASE Step(s)
      BY <1>1, <2>1, <3>1 DEF Step, records, Outcomes
    <3>2. CASE Fail(s)
      BY <1>1, <2>1, <3>2 DEF Fail, HostError, StoreError, records, Outcomes
    <3>3. CASE FailCommitted(s)
      BY <1>1, <2>1, <3>3 DEF FailCommitted, StoreError, Outcomes
    <3>4. CASE FailUndo(s)
      BY <1>1, <2>1, <3>4 DEF FailUndo, HostError, StoreError, records, Outcomes
    <3>. QED
      BY <1>2, <3>1, <3>2, <3>3, <3>4
  <2>. QED
    BY <1>0, <2>1, <2>2, StoreForgets
<1>3. CASE ResetStep
  <2>1. PICK s \in Sites : s = reset.site
    BY <1>0, <1>3 DEF ResetStep, ResetForm, NoReset
  <2>2. PICK step : step = Head(reset.todo)
    OBVIOUS
  <2>3. \A u \in Sites \ {s} : states'[u] = states[u]
    BY <1>0, <1>3, <2>1, <2>2, ResetEffect
  <2>. QED
    BY <2>1, <2>3
<1>4. CASE ResetFail
  <2>1. PICK s \in Sites : s = reset.site
    BY <1>0, <1>4 DEF ResetFail, ResetForm, NoReset
  <2>0. PICK j, step : j = ResetJob /\ step = Head(reset.todo)
    OBVIOUS
  <2>2. PICK outcome \in Outcomes : StoreStep(s, j, step, outcome)
    BY <1>1, <1>4, <2>0, <2>1 DEF ResetFail, HostError, StoreError, records, Outcomes
  <2>3. \A u \in Sites \ {s} : states'[u] = states[u]
    BY <1>0, <2>2 DEF StoreStep, MemoryAfter, SiteTypes
  <2>. QED
    BY <2>1, <2>3
<1>5. ASSUME NEW s \in Sites, NEW op, NEW new, NEW todo, Begin(s, op, new, todo)
      PROVE  FALSE
  BY <1>1, <1>5 DEF Begin, records
<1>6. ~Reset /\ ~(\E v \in Versions : RemoveRuntime(v)) /\ ~AptRemove /\ ~AptFails /\ ~Crash
  BY <1>0, <1>1 DEF Reset, RemoveRuntime, AptRemove, AptFails, Crash, records
<1>7. ASSUME NEW s \in Sites
      PROVE  /\ ~(\E v \in Versions, l \in Limits : Create(s, v, l))
             /\ ~(\E d \in Domains : AddDomain(s, d) \/ RemoveDomain(s, d))
             /\ ~AppInstall(s) /\ ~Delete(s)
             /\ ~(\E target \in {"active", "suspended"} : setSiteStatus(s, target))
             /\ ~(\E v \in Versions : SetPHPVersion(s, v))
             /\ ~(\E l \in Limits : SetResources(s, l))
  BY <1>5, Zenon DEF Create, AddDomain, RemoveDomain, AppInstall, Delete, setSiteStatus, SetPHPVersion, SetResources
<1>. QED
  BY <1>2, <1>3, <1>4, <1>6, <1>7 DEF Next, HostNext
-----------------------------------------------------------------------------
(* The versions the sites are recorded on, settled or not.                 *)

RunInv ==
    /\ revived \subseteq Sites
    /\ \A s \in Recorded \ revived : states[s].php \in runtimes \ {removing}
    /\ \A s \in Recorded : jobs[s] # None =>
          jobs[s].new.php \in Supported \/ states[s].php = jobs[s].new.php

\* What a step may do to the record of a site and to its operation.
Moves(s) ==
    /\ states'[s] \in {states[s], None} \/ (jobs[s] # None /\ states'[s] = jobs[s].new)
    /\ jobs'[s] # None =>
          \/ jobs'[s].new.php \in Supported
          \/ jobs[s] # None /\ jobs'[s].new = jobs[s].new
          \/ states'[s] = states[s] /\ states[s] # None /\ jobs'[s].new.php = states[s].php

LEMMA BeginMoves ==
    ASSUME SiteTypes, jobs \in [Sites -> Job \cup {None}], NEW s \in Sites, NEW op, NEW new, NEW todo,
           Begin(s, op, new, todo),
           new.php \in Supported \/ (states[s] # None /\ new.php = states[s].php)
    PROVE  UNCHANGED <<runtimes, removing>> /\ \A t \in Sites : Moves(t)
<1>1. UNCHANGED <<states, runtimes, removing>> /\ jobs[s] = None
  BY DEF Begin, records, hostVars, php
<1>2. \/ jobs' = jobs
      \/ \E k : k.new = new /\ jobs' = [jobs EXCEPT ![s] = k]
  BY DEF Begin
<1>3. CASE jobs' = jobs
  BY <1>1, <1>3 DEF Moves
<1>4. ASSUME NEW k, k.new = new, jobs' = [jobs EXCEPT ![s] = k]
      PROVE  \A t \in Sites : Moves(t)
  <2>1. jobs'[s] = k /\ \A t \in Sites \ {s} : jobs'[t] = jobs[t]
    BY <1>4
  <2>. QED
    BY <1>1, <1>4, <2>1 DEF Moves
<1>. QED
  BY <1>1, <1>2, <1>3, <1>4

\* An operation records nothing but what it works towards, and the record that
\* Delete puts back is the same.
LEMMA StoreMoves ==
    ASSUME SiteTypes, NEW s \in Sites, NEW j \in Job, JobForm(j),
           NEW outcome \in Outcomes, StoreStep(s, j, Head(j.todo), outcome)
    PROVE  /\ UNCHANGED runtimes /\ \A t \in Sites \ {s} : states'[t] = states[t]
           /\ states'[s] \in {states[s], None, j.new}
<1>1. PICK step : step = Head(j.todo)
  OBVIOUS
<1>2. PICK st : st = IF step = "forget" THEN None ELSE IF step = "saveOld" THEN j.old ELSE j.new
  OBVIOUS
<1>3. states' \in {states, [states EXCEPT ![s] = st]} /\ UNCHANGED hostVars
  BY <1>1, <1>2 DEF StoreStep, AtomicWrite, MemoryAfter, IsCommitted, Outcomes
<1>4. step = "saveOld" => j.old = j.new
  BY <1>1, WhoForgets DEF JobForm
<1>. QED
  BY <1>2, <1>3, <1>4 DEF SiteTypes, hostVars, php

LEMMA JobMoves ==
    ASSUME ProvInv, NEW s \in Sites, Step(s) \/ Fail(s) \/ FailCommitted(s) \/ FailUndo(s)
    PROVE  UNCHANGED <<runtimes, removing>> /\ \A t \in Sites : Moves(t)
<1>1. PICK j \in Job : j = jobs[s] /\ JobForm(j) /\ j # None
  BY InvAt DEF Step, Fail, FailCommitted, FailUndo
<1>2. SiteTypes /\ jobs \in [Sites -> Job \cup {None}]
  BY InvAt, Types DEF ProvInv, ControlTypes
<1>3. \/ UNCHANGED <<states, runtimes>>
      \/ \E outcome \in Outcomes : StoreStep(s, j, Head(j.todo), outcome)
  <2>1. CASE Step(s)
    <3>1. \/ HostStep(s, j, Head(j.todo)) /\ UNCHANGED records
          \/ StoreStep(s, j, Head(j.todo), "ok")
      BY <1>1, <2>1 DEF Step
    <3>2. HostStep(s, j, Head(j.todo)) => UNCHANGED runtimes
      BY DEF HostStep, Users, Directories, WriteVhost, MoveVhost, ReloadCaddy, ReloadFpm, WritePool, php
    <3>. QED
      BY <3>1, <3>2 DEF records, Outcomes
  <2>2. CASE Fail(s)
    BY <1>1, <2>2 DEF Fail, HostError, StoreError, records, hostVars, php, Outcomes
  <2>3. CASE FailCommitted(s)
    BY <1>1, <2>3 DEF FailCommitted, StoreError, Outcomes
  <2>4. CASE FailUndo(s)
    BY <1>1, <2>4 DEF FailUndo, HostError, StoreError, records, hostVars, php, Outcomes
  <2>. QED
    BY <2>1, <2>2, <2>3, <2>4
<1>4. UNCHANGED runtimes /\ states'[s] \in {states[s], None, j.new}
      /\ \A t \in Sites \ {s} : states'[t] = states[t]
  BY <1>1, <1>2, <1>3, StoreMoves
<1>5. \E todo, undo : Continue(s, todo, undo)
  BY Zenon DEF Step, Fail, FailCommitted, FailUndo
<1>6. /\ jobs'[s] # None => jobs'[s].new = j.new
      /\ \A t \in Sites \ {s} : jobs'[t] = jobs[t]
  <2>1. PICK todo, undo : jobs' = [jobs EXCEPT ![s] =
                             IF todo = <<>> THEN None
                             ELSE [j EXCEPT !.todo = todo, !.undo = undo]]
    BY <1>1, <1>5 DEF Continue
  <2>2. PICK k : k = [j EXCEPT !.todo = todo, !.undo = undo]
    OBVIOUS
  <2>3. k.new = j.new
    BY <2>2 DEF Job
  <2>4. jobs'[s] \in {None, k} /\ \A t \in Sites \ {s} : jobs'[t] = jobs[t]
    BY <1>2, <2>1, <2>2
  <2>. QED
    BY <2>3, <2>4
<1>7. UNCHANGED removing
  BY DEF Step, Fail, FailCommitted, FailUndo
<1>. QED
  BY <1>1, <1>4, <1>6, <1>7 DEF Moves

LEMMA ResetRecords ==
    ASSUME ProvInv, ResetStep \/ ResetFail
    PROVE  UNCHANGED <<runtimes, removing>> /\ \A t \in Sites : Moves(t)
<1>1. SiteTypes /\ ResetForm
  BY Types DEF ProvInv, FormInv, SiteTypes, ControlTypes
<1>2. PICK s : s = reset.site /\ s # None
  BY DEF ResetStep, ResetFail
<1>3. s \in Sites /\ reset \in ResetRecord /\ TodoOf(resetSteps, reset.todo)
  BY <1>1, <1>2 DEF ResetForm, NoReset
<1>4. PICK step, j : step = Head(reset.todo) /\ j = ResetJob
  OBVIOUS
<1>5. step \in StoreSteps => step = "forget"
  <2>1. PICK t \in Seq(HostSteps) : t = reset.todo
    BY <1>3 DEF ResetRecord
  <2>2. PICK r : r = Len(t)
    OBVIOUS
  <2>3. r \in 1 .. 6
    BY <1>3, <2>1, <2>2, ResetStepsNext
  <2>. QED
    BY <1>3, <1>4, <2>1, <2>2, <2>3, ResetStepsNext DEF StoreSteps
<1>6. \/ UNCHANGED <<states, runtimes>>
      \/ \E outcome \in Outcomes : StoreStep(s, j, step, outcome)
  <2>1. CASE ResetStep
    <3>1. HostStep(s, j, step) => UNCHANGED runtimes
      BY DEF HostStep, Users, Directories, WriteVhost, MoveVhost, ReloadCaddy, ReloadFpm, WritePool, php
    <3>. QED
      BY <1>2, <1>4, <2>1, <3>1 DEF ResetStep, WritePool, records, hostVars, php, Outcomes
  <2>2. CASE ResetFail
    BY <1>2, <1>4, <2>2 DEF ResetFail, HostError, StoreError, records, hostVars, php, Outcomes
  <2>. QED
    BY <2>1, <2>2
<1>7. UNCHANGED runtimes /\ \A t \in Sites : states'[t] \in {states[t], None}
  <2>1. ASSUME NEW outcome \in Outcomes, StoreStep(s, j, step, outcome)
        PROVE  UNCHANGED runtimes /\ \A t \in Sites : states'[t] \in {states[t], None}
    <3>1. step = "forget"
      BY <1>5, <2>1 DEF StoreStep
    <3>2. states' \in {states, [states EXCEPT ![s] = None]} /\ UNCHANGED hostVars
      BY <2>1, <3>1 DEF StoreStep, AtomicWrite, MemoryAfter, IsCommitted, Outcomes
    <3>. QED
      BY <1>1, <3>2 DEF SiteTypes, hostVars, php
  <2>. QED
    BY <1>6, <2>1
<1>8. UNCHANGED <<jobs, removing>>
  BY DEF ResetStep, ResetFail
<1>. QED
  BY <1>7, <1>8 DEF Moves

LEMMA HostMoves ==
    ASSUME ProvInv, HostNext
    PROVE  /\ \A t \in Sites : Moves(t)
           /\ \/ runtimes \ {removing} \subseteq runtimes' \ {removing'}
              \/ /\ UNCHANGED <<states, runtimes>>
                 /\ \A s \in Recorded : states[s].php \in runtimes => states[s].php \in runtimes' \ {removing'}
<1>1. /\ SiteTypes /\ jobs \in [Sites -> Job \cup {None}] /\ runtimes \subseteq Versions
      /\ sitesFile = states
  BY Types DEF ProvInv, FormInv, SiteTypes, HostTypes, ControlTypes
<1>2. ASSUME NEW s \in Sites, NEW v \in Versions, NEW l \in Limits, Create(s, v, l)
      PROVE  UNCHANGED <<runtimes, removing>> /\ \A t \in Sites : Moves(t)
  <2>1. NewState(s, v, l).php \in Supported
    BY <1>2 DEF Create, ValidateNewSite, NewState
  <2>. QED
    BY <1>1, <1>2, <2>1, BeginMoves DEF Create
<1>3. ASSUME NEW s \in Sites, NEW op, NEW new, NEW todo, Begin(s, op, new, todo), s \in Recorded,
             new.php \in Supported \cup {states[s].php}
      PROVE  UNCHANGED <<runtimes, removing>> /\ \A t \in Sites : Moves(t)
  BY <1>1, <1>3, BeginMoves DEF Recorded
<1>4. ASSUME NEW s \in Sites, NEW d \in Domains, AddDomain(s, d) \/ RemoveDomain(s, d)
      PROVE  UNCHANGED <<runtimes, removing>> /\ \A t \in Sites : Moves(t)
  <2>1. s \in Recorded /\ states[s] \in State
    BY <1>1, <1>4 DEF AddDomain, RemoveDomain, Recorded, SiteTypes
  <2>2. CASE AddDomain(s, d)
    <3>1. PICK new : new = [states[s] EXCEPT !.domains = @ \cup {d}]
      OBVIOUS
    <3>2. new.php = states[s].php
      BY <2>1, <3>1 DEF State
    <3>. QED
      BY <1>3, <2>1, <2>2, <3>1, <3>2 DEF AddDomain
  <2>3. CASE RemoveDomain(s, d)
    <3>1. PICK new : new = [states[s] EXCEPT !.domains = @ \ {d}]
      OBVIOUS
    <3>2. new.php = states[s].php
      BY <2>1, <3>1 DEF State
    <3>. QED
      BY <1>3, <2>1, <2>3, <3>1, <3>2 DEF RemoveDomain
  <2>. QED
    BY <1>4, <2>2, <2>3
<1>5. ASSUME NEW s \in Sites, AppInstall(s) \/ Delete(s)
      PROVE  UNCHANGED <<runtimes, removing>> /\ \A t \in Sites : Moves(t)
  <2>1. s \in Recorded /\ states[s] \in State
    BY <1>1, <1>5 DEF AppInstall, Delete, Recorded, SiteTypes
  <2>2. CASE AppInstall(s)
    <3>1. PICK new : new = [states[s] EXCEPT !.app = TRUE]
      OBVIOUS
    <3>2. new.php = states[s].php
      BY <2>1, <3>1 DEF State
    <3>3. \E todo : Begin(s, "install", new, todo)
      BY <2>2, <3>1 DEF AppInstall
    <3>. QED
      BY <1>3, <2>1, <3>2, <3>3
  <2>3. CASE Delete(s)
    <3>1. \E todo : Begin(s, "delete", states[s], todo)
      BY <2>3 DEF Delete
    <3>. QED
      BY <1>3, <2>1, <3>1
  <2>. QED
    BY <1>5, <2>2, <2>3
<1>6. ASSUME NEW s \in Sites, NEW target \in {"active", "suspended"}, setSiteStatus(s, target)
      PROVE  UNCHANGED <<runtimes, removing>> /\ \A t \in Sites : Moves(t)
  <2>1. s \in Recorded /\ states[s] \in State
    BY <1>1, <1>6 DEF setSiteStatus, Recorded, SiteTypes
  <2>2. PICK new : new = [states[s] EXCEPT !.status = target]
    OBVIOUS
  <2>3. new.php = states[s].php
    BY <2>1, <2>2 DEF State
  <2>. QED
    BY <1>3, <1>6, <2>1, <2>2, <2>3 DEF setSiteStatus
<1>7. ASSUME NEW s \in Sites, NEW v \in Versions, SetPHPVersion(s, v)
      PROVE  UNCHANGED <<runtimes, removing>> /\ \A t \in Sites : Moves(t)
  <2>1. s \in Recorded /\ states[s] \in State /\ v \in Supported
    BY <1>1, <1>7 DEF SetPHPVersion, ValidateNewSite, Recorded, SiteTypes
  <2>2. PICK new : new = [states[s] EXCEPT !.php = v]
    OBVIOUS
  <2>3. new.php \in Supported
    BY <2>1, <2>2 DEF State
  <2>. QED
    BY <1>3, <1>7, <2>1, <2>2, <2>3 DEF SetPHPVersion
<1>8. ASSUME NEW s \in Sites, NEW l \in Limits, SetResources(s, l)
      PROVE  UNCHANGED <<runtimes, removing>> /\ \A t \in Sites : Moves(t)
  <2>1. s \in Recorded /\ states[s] \in State
    BY <1>1, <1>8 DEF SetResources, Recorded, SiteTypes
  <2>2. PICK new : new = [states[s] EXCEPT !.limits = l]
    OBVIOUS
  <2>3. new.php = states[s].php
    BY <2>1, <2>2 DEF State
  <2>. QED
    BY <1>3, <1>8, <2>1, <2>2, <2>3 DEF SetResources
<1>9. ASSUME NEW s \in Sites, Step(s) \/ Fail(s) \/ FailCommitted(s) \/ FailUndo(s)
      PROVE  UNCHANGED <<runtimes, removing>> /\ \A t \in Sites : Moves(t)
  BY <1>9, JobMoves
<1>10. CASE Reset
  BY <1>10 DEF Reset, records, hostVars, php, Moves
<1>11. CASE ResetStep \/ ResetFail
  BY <1>11, ResetRecords
<1>12. ASSUME NEW v \in Versions, RemoveRuntime(v)
       PROVE  /\ UNCHANGED <<states, runtimes, jobs>> /\ removing' = v
              /\ \A s \in Recorded : states[s].php # v
  BY <1>12 DEF RemoveRuntime, records, hostVars, php
<1>13. CASE AptRemove \/ AptFails
  <2>1. UNCHANGED <<states, jobs>> /\ removing' = None /\ runtimes \ {removing} \subseteq runtimes'
    BY <1>13 DEF AptRemove, AptFails, records, hostVars, php
  <2>. QED
    BY <1>1, <2>1, NoneIsNoEntry DEF Moves
<1>14. CASE Crash
  <2>1. UNCHANGED <<states, runtimes>> /\ removing' = None /\ \A t \in Sites : jobs'[t] = None
    BY <1>1, <1>14 DEF Crash, hostVars, php
  <2>. QED
    BY <1>1, <2>1, NoneIsNoEntry DEF Moves
<1>15. ASSUME NEW v \in Versions, RemoveRuntime(v)
       PROVE  /\ \A t \in Sites : Moves(t)
              /\ UNCHANGED <<states, runtimes>>
              /\ \A s \in Recorded : states[s].php \in runtimes => states[s].php \in runtimes' \ {removing'}
  BY <1>12, <1>15 DEF Moves
<1>. QED
  BY <1>2, <1>4, <1>5, <1>6, <1>7, <1>8, <1>9, <1>10, <1>11, <1>13, <1>14, <1>15 DEF HostNext

LEMMA RunStep == ProvInv /\ RunInv /\ [Next]_vars => RunInv'
<1>. SUFFICES ASSUME ProvInv, RunInv, [Next]_vars
              PROVE  RunInv'
  BY ZenonT(40)
<1>1. CASE UNCHANGED vars
  BY <1>1 DEF vars, records, hostVars, php, control, RunInv, Recorded
<1>2. CASE Next
  <2>1. HostNext /\ Revive
    BY <1>2 DEF Next
  <2>2. /\ \A t \in Sites : Moves(t)
        /\ \/ runtimes \ {removing} \subseteq runtimes' \ {removing'}
           \/ /\ UNCHANGED <<states, runtimes>>
              /\ \A s \in Recorded : states[s].php \in runtimes => states[s].php \in runtimes' \ {removing'}
    BY <2>1, HostMoves
  <2>3. /\ Supported \subseteq runtimes' \ {removing'}
        /\ \A s \in Sites : jobs[s] # None => jobs[s] \in Job /\ JobForm(jobs[s])
    BY <1>2, StepHolds, InvAt DEF ProvInv
  <2>4. revived' \subseteq Sites
    BY <2>1 DEF Revive
  <2>5. ASSUME NEW s \in Sites, states'[s] # None, s \notin revived'
        PROVE  states'[s].php \in runtimes' \ {removing'}
    <3>1. CASE states[s] = None
      <4>1. states'[s].php \in runtimes \ {removing}
        BY <2>1, <2>5, <3>1 DEF Revive
      <4>. QED
        BY <2>2, <2>5, <3>1, <4>1
    <3>2. CASE states[s] # None
      <4>1. s \in Recorded /\ s \notin revived
        BY <2>1, <2>5, <3>2 DEF Revive, Recorded
      <4>2. states[s].php \in runtimes' \ {removing'}
        BY <2>2, <4>1 DEF RunInv
      <4>3. states'[s] = states[s] \/ (jobs[s] # None /\ states'[s] = jobs[s].new)
        BY <2>2, <2>5 DEF Moves
      <4>. QED
        BY <2>3, <4>1, <4>2, <4>3 DEF RunInv
    <3>. QED
      BY <3>1, <3>2
  <2>6. ASSUME NEW s \in Sites, states'[s] # None, jobs'[s] # None
        PROVE  jobs'[s].new.php \in Supported \/ states'[s].php = jobs'[s].new.php
    <3>1. CASE jobs[s] # None /\ jobs'[s].new = jobs[s].new
      <4>1. states'[s] = states[s] \/ states'[s] = jobs[s].new
        BY <2>2, <2>6 DEF Moves
      <4>. QED
        BY <2>6, <3>1, <4>1 DEF RunInv, Recorded
    <3>. QED
      BY <2>2, <2>6, <3>1 DEF Moves
  <2>. QED
    BY <2>4, <2>5, <2>6 DEF RunInv, Recorded
<1>. QED
  BY <1>1, <1>2

LEMMA RunHolds == Spec => [](ProvInv /\ RunInv)
<1>1. Init => RunInv
  <2>1. ASSUME Init
        PROVE  RunInv
    <3>1. /\ revived = {} /\ runtimes = Versions /\ removing = None
          /\ \A s \in Sites : jobs[s] = None
      BY <2>1 DEF Init
    <3>2. \A s \in Recorded : states[s].php \in Versions
      BY <2>1, InitHolds, InvAt DEF Recorded, State
    <3>. QED
      BY <3>1, <3>2, NoneIsNoEntry DEF RunInv, Recorded
  <2>. QED
    BY <2>1
<1>. QED
  BY <1>1, InitHolds, StepHolds, RunStep, PTL DEF Spec
-----------------------------------------------------------------------------
(* Type correctness of the provisioner, its records and the host.          *)
THEOREM ProvisionerTypes == Spec => []TypeOK
<1>1. ProvInv /\ RunInv => TypeOK
  BY DEF ProvInv, SystemTypes, RunInv, TypeOK
<1>. QED
  BY <1>1, RunHolds, PTL

LEMMA SettledAtRest ==
    ASSUME ProvInv, NEW s \in Settled
    PROVE  s \in Sites /\ AtRest(s)
<1>1. s \in Sites /\ jobs[s] = None /\ s \notin Resetting /\ s \notin tainted
  BY DEF Settled
<1>2. SiteInv(s) /\ s # reset.site
  BY <1>1, InvAt, NoneIsNoEntry DEF Resetting
<1>. QED
  BY <1>1, <1>2 DEF SiteInv

(* However the steps of an operation fail and its rollback runs, beside    *)
(* whatever other sites do, a settled site has on the host exactly what    *)
(* its record describes, and nothing when it has no record.                *)
THEOREM HostFollowsRecord == Spec => []HostMatchesRecord
<1>1. ASSUME ProvInv, NEW s \in Settled
      PROVE  IF states[s] = None
             THEN /\ enabled[s] = None /\ disabled[s] = None /\ roots[s] = None
                  /\ s \notin users
                  /\ \A v \in Versions : pools[v][s] = None
             ELSE LET st == states[s]
                      file == IF st.status = "suspended" THEN disabled[s] ELSE enabled[s]
                      other == IF st.status = "suspended" THEN enabled[s] ELSE disabled[s]
                  IN  /\ file # None /\ other = None
                      /\ file.domains = st.domains /\ (file.app => st.app)
                      /\ roots[s] # None /\ s \in users
                      /\ \A v \in Versions :
                           pools[v][s] = IF v = st.php THEN st.limits ELSE None
  <2>1. Matches(s, states[s])
    BY <1>1, SettledAtRest DEF AtRest
  <2>. QED
    BY <2>1 DEF Matches, Nothing, VhostsFit, Fits, File, Other, Lives, PoolsAre
<1>2. ProvInv => HostMatchesRecord
  BY <1>1 DEF HostMatchesRecord
<1>. QED
  BY <1>2, InvHolds, PTL

(* Caddy serves no settled site that is suspended: the reload of its own   *)
(* operation took it out and no other site's reload brings it back.        *)
THEOREM SuspendedIsDown == Spec => []SuspendedNotServed
<1>1. ASSUME ProvInv, NEW s \in Settled \cap Recorded, states[s].status = "suspended"
      PROVE  served[s] = None
  <2>1. s \in Settled /\ states[s] # None
    BY <1>1 DEF Recorded
  <2>2. AtRest(s)
    BY <1>1, <2>1, SettledAtRest
  <2>. QED
    BY <1>1, <2>1, <2>2 DEF AtRest, Matches, VhostsFit, Other
<1>2. ProvInv => SuspendedNotServed
  BY <1>1 DEF SuspendedNotServed
<1>. QED
  BY <1>2, InvHolds, PTL

(* Every php-fpm that runs has, of every settled site, the pool that is in *)
(* its directory.                                                          *)
THEOREM PoolsRun == Spec => []RunningPoolsMatch
<1>1. ProvInv => RunningPoolsMatch
  BY SettledAtRest DEF RunningPoolsMatch, AtRest
<1>. QED
  BY <1>1, InvHolds, PTL

(* RemoveRuntime takes no version away from a recorded site, whatever runs *)
(* beside it and however it was left, unless the site was without a record *)
(* when it was looked at and was recorded again after that.                *)
THEOREM RuntimesKept == Spec => []RuntimeInUseKept
<1>1. RunInv => RuntimeInUseKept
  BY DEF RuntimeInUseKept, RunInv
<1>. QED
  BY <1>1, RunHolds, PTL

(* No step but those of Reset on its own site drops a record whose         *)
(* directory is not in .trash, also when the removal of the record reports *)
(* an error after it took effect.                                          *)
THEOREM NothingForgotten == Spec => ForgottenIsArchived
<1>. DEFINE A == \A s \in Sites : states[s] # None /\ states'[s] = None =>
                                     trash'[s] # None \/ reset.site = s
<1>1. ProvInv /\ [Next]_vars => [A]_vars
  BY ForgetsArchived
<1>2. []ProvInv /\ [][Next]_vars => [][A]_vars
  BY <1>1, PTL
<1>. QED
  BY <1>2, InvHolds, PTL DEF Spec, ForgottenIsArchived
=============================================================================
