------------------------------- MODULE Backup --------------------------------
(***************************************************************************)
(* internal/backup: the archives of one site in the object store.          *)
(*                                                                         *)
(* A site is made of parts, the files of its document root and its         *)
(* databases.  Create and Restore hold the site's fence in the executor,   *)
(* as do the database commands, so one of them runs at a time, also after  *)
(* its timeout; Verify does not.  The site's visitors write all the while. *)
(*                                                                         *)
(* Time counts in ticks: two archives named in the same tick have one      *)
(* name.  The bucket is external; a request to it may be applied though    *)
(* its answer is an error.                                                 *)
(*                                                                         *)
(* Parts are numbered in the order of an archive's entries: the files as   *)
(* the walk finds them, then the databases.  An archive is the content of  *)
(* each part it has; the manifest before them only counts as an entry.     *)
(* The content of a database is that of its tables.                        *)
(***************************************************************************)
EXTENDS Integers, FiniteSets

CONSTANTS
    Files,          \* the paths of the document root
    Databases,      \* the names of the site's databases
    Tables,         \* the names of their tables
    None,           \* no content, no command
    Link,           \* a symbolic link in place of a file
    Foreign,        \* the content of what a link leads to
    Torn,           \* the beginning of a content that was being replaced
    KeepArchives,   \* keepArchives
    Retentions,     \* values of retentionDays that plans send
    MaxEntries,     \* maxArchiveEntries, which stands for maxArchiveBytes too
    MaxClock,       \* bound: ticks of the clock
    MaxWrites,      \* bound: contents given to parts from outside the agent
    MaxJobs,        \* bound: commands started
    MaxFaults       \* bound: failed steps, crashes and clock adjustments

Parts == Files \cup Databases

FileContents == Nat \cup {None, Link, Foreign, Torn}
Schemas == [Tables -> Nat \cup {None, Torn}]
Contents == FileContents \cup Schemas

ASSUME BackupAssumption ==
    /\ Files \subseteq Nat /\ Databases \subseteq Nat
    /\ \A f \in Files, d \in Databases : f < d
    /\ IsFiniteSet(Parts)
    /\ KeepArchives \in Nat \ {0}
    /\ Retentions \subseteq Nat
    /\ MaxEntries \in Nat \ {0}
    /\ {MaxClock, MaxWrites, MaxJobs, MaxFaults} \subseteq Nat
    /\ {None, Link, Foreign, Torn} \cap Nat = {}
    /\ None # Link /\ None # Foreign /\ None # Torn
    /\ Link # Foreign /\ Link # Torn /\ Foreign # Torn
    /\ None \notin Schemas /\ Link \notin Schemas

VARIABLES
    live,           \* the content of each part; None where there is none
    recorded,       \* State.Databases in sites.json
    bucket,         \* the archives in the object store, by the tick in their name
    clock,          \* the host's clock
    job,            \* the fenced backup command in progress, or None
    verifying,      \* the name Verify is about to download, or None
    verified,       \* history: the last archive Verify found recoverable
    counts          \* how much of each bound is used

backupVars == <<live, recorded, bucket, clock, job, verifying, verified, counts>>

Archives == UNION {[parts -> Contents] : parts \in SUBSET Parts}
Empty == [p \in {} |-> None]
NoTables == [t \in Tables |-> None]

\* What Create and Restore keep in local variables: todo is the parts still to
\* read or to replace, opened what was found behind the name of a file,
\* entries what applyArchive has counted, tables those of a dump still to
\* replay.  before and touched are history: the site when the command began,
\* and the contents that others gave each part since.
Jobs == [op: {"create", "restore"},
         step: {"write", "open", "copy", "put", "list", "prune", "download", "apply", "done"},
         name: Int, days: Nat, todo: SUBSET Parts, archive: Archives, doomed: SUBSET Int,
         opened: Contents, entries: Nat, tables: SUBSET Tables,
         before: [Parts -> Contents], touched: [Parts -> SUBSET Contents]]

Stored == DOMAIN bucket

BackupTypeOK ==
    /\ live \in [Parts -> Contents]
    /\ recorded \subseteq Databases
    /\ Stored \subseteq Int /\ \A name \in Stored : bucket[name] \in Archives
    /\ clock \in Int
    /\ job \in Jobs \cup {None}
    /\ verifying \in Int \cup {None}
    /\ verified \in Archives
    /\ counts \in [writes: Nat, jobs: Nat, faults: Nat]

\* A site that site.create has just made, some of its databases created.
BackupInit ==
    /\ recorded \in SUBSET Databases
    /\ live = [p \in Parts |-> IF p \in Files THEN 0
                                ELSE IF p \in recorded THEN NoTables ELSE None]
    /\ bucket = [name \in {} |-> Empty]
    /\ clock = 0
    /\ job = None
    /\ verifying = None
    /\ verified = Empty
    /\ counts = [writes |-> 0, jobs |-> 0, faults |-> 0]
-----------------------------------------------------------------------------
Running(op, step) == job # None /\ job.op = op /\ job.step = step

GoTo(step) == job' = [job EXCEPT !.step = step]

\* The command returns; the executor then lifts the fence.
Done == GoTo("done")

Fault == counts.faults < MaxFaults /\ counts' = [counts EXCEPT !.faults = @ + 1]

NewJob(op, step, name) ==
    [op |-> op, step |-> step, name |-> name, days |-> 0, todo |-> {},
     archive |-> Empty, doomed |-> {}, opened |-> None, entries |-> 0, tables |-> {},
     before |-> live, touched |-> [p \in Parts |-> {}]]

Begin(new) ==
    /\ job = None
    /\ counts.jobs < MaxJobs
    /\ counts' = [counts EXCEPT !.jobs = @ + 1]
    /\ job' = new

\* The part that comes next in the order of the entries.
NextPart(part) == part \in job.todo /\ \A q \in job.todo : part <= q
-----------------------------------------------------------------------------
(* Create.                                                                 *)

\* The name is the time before anything is read.  The walk takes the names of
\* the directory when it enters it and the databases from the record.
Create(days) ==
    /\ Begin([NewJob("create", "write", clock) EXCEPT
                  !.days = days,
                  !.todo = {f \in Files : live[f] # None} \cup recorded])
    /\ UNCHANGED <<live, recorded, bucket, clock, verifying, verified>>

WithPart(archive, part) ==
    [p \in DOMAIN archive \cup {part} |-> IF p = part THEN live[part] ELSE archive[p]]

\* The next entry of writeArchive.  The walk looks at a file and its size
\* becomes the entry's ...
CheckFile ==
    /\ Running("create", "write")
    /\ \E part \in job.todo \cap Files :
           /\ NextPart(part)
           /\ live[part] \notin {None, Link}
           /\ job' = [job EXCEPT !.step = "open", !.archive = WithPart(@, part)]
    /\ UNCHANGED <<live, recorded, bucket, clock, verifying, verified, counts>>

\* ... and what has the file's name after that is opened, through a link too.
OpenFile ==
    /\ Running("create", "open")
    /\ \E part \in job.todo \cap Files :
           /\ NextPart(part)
           /\ live[part] # None
           /\ job' = [job EXCEPT !.step = "copy",
                                 !.opened = IF live[part] = Link THEN Foreign ELSE live[part]]
    /\ UNCHANGED <<live, recorded, bucket, clock, verifying, verified, counts>>

\* A file that was written to since it was opened is copied as it was, as it
\* is, or in part as each; one that was replaced or removed as it was.
Copies(part) ==
    IF job.opened = Foreign \/ live[part] = job.opened THEN {job.opened}
    ELSE {job.opened, Torn} \cup ({live[part]} \ {None, Link})

CopyFile ==
    /\ Running("create", "copy")
    /\ \E part \in job.todo \cap Files :
           /\ NextPart(part)
           /\ \E content \in Copies(part) :
                  job' = [job EXCEPT !.step = "write", !.todo = @ \ {part},
                                     !.archive = [@ EXCEPT ![part] = content]]
    /\ UNCHANGED <<live, recorded, bucket, clock, verifying, verified, counts>>

\* A dump is one transaction, taken into a file before it becomes an entry.
DumpDatabase ==
    /\ Running("create", "write")
    /\ \E part \in job.todo \cap Databases :
           /\ NextPart(part)
           /\ live[part] # None
           /\ job' = [job EXCEPT !.todo = @ \ {part}, !.archive = WithPart(@, part)]
    /\ UNCHANGED <<live, recorded, bucket, clock, verifying, verified, counts>>

Unreadable ==
    /\ Running("create", "write")
    /\ \E part \in job.todo : NextPart(part) /\ live[part] \in {None, Link}

\* The file is gone, or the link leads to nothing that can be read.
OpenFails ==
    /\ Running("create", "open")
    /\ \E part \in job.todo : NextPart(part) /\ live[part] \in {None, Link}

\* The tar writer wants as many bytes as the header said.
SizeChanged ==
    /\ Running("create", "copy")
    /\ \E part \in job.todo : NextPart(part) /\ Copies(part) # {job.archive[part]}

\* Mutant of WriteRefused: what cannot be read is left out of the archive.
WriteSkips ==
    /\ Unreadable
    /\ \E part \in job.todo : NextPart(part) /\ job' = [job EXCEPT !.todo = @ \ {part}]
    /\ UNCHANGED <<live, recorded, bucket, clock, verifying, verified, counts>>

\* A file that is gone or a link, a database that does not exist, and a file of
\* another size than it was measured with end the command.
WriteRefused ==
    /\ Unreadable \/ OpenFails \/ SizeChanged
    /\ job' = None
    /\ UNCHANGED <<live, recorded, bucket, clock, verifying, verified, counts>>

ArchiveWritten ==
    /\ Running("create", "write")
    /\ job.todo = {}
    /\ GoTo("put")
    /\ UNCHANGED <<live, recorded, bucket, clock, verifying, verified, counts>>

\* The bucket replaces an object as a whole.
Uploaded == [name \in Stored \cup {job.name} |->
                 IF name = job.name THEN job.archive ELSE bucket[name]]

Put ==
    /\ Running("create", "put")
    /\ bucket' = Uploaded
    /\ GoTo("list")
    /\ UNCHANGED <<live, recorded, clock, verifying, verified, counts>>

\* The upload answers with an error, and was made or not: Create returns it.
PutFails ==
    /\ Running("create", "put")
    /\ Fault
    /\ bucket' \in {bucket, Uploaded}
    /\ job' = None
    /\ UNCHANGED <<live, recorded, clock, verifying, verified>>

Newer(name) == {m \in Stored : m > name}

\* Mutant of Prunable: a plan's window takes the place of the floor.
PrunableWindowOnly(days, now) ==
    {name \in Stored : IF days > 0 THEN name <= now - days
                       ELSE Cardinality(Newer(name)) >= KeepArchives}

\* archives[keepArchives:] without the ones inside the retention window.
Prunable(days, now) ==
    {name \in Stored : /\ Cardinality(Newer(name)) >= KeepArchives
                       /\ ~(days > 0 /\ name > now - days)}

\* prune: it returns nothing, so a list that fails ends it in silence.
List ==
    /\ Running("create", "list")
    /\ job' = [job EXCEPT !.step = "prune", !.doomed = Prunable(job.days, job.name)]
    /\ UNCHANGED <<live, recorded, bucket, clock, verifying, verified, counts>>

ListFails ==
    /\ Running("create", "list")
    /\ Fault
    /\ Done
    /\ UNCHANGED <<live, recorded, bucket, clock, verifying, verified>>

\* The next of the archives to delete, the newest first.
NextDoomed(name) == name \in job.doomed /\ \A m \in job.doomed : m <= name

Without(name) == [m \in Stored \ {name} |-> bucket[m]]

Delete ==
    /\ Running("create", "prune")
    /\ \E name \in job.doomed :
           /\ NextDoomed(name)
           /\ bucket' = Without(name)
           /\ job' = [job EXCEPT !.doomed = @ \ {name}]
    /\ UNCHANGED <<live, recorded, clock, verifying, verified, counts>>

\* An error of one deletion is ignored; it may have been made.
DeleteFails ==
    /\ Running("create", "prune")
    /\ Fault
    /\ \E name \in job.doomed :
           /\ NextDoomed(name)
           /\ bucket' \in {bucket, Without(name)}
           /\ job' = [job EXCEPT !.doomed = @ \ {name}]
    /\ UNCHANGED <<live, recorded, clock, verifying, verified>>

Pruned ==
    /\ Running("create", "prune")
    /\ job.doomed = {}
    /\ Done
    /\ UNCHANGED <<live, recorded, bucket, clock, verifying, verified, counts>>
-----------------------------------------------------------------------------
(* Restore.                                                                *)

\* Control sends a name of its own list, which may be older than a prune.
Restore(name) ==
    /\ Begin(NewJob("restore", "download", name))
    /\ UNCHANGED <<live, recorded, bucket, clock, verifying, verified>>

Download ==
    /\ Running("restore", "download")
    /\ job.name \in Stored
    /\ job' = [job EXCEPT !.step = "apply", !.archive = bucket[job.name],
                          !.todo = DOMAIN bucket[job.name], !.entries = 1]
    /\ UNCHANGED <<live, recorded, bucket, clock, verifying, verified, counts>>

\* The archive is not there, or is larger than the download limit.
DownloadFails ==
    /\ Running("restore", "download")
    /\ IF job.name \in Stored THEN Fault ELSE UNCHANGED counts
    /\ job' = None
    /\ UNCHANGED <<live, recorded, bucket, clock, verifying, verified>>

\* The next entry of applyArchive, counted and within the limits.  A file's name
\* is looked at before it is opened.
CheckEntry ==
    /\ Running("restore", "apply")
    /\ job.entries < MaxEntries
    /\ \E part \in job.todo \cap Files : NextPart(part) /\ live[part] # Link
    /\ job' = [job EXCEPT !.step = "open", !.entries = @ + 1]
    /\ UNCHANGED <<live, recorded, bucket, clock, verifying, verified, counts>>

\* The file is made or truncated; behind a link that came since, another one.
OpenTarget ==
    /\ Running("restore", "open")
    /\ \E part \in job.todo \cap Files :
           /\ NextPart(part)
           /\ live' = [live EXCEPT ![part] = IF @ = Link THEN Link ELSE Torn]
           /\ job' = [job EXCEPT !.step = "copy",
                                 !.opened = IF live[part] = Link THEN Foreign ELSE Torn]
    /\ UNCHANGED <<recorded, bucket, clock, verifying, verified, counts>>

\* The rest of the entry.  A content that somebody else gave the file since is
\* overwritten, as a whole or in part, or took the place of the file.
Written(part) ==
    IF job.opened = Foreign \/ live[part] \in {None, Link} THEN {live[part]}
    ELSE IF live[part] = Torn THEN {job.archive[part]}
    ELSE {job.archive[part], live[part], Torn}

CopyEntry ==
    /\ Running("restore", "copy")
    /\ \E part \in job.todo \cap Files :
           /\ NextPart(part)
           /\ \E content \in Written(part) : live' = [live EXCEPT ![part] = content]
           /\ job' = [job EXCEPT !.step = "apply", !.todo = @ \ {part}]
    /\ UNCHANGED <<recorded, bucket, clock, verifying, verified, counts>>

\* A dump is replayed over the database, which it makes if there is none; its
\* tables are dropped and made one after the other, and tables it does not have
\* stay.
ReplayBegins ==
    /\ Running("restore", "apply")
    /\ job.entries < MaxEntries
    /\ \E part \in job.todo \cap Databases :
           /\ NextPart(part)
           /\ live' = [live EXCEPT ![part] = IF @ = None THEN NoTables ELSE @]
           /\ job' = [job EXCEPT !.step = "copy", !.entries = @ + 1,
                                 !.tables = {t \in Tables : job.archive[part][t] # None}]
    /\ UNCHANGED <<recorded, bucket, clock, verifying, verified, counts>>

ReplayTable ==
    /\ Running("restore", "copy")
    /\ \E part \in job.todo \cap Databases, t \in job.tables :
           /\ NextPart(part)
           /\ live' = [live EXCEPT ![part] = [@ EXCEPT ![t] = job.archive[part][t]]]
           /\ job' = [job EXCEPT !.tables = @ \ {t}]
    /\ UNCHANGED <<recorded, bucket, clock, verifying, verified, counts>>

Replayed ==
    /\ Running("restore", "copy")
    /\ job.tables = {}
    /\ \E part \in job.todo \cap Databases :
           NextPart(part) /\ job' = [job EXCEPT !.step = "apply", !.todo = @ \ {part}]
    /\ UNCHANGED <<live, recorded, bucket, clock, verifying, verified, counts>>

BeyondLimits == Running("restore", "apply") /\ job.todo # {} /\ job.entries >= MaxEntries

LinkInTheWay ==
    /\ Running("restore", "apply")
    /\ \E part \in job.todo : NextPart(part) /\ live[part] = Link

\* Mutant of OpenRefused: an archive beyond the limits ends where they do.
OpenStopsEarly ==
    /\ BeyondLimits
    /\ Done
    /\ UNCHANGED <<live, recorded, bucket, clock, verifying, verified, counts>>

\* Either ends the command, with the entries before it applied.
OpenRefused ==
    /\ BeyondLimits \/ LinkInTheWay
    /\ job' = None
    /\ UNCHANGED <<live, recorded, bucket, clock, verifying, verified, counts>>

\* A dump that ends early may leave the table it was at without its rows.
HalfReplayed ==
    IF Running("restore", "copy")
    THEN {[live EXCEPT ![d] = [@ EXCEPT ![t] = Torn]] :
              d \in {part \in job.todo \cap Databases : NextPart(part)}, t \in job.tables}
    ELSE {}

\* Reading the archive, opening or writing a file fails, or mariadb does.
ApplyFails ==
    /\ \E step \in {"apply", "open", "copy"} : Running("restore", step)
    /\ Fault
    /\ live' \in {live} \cup HalfReplayed
    /\ job' = None
    /\ UNCHANGED <<recorded, bucket, clock, verifying, verified>>

Restored ==
    /\ Running("restore", "apply")
    /\ job.todo = {}
    /\ Done
    /\ UNCHANGED <<live, recorded, bucket, clock, verifying, verified, counts>>

Return ==
    /\ job # None /\ job.step = "done"
    /\ job' = None
    /\ UNCHANGED <<live, recorded, bucket, clock, verifying, verified, counts>>
-----------------------------------------------------------------------------
(* Verify.                                                                 *)

VerifyList ==
    /\ verifying = None
    /\ \E name \in Stored : Newer(name) = {} /\ verifying' = name
    /\ UNCHANGED <<live, recorded, bucket, clock, job, verified, counts>>

\* Mutant of Recoverable: the manifest is not counted.
RecoverableOffByOne(archive) ==
    DOMAIN archive # {} /\ Cardinality(DOMAIN archive) <= MaxEntries

\* inspectArchive, which counts the entries too and wants a file or a dump
\* beside the manifest.
Recoverable(archive) ==
    DOMAIN archive # {} /\ Cardinality(DOMAIN archive) + 1 <= MaxEntries

Inspect ==
    /\ verifying \in Stored
    /\ verified' = IF Recoverable(bucket[verifying]) THEN bucket[verifying] ELSE verified
    /\ verifying' = None
    /\ UNCHANGED <<live, recorded, bucket, clock, job, counts>>

\* The archive was pruned since, or the download fails.
VerifyFails ==
    /\ verifying # None
    /\ IF verifying \in Stored THEN Fault ELSE UNCHANGED counts
    /\ verifying' = None
    /\ UNCHANGED <<live, recorded, bucket, clock, job, verified>>
-----------------------------------------------------------------------------
(* The rest of the host.                                                   *)

Touched(part, content) ==
    IF job = None THEN job ELSE [job EXCEPT !.touched[part] = @ \cup {content}]

\* The site's own code or an SFTP user gives a file a new content, removes it or
\* puts a link in its place, or writes or drops a table.
Change(part, content) ==
    /\ counts.writes < MaxWrites
    /\ live' = [live EXCEPT ![part] = content]
    /\ job' = Touched(part, content)
    /\ counts' = [counts EXCEPT !.writes = @ + 1]

SiteWrites ==
    /\ \/ \E f \in Files, content \in {counts.writes + 1, None, Link} : Change(f, content)
       \/ \E d \in Databases, t \in Tables, content \in {counts.writes + 1, None} :
              live[d] # None /\ Change(d, [live[d] EXCEPT ![t] = content])
    /\ UNCHANGED <<recorded, bucket, clock, verifying, verified>>

\* database.create and database.delete, which take the site's fence.
CreateDatabase ==
    /\ job = None
    /\ \E d \in Databases \ recorded :
           /\ Change(d, IF live[d] = None THEN NoTables ELSE live[d])
           /\ recorded' = recorded \cup {d}
    /\ UNCHANGED <<bucket, clock, verifying, verified>>

\* The save that follows the DROP may fail.
DeleteDatabase ==
    /\ job = None
    /\ \E d \in recorded :
           /\ Change(d, None)
           /\ recorded' \in {recorded, recorded \ {d}}
    /\ UNCHANGED <<bucket, clock, verifying, verified>>

\* Create reads the clock once, at its head, and prune takes that time too, so
\* a clock that moves during a command is one that moves after it.
Tick ==
    /\ job = None
    /\ clock < MaxClock
    /\ clock' = clock + 1
    /\ UNCHANGED <<live, recorded, bucket, job, verifying, verified, counts>>

ClockSetBack ==
    /\ job = None
    /\ Fault
    /\ clock' = clock - 1
    /\ UNCHANGED <<live, recorded, bucket, job, verifying, verified>>

\* The process dies between two steps, with what it was doing.
Crash ==
    /\ job # None \/ verifying # None
    /\ Fault
    /\ live' \in {live} \cup HalfReplayed
    /\ job' = None /\ verifying' = None
    /\ UNCHANGED <<recorded, bucket, clock, verified>>
-----------------------------------------------------------------------------
CreateNext ==
    \/ \E days \in Retentions : Create(days)
    \/ CheckFile \/ OpenFile \/ CopyFile \/ DumpDatabase \/ WriteRefused \/ ArchiveWritten
    \/ Put \/ PutFails
    \/ List \/ ListFails \/ Delete \/ DeleteFails \/ Pruned

RestoreNext ==
    \/ \E name \in 0 .. MaxClock : Restore(name)
    \/ Download \/ DownloadFails
    \/ CheckEntry \/ OpenTarget \/ CopyEntry
    \/ ReplayBegins \/ ReplayTable \/ Replayed
    \/ OpenRefused \/ ApplyFails \/ Restored

VerifyNext == VerifyList \/ Inspect \/ VerifyFails

HostNext ==
    \/ SiteWrites \/ CreateDatabase \/ DeleteDatabase
    \/ Tick \/ ClockSetBack \/ Crash

BackupNext == CreateNext \/ RestoreNext \/ Return \/ VerifyNext \/ HostNext

BackupSpec == BackupInit /\ [][BackupNext]_backupVars
-----------------------------------------------------------------------------
ContentsSeen(p) == {job.before[p]} \cup job.touched[p]

\* An entry is what the part was at some moment of the command; only a file
\* that somebody wrote to meanwhile may be a mixture, and only one that somebody
\* put a link in place of meanwhile may be what the link led to.
Whole(archive, p) ==
    \/ archive[p] \in ContentsSeen(p)
    \/ p \in Files /\ archive[p] = Torn /\ job.touched[p] # {}
    \/ p \in Files /\ archive[p] = Foreign /\ Link \in job.touched[p]

\* A create that returns an archive has stored it under the name it returns,
\* unless prune took it for an old one because the clock was set back: each
\* entry has a content that the part had while the command ran, or one that
\* comes of a write or a link put there meanwhile, and no file that was there
\* all the time and no recorded database is missing (Create, writeArchive).
BackupComplete ==
    Running("create", "done") =>
        \/ Cardinality(Newer(job.name)) >= KeepArchives /\ job.days = 0
        \/ /\ job.name \in Stored
           /\ LET archive == bucket[job.name]
              IN  /\ \A p \in DOMAIN archive : Whole(archive, p)
                  /\ \A f \in Files \ DOMAIN archive : None \in ContentsSeen(f)
                  /\ recorded \subseteq DOMAIN archive

\* A database after its dump was replayed: the tables of the dump as they were,
\* and the tables that the dump does not have.
Merged(dump, tables) ==
    [t \in Tables |-> IF dump[t] # None THEN dump[t]
                      ELSE IF tables = None THEN None ELSE tables[t]]

\* A restore that returns without an error has given every file of the archive
\* the archived content and every database of it the archived tables, kept the
\* tables that were made since, and left every other part alone; where the site
\* wrote to a part meanwhile, nothing is said of that part (applyArchive).
RestoreExact ==
    Running("restore", "done") =>
        \A p \in Parts : job.touched[p] = {} =>
            live[p] = CASE p \notin DOMAIN job.archive -> job.before[p]
                        [] p \in DOMAIN job.archive /\ p \in Files -> job.archive[p]
                        [] p \in DOMAIN job.archive /\ p \in Databases ->
                              Merged(job.archive[p], job.before[p])

\* A restore of an archive that Verify found recoverable is never stopped by
\* the limits on archives with the site half replaced: what applyArchive counts
\* entry by entry stays within what inspectArchive allows for the whole.
VerifiedRestorable == BeyondLimits => job.archive # verified

\* An archive leaves the bucket only while keepArchives newer ones stay, and
\* never inside the retention window of the create that deletes it (the
\* comments on keepArchives and prune).
RetentionKept ==
    [][\A name \in Stored \ DOMAIN bucket' :
           /\ Cardinality({m \in DOMAIN bucket' : m > name}) >= KeepArchives
           /\ job.days > 0 => name + job.days <= job.name]_backupVars
=============================================================================
