----------------------------- MODULE BackupProofs ----------------------------
(***************************************************************************)
(* Backups, for every site, floor, retention window, limit and number of   *)
(* faults.                                                                 *)
(***************************************************************************)
EXTENDS Backup, FiniteSetTheorems, TLAPS

Floor(name) == Cardinality(Newer(name)) >= KeepArchives

BucketInv == BackupTypeOK /\ IsFiniteSet(Stored)

Dumps(archive) == \A d \in Databases \cap DOMAIN archive : archive[d] \in Schemas

\* A database has tables or does not exist, and an archive has no database
\* that did not exist.
SchemaInv ==
    /\ \A d \in Databases : live[d] \in Schemas \cup {None}
    /\ \A name \in Stored : Dumps(bucket[name])
    /\ job # None => /\ Dumps(job.archive)
                     /\ \A d \in Databases : job.before[d] \in Schemas \cup {None}

CreateSteps == {"write", "open", "copy", "put", "list", "prune", "done"}
RestoreSteps == {"download", "apply", "open", "copy", "done"}

Creating == job # None /\ job.op = "create"
Restoring == job # None /\ job.op = "restore"

\* A file between the walk's look at it and the end of its copy: a link under
\* its name came since, and what was opened is what it was, or what that link
\* led to, and still is unless somebody wrote to it.
ReadingInv(f) ==
    /\ f \in DOMAIN job.archive
    /\ job.step = "open" /\ live[f] = Link => Link \in job.touched[f]
    /\ job.step = "copy" =>
           /\ job.opened \in ContentsSeen(f) \/ (job.opened = Foreign /\ Link \in job.touched[f])
           /\ job.opened = Foreign \/ live[f] = job.opened \/ job.touched[f] # {}

\* What a create has read was there while it ran; what it has still to read is
\* in todo.
ReadInv ==
    Creating =>
        /\ job.step \in CreateSteps
        /\ \A p \in Parts : live[p] \in ContentsSeen(p)
        /\ \A p \in DOMAIN job.archive : Whole(job.archive, p)
        /\ \A f \in Files \ (DOMAIN job.archive \cup job.todo) : None \in ContentsSeen(f)
        /\ recorded \subseteq DOMAIN job.archive \cup job.todo
        /\ job.step \notin {"write", "open", "copy"} => job.todo = {}
        /\ job.step \in {"open", "copy"} => \A f \in Files : NextPart(f) => ReadingInv(f)

\* Once uploaded the archive stays, unless prune takes it for an old one.
UploadInv ==
    Creating /\ job.step \in {"list", "prune", "done"} =>
        \/ Floor(job.name) /\ job.days = 0
        \/ job.name \in Stored /\ bucket[job.name] = job.archive

\* What prune is about to delete may go, also after the deletions before it.
PruneInv ==
    Creating /\ job.step = "prune" =>
        \A name \in job.doomed : Floor(name) /\ (job.days > 0 => name + job.days <= job.name)

\* A database whose dump was replayed but for some tables.
Rebuilt(d, tables) ==
    [t \in Tables |-> IF job.archive[d][t] # None /\ t \notin tables THEN job.archive[d][t]
                      ELSE IF job.before[d] = None THEN None ELSE job.before[d][t]]

\* A file that nobody else wrote to: behind the reader it has the archived
\* content, and while it is replaced it is no link and then torn.
FileInv(f) ==
    /\ f \in DOMAIN job.archive \ job.todo => live[f] = job.archive[f]
    /\ job.step = "open" /\ NextPart(f) => live[f] # Link
    /\ job.step = "copy" /\ NextPart(f) => live[f] = Torn /\ job.opened = Torn

\* A database that nobody else wrote to: behind the reader it is the dump over
\* what it was, before it what it was, and in between some tables are missing.
DatabaseInv(d) ==
    /\ d \in DOMAIN job.archive \ job.todo => live[d] = Rebuilt(d, {})
    /\ d \in job.todo =>
           live[d] = IF job.step = "copy" /\ NextPart(d) THEN Rebuilt(d, job.tables)
                     ELSE job.before[d]

\* The entries that applyArchive has counted: the manifest, the parts behind
\* it, and the one it is at.
Counted == 1 + Cardinality(DOMAIN job.archive \ job.todo)
             + (IF job.step \in {"open", "copy"} THEN 1 ELSE 0)

\* A restore.  A part that somebody else wrote to may have any content, but a
\* database whose dump is being replayed exists.
RestoreInv ==
    Restoring =>
        /\ job.step \in RestoreSteps
        /\ job.todo \subseteq DOMAIN job.archive
        /\ job.step = "done" => job.todo = {}
        /\ job.step = "download" => DOMAIN job.archive = {}
        /\ job.step # "download" => job.entries = Counted
        /\ job.step = "copy" => \A d \in Databases : NextPart(d) =>
               /\ live[d] \in Schemas
               /\ \A t \in job.tables : job.archive[d][t] # None
        /\ \A p \in Parts : job.touched[p] = {} =>
               /\ p \notin DOMAIN job.archive => live[p] = job.before[p]
               /\ p \in Files => FileInv(p)
               /\ p \in Databases => DatabaseInv(p)

VerifyInv == DOMAIN verified = {} \/ Recoverable(verified)

BackupInv ==
    BucketInv /\ SchemaInv /\ ReadInv /\ UploadInv /\ PruneInv /\ RestoreInv /\ VerifyInv
-----------------------------------------------------------------------------
LEMMA EmptyIsArchive == Empty \in Archives /\ DOMAIN Empty = {}
<1>1. Empty \in [{} -> Contents]
  BY DEF Empty
<1> QED
  BY <1>1 DEF Archives, Empty

LEMMA ArchiveDomain ==
  ASSUME NEW archive \in Archives
  PROVE  /\ DOMAIN archive \subseteq Parts
         /\ \A p \in DOMAIN archive : archive[p] \in Contents
         /\ archive \in [DOMAIN archive -> Contents]
<1>1. PICK parts \in SUBSET Parts : archive \in [parts -> Contents]
  BY DEF Archives
<1> QED
  BY <1>1

LEMMA ArchiveFinite ==
  ASSUME NEW archive \in Archives
  PROVE  IsFiniteSet(DOMAIN archive)
<1> QED
  BY ArchiveDomain, BackupAssumption, FS_Subset

LEMMA OneKind == Files \cap Databases = {} /\ Parts \subseteq Nat
<1> QED
  BY BackupAssumption DEF Parts

LEMMA OneNext ==
  ASSUME job \in Jobs, NEW p, NEW q, NextPart(p), NextPart(q)
  PROVE  p = q
<1>1. p <= q /\ q <= p /\ p \in Parts /\ q \in Parts
  BY DEF NextPart, Jobs
<1>2. p \in Nat /\ q \in Nat
  BY <1>1, OneKind
<1> QED
  BY <1>1, <1>2

LEMMA ArchiveExtends ==
  ASSUME NEW archive \in Archives, NEW part \in Parts, live[part] \in Contents
  PROVE  WithPart(archive, part) \in Archives
<1>1. DOMAIN archive \cup {part} \in SUBSET Parts
  BY ArchiveDomain
<1>2. WithPart(archive, part) \in [DOMAIN archive \cup {part} -> Contents]
  BY ArchiveDomain DEF WithPart
<1> QED
  BY <1>1, <1>2 DEF Archives

\* Deleting an archive above the floor takes the floor away from no name: the
\* archives newer than the deleted one are newer than all that it was newer
\* than.
LEMMA FloorStays ==
  ASSUME BucketInv, NEW name \in Int, NEW old \in Int, Floor(name), Floor(old)
  PROVE  Cardinality({m \in Stored \ {old} : m > name}) >= KeepArchives
<1> DEFINE left == {m \in Stored \ {old} : m > name}
<1>0. Stored \subseteq Int /\ IsFiniteSet(Stored)
  BY DEF BucketInv, BackupTypeOK
<1>1. IsFiniteSet(left)
  BY <1>0, FS_Subset
<1>2. CASE old > name
  <2>1. Newer(old) \subseteq left
    <3> SUFFICES ASSUME NEW m \in Newer(old) PROVE m \in left
      OBVIOUS
    <3>1. m \in Int /\ m \in Stored /\ m > old
      BY <1>0 DEF Newer
    <3>2. m > name /\ m # old
      BY <1>2, <3>1
    <3> QED
      BY <3>1, <3>2
  <2>2. Cardinality(Newer(old)) <= Cardinality(left) /\ IsFiniteSet(Newer(old))
    BY <1>1, <2>1, FS_Subset
  <2>3. Cardinality(left) \in Nat /\ Cardinality(Newer(old)) \in Nat
    BY <1>1, <2>2, FS_CardinalityType
  <2> QED
    BY <2>2, <2>3, BackupAssumption DEF Floor
<1>3. CASE ~(old > name)
  <2>1. left = Newer(name)
    BY <1>0, <1>3 DEF Newer
  <2> QED
    BY <2>1 DEF Floor
<1> QED
  BY <1>2, <1>3
-----------------------------------------------------------------------------
(* Types, and that the bucket is finite.                                   *)

LEMMA UploadedIsBucket ==
  ASSUME BucketInv, job \in Jobs
  PROVE  /\ DOMAIN Uploaded \subseteq Int /\ IsFiniteSet(DOMAIN Uploaded)
         /\ \A name \in DOMAIN Uploaded : Uploaded[name] \in Archives
<1>1. DOMAIN Uploaded = Stored \cup {job.name}
  BY DEF Uploaded
<1>2. IsFiniteSet(DOMAIN Uploaded)
  BY <1>1, FS_AddElement DEF BucketInv
<1> QED
  BY <1>1, <1>2 DEF Uploaded, BucketInv, BackupTypeOK, Jobs

LEMMA WithoutIsBucket ==
  ASSUME BucketInv, NEW name
  PROVE  /\ DOMAIN Without(name) = Stored \ {name}
         /\ IsFiniteSet(DOMAIN Without(name))
         /\ \A m \in DOMAIN Without(name) : Without(name)[m] \in Archives
<1>1. DOMAIN Without(name) = Stored \ {name}
  BY DEF Without
<1>2. IsFiniteSet(DOMAIN Without(name))
  BY <1>1, FS_RemoveElement DEF BucketInv
<1> QED
  BY <1>1, <1>2 DEF Without, BucketInv, BackupTypeOK

LEMMA CreateTypes == BucketInv /\ CreateNext => BucketInv'
<1> SUFFICES ASSUME BucketInv, CreateNext PROVE BucketInv'
  OBVIOUS
<1> USE DEF BucketInv, BackupTypeOK, Stored
<1>1. ASSUME NEW days \in Retentions, Create(days) PROVE BucketInv'
  <2>1. days \in Nat
    BY BackupAssumption
  <2>2. {f \in Files : live[f] # None} \cup recorded \in SUBSET Parts
    BY DEF Parts
  <2>3. None \in Contents
    BY DEF Contents, FileContents
  <2>4. job' \in Jobs
    BY <1>1, <2>1, <2>2, <2>3, EmptyIsArchive DEF Create, Begin, NewJob, Jobs
  <2> QED
    BY <1>1, <2>4 DEF Create, Begin
<1>2. CASE CheckFile \/ DumpDatabase
  <2>1. job \in Jobs
    BY <1>2 DEF CheckFile, DumpDatabase, Running
  <2>2. PICK part \in job.todo :
            \/ job' = [job EXCEPT !.step = "open", !.archive = WithPart(@, part)]
            \/ job' = [job EXCEPT !.todo = @ \ {part}, !.archive = WithPart(@, part)]
    BY <1>2 DEF CheckFile, DumpDatabase
  <2>3. part \in Parts /\ live[part] \in Contents /\ job.archive \in Archives
    BY <2>1 DEF Jobs
  <2>4. WithPart(job.archive, part) \in Archives
    BY <2>3, ArchiveExtends
  <2>5. ASSUME job' = [job EXCEPT !.step = "open", !.archive = WithPart(@, part)]
        PROVE  job' \in Jobs
    BY <2>1, <2>4, <2>5 DEF Jobs
  <2>6. ASSUME job' = [job EXCEPT !.todo = @ \ {part}, !.archive = WithPart(@, part)]
        PROVE  job' \in Jobs
    BY <2>1, <2>4, <2>6 DEF Jobs
  <2>7. job' \in Jobs
    BY <2>2, <2>5, <2>6
  <2> QED
    BY <1>2, <2>7 DEF CheckFile, DumpDatabase
<1>7. CASE CopyFile
  <2>1. job \in Jobs
    BY <1>7 DEF CopyFile, Running
  <2>a. PICK part \in job.todo : \E content \in Copies(part) :
            job' = [job EXCEPT !.step = "write", !.todo = @ \ {part},
                               !.archive = [@ EXCEPT ![part] = content]]
    BY <1>7 DEF CopyFile
  <2>2. PICK content \in Copies(part) :
            job' = [job EXCEPT !.step = "write", !.todo = @ \ {part},
                               !.archive = [@ EXCEPT ![part] = content]]
    BY <2>a
  <2>3. /\ part \in Parts /\ live[part] \in Contents /\ job.archive \in Archives
        /\ job.opened \in Contents /\ Torn \in Contents
    BY <2>1 DEF Jobs, Contents, FileContents
  <2>4. content \in Contents
    BY <2>2, <2>3 DEF Copies
  <2>5. [job.archive EXCEPT ![part] = content] \in Archives
    <3>1. job.archive \in [DOMAIN job.archive -> Contents] /\ DOMAIN job.archive \subseteq Parts
      BY <2>3, ArchiveDomain
    <3>2. [job.archive EXCEPT ![part] = content] \in [DOMAIN job.archive -> Contents]
      BY <2>4, <3>1
    <3> QED
      BY <3>1, <3>2 DEF Archives
  <2>6. job' \in Jobs
    BY <2>1, <2>2, <2>5 DEF Jobs
  <2> QED
    BY <1>7, <2>6 DEF CopyFile
<1>8. CASE OpenFile
  <2>1. job \in Jobs
    BY <1>8 DEF OpenFile, Running
  <2>2. PICK part \in job.todo :
            job' = [job EXCEPT !.step = "copy",
                               !.opened = IF live[part] = Link THEN Foreign ELSE live[part]]
    BY <1>8 DEF OpenFile
  <2>3. live[part] \in Contents /\ Foreign \in Contents
    BY <2>1 DEF Jobs, Contents, FileContents
  <2>4. job' \in Jobs
    BY <2>1, <2>2, <2>3 DEF Jobs
  <2> QED
    BY <1>8, <2>4 DEF OpenFile
<1>3. CASE WriteRefused \/ ArchiveWritten \/ ListFails \/ Pruned
  BY <1>3 DEF WriteRefused, ArchiveWritten, ListFails, Pruned, Running, GoTo, Done, Fault, Jobs
<1>4. CASE Put \/ PutFails
  <2>1. job \in Jobs
    BY <1>4 DEF Put, PutFails, Running
  <2>2. job' \in Jobs \cup {None}
    BY <1>4, <2>1 DEF Put, PutFails, GoTo, Jobs
  <2>3. bucket' \in {bucket, Uploaded}
    BY <1>4 DEF Put, PutFails
  <2>4. /\ Stored' \subseteq Int /\ IsFiniteSet(Stored')
        /\ \A name \in Stored' : bucket'[name] \in Archives
    BY <2>1, <2>3, UploadedIsBucket
  <2> QED
    BY <1>4, <2>2, <2>4 DEF Put, PutFails, Fault
<1>5. CASE List
  <2>1. job \in Jobs
    BY <1>5 DEF List, Running
  <2>2. Prunable(job.days, job.name) \subseteq Int
    BY DEF Prunable
  <2>3. job' \in Jobs
    BY <1>5, <2>1, <2>2 DEF List, Jobs
  <2> QED
    BY <1>5, <2>3 DEF List
<1>6. CASE Delete \/ DeleteFails
  <2>1. job \in Jobs
    BY <1>6 DEF Delete, DeleteFails, Running
  <2>2. PICK name \in job.doomed : /\ bucket' \in {bucket, Without(name)}
                                   /\ job' = [job EXCEPT !.doomed = @ \ {name}]
    BY <1>6 DEF Delete, DeleteFails
  <2>3. job' \in Jobs
    BY <2>1, <2>2 DEF Jobs
  <2>4. /\ Stored' \subseteq Int /\ IsFiniteSet(Stored')
        /\ \A m \in Stored' : bucket'[m] \in Archives
    <3>1. CASE bucket' = bucket
      BY <3>1
    <3>2. CASE bucket' = Without(name)
      BY <3>2, WithoutIsBucket
    <3> QED
      BY <2>2, <3>1, <3>2
  <2> QED
    BY <1>6, <2>3, <2>4 DEF Delete, DeleteFails, Fault
<1> QED
  BY <1>1, <1>2, <1>3, <1>4, <1>5, <1>6, <1>7, <1>8 DEF CreateNext

\* The tables of a database that is being replayed are those of a schema.
LEMMA TableReplayed ==
  ASSUME BucketInv, SchemaInv, RestoreInv, Running("restore", "copy"), job \in Jobs,
         NEW d \in Databases \cap job.todo, NextPart(d), NEW t \in job.tables
  PROVE  /\ live[d] \in Schemas /\ job.archive[d] \in Schemas /\ d \in Parts
         /\ t \in Tables /\ job.archive[d][t] # None
         /\ [live EXCEPT ![d] = [@ EXCEPT ![t] = job.archive[d][t]]] \in [Parts -> Contents]
         /\ [live[d] EXCEPT ![t] = job.archive[d][t]] \in Schemas
         /\ [live EXCEPT ![d] = [@ EXCEPT ![t] = Torn]] \in [Parts -> Contents]
         /\ [live[d] EXCEPT ![t] = Torn] \in Schemas
<1>1. live[d] \in Schemas /\ d \in DOMAIN job.archive /\ job.archive[d][t] # None
  BY DEF Running, RestoreInv, Restoring
<1>2. job.archive[d] \in Schemas /\ t \in Tables /\ d \in Parts
  BY <1>1 DEF SchemaInv, Dumps, Running, Jobs
<1>3. job.archive[d][t] \in Nat \cup {None, Torn} /\ Torn \in Nat \cup {None, Torn}
  BY <1>2 DEF Schemas
<1>4. /\ [live[d] EXCEPT ![t] = job.archive[d][t]] \in Schemas
      /\ [live[d] EXCEPT ![t] = Torn] \in Schemas
  BY <1>1, <1>2, <1>3 DEF Schemas
<1>5. live \in [Parts -> Contents] /\ Schemas \subseteq Contents
  BY DEF BucketInv, BackupTypeOK, Contents
<1> QED
  BY <1>1, <1>2, <1>4, <1>5

LEMMA HalfReplayedTypes ==
  ASSUME BucketInv, SchemaInv, RestoreInv, live' \in {live} \cup HalfReplayed
  PROVE  /\ live' \in [Parts -> Contents]
         /\ \A d \in Databases : live'[d] \in Schemas \cup {None}
<1>a. live \in [Parts -> Contents] /\ \A d \in Databases : live[d] \in Schemas \cup {None}
  BY DEF BucketInv, BackupTypeOK, SchemaInv
<1>1. CASE live' = live
  BY <1>a, <1>1
<1>2. CASE live' # live
  <2>1. Running("restore", "copy") /\ job \in Jobs
    BY <1>2 DEF HalfReplayed, Running, BucketInv, BackupTypeOK
  <2>2. PICK d \in job.todo \cap Databases, t \in job.tables :
            NextPart(d) /\ live' = [live EXCEPT ![d] = [@ EXCEPT ![t] = Torn]]
    BY <1>2, <2>1 DEF HalfReplayed
  <2>3. /\ [live EXCEPT ![d] = [@ EXCEPT ![t] = Torn]] \in [Parts -> Contents]
        /\ [live[d] EXCEPT ![t] = Torn] \in Schemas /\ d \in Parts
    BY <2>1, <2>2, TableReplayed
  <2>4. live'[d] = [live[d] EXCEPT ![t] = Torn] /\ \A e \in Parts \ {d} : live'[e] = live[e]
    BY <1>a, <2>2, <2>3
  <2>5. ASSUME NEW e \in Databases PROVE live'[e] \in Schemas \cup {None}
    BY <1>a, <2>3, <2>4 DEF Parts
  <2> QED
    BY <2>2, <2>3, <2>5
<1> QED
  BY <1>1, <1>2

LEMMA RestoreTypes ==
  BucketInv /\ SchemaInv /\ RestoreInv /\ (RestoreNext \/ Return) => BucketInv'
<1> SUFFICES ASSUME BucketInv, SchemaInv, RestoreInv, RestoreNext \/ Return PROVE BucketInv'
  OBVIOUS
<1>a. job \in Jobs \cup {None}
  BY DEF BucketInv, BackupTypeOK
<1>9. ASSUME live' \in [Parts -> Contents], job' \in Jobs \cup {None},
             UNCHANGED <<recorded, bucket, clock, verifying, verified>>,
             counts' \in [writes: Nat, jobs: Nat, faults: Nat]
      PROVE  BucketInv'
  BY <1>9 DEF BucketInv, BackupTypeOK, Stored
<1> USE DEF BucketInv, BackupTypeOK, Stored
<1>1. ASSUME NEW name \in 0 .. MaxClock, Restore(name) PROVE BucketInv'
  <2>1. None \in Contents
    BY DEF Contents, FileContents
  <2>2. job' \in Jobs
    BY <1>1, <2>1, EmptyIsArchive DEF Restore, Begin, NewJob, Jobs
  <2> QED
    BY <1>1, <2>2 DEF Restore, Begin
<1>2. CASE Download
  <2>1. job \in Jobs /\ bucket[job.name] \in Archives
    BY <1>2 DEF Download, Running
  <2>2. DOMAIN bucket[job.name] \subseteq Parts
    BY <2>1, ArchiveDomain
  <2>3. job' \in Jobs
    BY <1>2, <2>1, <2>2 DEF Download, Jobs
  <2> QED
    BY <1>2, <2>3 DEF Download
<1>3. CASE DownloadFails \/ OpenRefused \/ Return
  BY <1>3 DEF DownloadFails, OpenRefused, Return, Fault
<1>4. CASE ApplyFails
  <2>1. live' \in [Parts -> Contents]
    BY <1>4, HalfReplayedTypes DEF ApplyFails
  <2> QED
    BY <1>4, <2>1 DEF ApplyFails, Fault
<1>5. CASE Restored \/ Replayed
  <2>1. job \in Jobs
    BY <1>5 DEF Restored, Replayed, Running
  <2>2. CASE Restored
    BY <2>1, <2>2 DEF Restored, Done, GoTo, Jobs
  <2>3. CASE Replayed
    <3>1. PICK part : job' = [job EXCEPT !.step = "apply", !.todo = @ \ {part}]
      BY <2>3 DEF Replayed
    <3>2. job' \in Jobs
      BY <2>1, <3>1 DEF Jobs
    <3> QED
      BY <2>3, <3>2 DEF Replayed
  <2> QED
    BY <1>5, <2>2, <2>3
<1>11. CASE CheckEntry
  <2>1. job \in Jobs
    BY <1>11 DEF CheckEntry, Running
  <2>2. job.entries + 1 \in Nat
    BY <2>1 DEF Jobs
  <2>3. PICK n \in Nat : job' = [job EXCEPT !.step = "open", !.entries = n]
    BY <1>11, <2>2 DEF CheckEntry
  <2>4. job' \in Jobs
    BY <2>1, <2>3 DEF Jobs
  <2> QED
    BY <1>11, <2>4 DEF CheckEntry
<1>6. CASE OpenTarget
  <2>1. job \in Jobs /\ {Torn, Link, Foreign} \subseteq Contents
    BY <1>6 DEF OpenTarget, Running, Contents, FileContents
  <2>2. PICK part \in job.todo :
            /\ live' = [live EXCEPT ![part] = IF @ = Link THEN Link ELSE Torn]
            /\ job' = [job EXCEPT !.step = "copy",
                                  !.opened = IF live[part] = Link THEN Foreign ELSE Torn]
    BY <1>6 DEF OpenTarget
  <2>3. job' \in Jobs /\ live' \in [Parts -> Contents]
    BY <2>1, <2>2 DEF Jobs
  <2> QED
    BY <1>6, <2>3 DEF OpenTarget
<1>7. CASE CopyEntry
  <2>1. job \in Jobs
    BY <1>7 DEF CopyEntry, Running
  <2>2. PICK part \in job.todo \cap Files :
            /\ \E content \in Written(part) : live' = [live EXCEPT ![part] = content]
            /\ job' = [job EXCEPT !.step = "apply", !.todo = @ \ {part}]
    BY <1>7 DEF CopyEntry
  <2>3. job' \in Jobs
    BY <2>1, <2>2 DEF Jobs
  <2>4. job.archive \in Archives /\ part \in DOMAIN job.archive /\ part \in Parts
    BY <1>7, <2>1 DEF CopyEntry, Running, RestoreInv, Restoring, Jobs
  <2>5. job.archive[part] \in Contents /\ Torn \in Contents /\ live[part] \in Contents
    BY <2>4, ArchiveDomain DEF Contents, FileContents
  <2>6. Written(part) \subseteq Contents
    BY <2>5 DEF Written
  <2>7. live' \in [Parts -> Contents]
    BY <2>2, <2>6
  <2> QED
    BY <1>7, <2>3, <2>7 DEF CopyEntry
<1>8. CASE ReplayBegins
  <2>1. job \in Jobs /\ NoTables \in Contents
    BY <1>8 DEF ReplayBegins, Running, Contents, Schemas, NoTables
  <2>2. PICK part \in job.todo :
            /\ live' = [live EXCEPT ![part] = IF @ = None THEN NoTables ELSE @]
            /\ job' = [job EXCEPT !.step = "copy", !.entries = @ + 1,
                                  !.tables = {t \in Tables : job.archive[part][t] # None}]
    BY <1>8 DEF ReplayBegins
  <2>3. job.entries + 1 \in Nat
    BY <2>1 DEF Jobs
  <2>4. PICK n \in Nat, tables \in SUBSET Tables :
            job' = [job EXCEPT !.step = "copy", !.entries = n, !.tables = tables]
    BY <2>2, <2>3
  <2>5. job' \in Jobs
    BY <2>1, <2>4 DEF Jobs
  <2>6. live' \in [Parts -> Contents]
    BY <2>1, <2>2
  <2> QED
    BY <1>8, <2>5, <2>6 DEF ReplayBegins
<1>10. CASE ReplayTable
  <2>1. job \in Jobs /\ Running("restore", "copy")
    BY <1>10 DEF ReplayTable, Running
  <2>2. PICK part \in job.todo \cap Databases, t \in job.tables :
            /\ NextPart(part)
            /\ live' = [live EXCEPT ![part] = [@ EXCEPT ![t] = job.archive[part][t]]]
            /\ job' = [job EXCEPT !.tables = @ \ {t}]
    BY <1>10 DEF ReplayTable
  <2>3. live' \in [Parts -> Contents]
    BY <2>1, <2>2, TableReplayed
  <2>4. job' \in Jobs
    BY <2>1, <2>2 DEF Jobs
  <2> QED
    BY <1>10, <2>3, <2>4 DEF ReplayTable
<1> QED
  BY <1>1, <1>2, <1>3, <1>4, <1>5, <1>6, <1>7, <1>8, <1>10, <1>11 DEF RestoreNext

\* A write of the site gives a file a content, and a database a table.
LEMMA SiteChange ==
  ASSUME BucketInv, SchemaInv, SiteWrites
  PROVE  \E part \in Parts, content \in Contents :
             /\ Change(part, content)
             /\ part \in Databases => content \in Schemas /\ live[part] # None
<1>a. Files \cap Databases = {} /\ Files \subseteq Parts /\ Databases \subseteq Parts
  BY OneKind DEF Parts
<1>b. counts.writes + 1 \in Nat
  BY DEF BucketInv, BackupTypeOK
<1>1. ASSUME NEW f \in Files, NEW content \in {counts.writes + 1, None, Link}, Change(f, content)
      PROVE  content \in Contents
  BY <1>b DEF Contents, FileContents
<1>2. ASSUME NEW d \in Databases, NEW t \in Tables, NEW content \in {counts.writes + 1, None},
             live[d] # None
      PROVE  [live[d] EXCEPT ![t] = content] \in Schemas
  <2>1. live[d] \in Schemas /\ content \in Nat \cup {None, Torn}
    BY <1>b, <1>2 DEF SchemaInv
  <2> QED
    BY <2>1 DEF Schemas
<1>3. Schemas \subseteq Contents
  BY DEF Contents
<1> QED
  BY <1>a, <1>1, <1>2, <1>3 DEF SiteWrites

LEMMA HostTypes ==
  BucketInv /\ SchemaInv /\ RestoreInv /\ (VerifyNext \/ HostNext) => BucketInv'
<1> SUFFICES ASSUME BucketInv, SchemaInv, RestoreInv, VerifyNext \/ HostNext PROVE BucketInv'
  OBVIOUS
<1> USE DEF BucketInv, BackupTypeOK, Stored
<1>1. CASE VerifyList \/ Inspect \/ VerifyFails
  BY <1>1 DEF VerifyList, Inspect, VerifyFails, Fault
<1>2. CASE Tick \/ ClockSetBack
  BY <1>2 DEF Tick, ClockSetBack, Fault
<1>7. CASE Crash
  <2>1. live' \in [Parts -> Contents]
    BY <1>7, HalfReplayedTypes DEF Crash
  <2> QED
    BY <1>7, <2>1 DEF Crash, Fault
<1>3. ASSUME NEW part \in Parts, NEW content \in Contents, Change(part, content)
      PROVE  /\ live' \in [Parts -> Contents] /\ job' \in Jobs \cup {None}
             /\ counts' \in [writes: Nat, jobs: Nat, faults: Nat]
  <2>1. live' \in [Parts -> Contents] /\ counts' \in [writes: Nat, jobs: Nat, faults: Nat]
    BY <1>3 DEF Change
  <2>2. CASE job = None
    BY <1>3, <2>1, <2>2 DEF Change, Touched
  <2>3. CASE job # None
    <3>1. job \in Jobs /\ job' = [job EXCEPT !.touched[part] = @ \cup {content}]
      BY <1>3, <2>3 DEF Change, Touched
    <3>2. job.touched \in [Parts -> SUBSET Contents]
      BY <3>1 DEF Jobs
    <3>3. [job.touched EXCEPT ![part] = @ \cup {content}] \in [Parts -> SUBSET Contents]
      BY <3>2
    <3>4. job' \in Jobs
      BY <3>1, <3>3 DEF Jobs
    <3> QED
      BY <2>1, <3>4
  <2> QED
    BY <2>2, <2>3
<1>4. CASE SiteWrites
  <2>1. PICK part \in Parts, content \in Contents : Change(part, content)
    BY <1>4, SiteChange
  <2> QED
    BY <1>3, <1>4, <2>1 DEF SiteWrites
<1>5. CASE CreateDatabase
  <2>1. PICK d \in Databases \ recorded :
            /\ Change(d, IF live[d] = None THEN NoTables ELSE live[d])
            /\ recorded' = recorded \cup {d}
    BY <1>5 DEF CreateDatabase
  <2>2. d \in Parts /\ NoTables \in Contents
    BY DEF Parts, Contents, Schemas, NoTables
  <2>3. (IF live[d] = None THEN NoTables ELSE live[d]) \in Contents
    BY <2>2
  <2> QED
    BY <1>3, <1>5, <2>1, <2>2, <2>3 DEF CreateDatabase
<1>6. CASE DeleteDatabase
  <2>1. PICK d \in recorded : Change(d, None) /\ recorded' \in {recorded, recorded \ {d}}
    BY <1>6 DEF DeleteDatabase
  <2>2. d \in Parts /\ None \in Contents
    BY DEF Parts, Contents, FileContents
  <2> QED
    BY <1>3, <1>6, <2>1, <2>2 DEF DeleteDatabase
<1> QED
  BY <1>1, <1>2, <1>4, <1>5, <1>6, <1>7 DEF VerifyNext, HostNext

LEMMA SchemaStep == BackupInv /\ BucketInv' /\ BackupNext => SchemaInv'
<1> SUFFICES ASSUME BackupInv, BucketInv', BackupNext PROVE SchemaInv'
  OBVIOUS
<1>a. BucketInv /\ SchemaInv /\ RestoreInv
  BY DEF BackupInv
<1>b. /\ job \in Jobs \cup {None} /\ live \in [Parts -> Contents]
      /\ \A d \in Databases : live[d] \in Schemas \cup {None}
      /\ \A name \in Stored : Dumps(bucket[name])
  BY <1>a DEF BucketInv, BackupTypeOK, SchemaInv
<1>c. Files \cap Databases = {} /\ Databases \subseteq Parts
  BY OneKind DEF Parts
<1>d. job # None => /\ Dumps(job.archive)
                    /\ \A d \in Databases : job.before[d] \in Schemas \cup {None}
  BY <1>a DEF SchemaInv
<1>e. NoTables \in Schemas
  BY DEF NoTables, Schemas
<1>1. ASSUME NEW days \in Retentions, Create(days) PROVE SchemaInv'
  <2>1. job'.archive = Empty /\ job'.before = live /\ live' = live /\ bucket' = bucket
    BY <1>1 DEF Create, Begin, NewJob
  <2> QED
    BY <1>b, <2>1, EmptyIsArchive DEF SchemaInv, Dumps, Stored
<1>2. ASSUME NEW name \in 0 .. MaxClock, Restore(name) PROVE SchemaInv'
  <2>1. job'.archive = Empty /\ job'.before = live /\ live' = live /\ bucket' = bucket
    BY <1>2 DEF Restore, Begin, NewJob
  <2> QED
    BY <1>b, <2>1, EmptyIsArchive DEF SchemaInv, Dumps, Stored
<1>3. CASE CheckFile \/ DumpDatabase
  <2>1. job \in Jobs /\ job # None
    BY <1>b, <1>3 DEF CheckFile, DumpDatabase, Running
  <2>2. PICK part \in job.todo :
            /\ job'.archive = WithPart(job.archive, part) /\ job'.before = job.before
            /\ part \in Files \/ live[part] # None
    BY <1>3, <2>1 DEF CheckFile, DumpDatabase, Jobs
  <2>3. live' = live /\ bucket' = bucket
    BY <1>3 DEF CheckFile, DumpDatabase
  <2>4. Dumps(job'.archive)
    BY <1>b, <1>c, <1>d, <2>1, <2>2 DEF Dumps, WithPart
  <2> QED
    BY <1>b, <1>d, <2>1, <2>2, <2>3, <2>4 DEF SchemaInv, Stored
<1>4. CASE CopyFile
  <2>1. job \in Jobs /\ job # None
    BY <1>b, <1>4 DEF CopyFile, Running
  <2>2. PICK part \in Files : \E content :
            /\ job'.archive = [job.archive EXCEPT ![part] = content]
            /\ job'.before = job.before
    BY <1>4, <2>1 DEF CopyFile, Jobs
  <2>3. live' = live /\ bucket' = bucket
    BY <1>4 DEF CopyFile
  <2>4. Dumps(job'.archive)
    BY <1>c, <1>d, <2>1, <2>2 DEF Dumps
  <2> QED
    BY <1>b, <1>d, <2>1, <2>2, <2>3, <2>4 DEF SchemaInv, Stored
<1>5. CASE \/ OpenFile \/ ArchiveWritten \/ List \/ ListFails \/ Pruned
           \/ CheckEntry \/ Replayed \/ Restored
  <2>1. /\ job # None /\ job'.archive = job.archive /\ job'.before = job.before
        /\ live' = live /\ bucket' = bucket
    BY <1>b, <1>5 DEF OpenFile, ArchiveWritten, List, ListFails, Pruned, CheckEntry, Replayed,
                      Restored, Running, GoTo, Done, Jobs
  <2> QED
    BY <1>b, <1>d, <2>1 DEF SchemaInv, Stored
<1>6. CASE WriteRefused \/ DownloadFails \/ OpenRefused \/ Return
  BY <1>b, <1>6 DEF WriteRefused, DownloadFails, OpenRefused, Return, SchemaInv, Stored
<1>7. CASE Put \/ PutFails
  <2>1. job \in Jobs /\ job # None /\ bucket' \in {bucket, Uploaded} /\ live' = live
    BY <1>b, <1>7 DEF Put, PutFails, Running
  <2>2. job' = None \/ (job'.archive = job.archive /\ job'.before = job.before)
    BY <1>7, <2>1 DEF Put, PutFails, GoTo, Jobs
  <2>3. \A name \in Stored' : Dumps(bucket'[name])
    BY <1>b, <1>d, <2>1 DEF Uploaded, Stored
  <2> QED
    BY <1>b, <1>d, <2>1, <2>2, <2>3 DEF SchemaInv
<1>8. CASE Delete \/ DeleteFails
  <2>1. job \in Jobs /\ job # None /\ live' = live
    BY <1>b, <1>8 DEF Delete, DeleteFails, Running
  <2>2. PICK name \in job.doomed : /\ bucket' \in {bucket, Without(name)}
                                   /\ job'.archive = job.archive /\ job'.before = job.before
    BY <1>8, <2>1 DEF Delete, DeleteFails, Jobs
  <2>3. \A m \in Stored' : Dumps(bucket'[m])
    BY <1>b, <2>2 DEF Without, Stored
  <2> QED
    BY <1>b, <1>d, <2>1, <2>2, <2>3 DEF SchemaInv
<1>9. CASE Download
  <2>1. job \in Jobs /\ job # None /\ job.name \in Stored
    BY <1>b, <1>9 DEF Download, Running
  <2>2. /\ job'.archive = bucket[job.name] /\ job'.before = job.before
        /\ live' = live /\ bucket' = bucket
    BY <1>9, <2>1 DEF Download, Jobs
  <2> QED
    BY <1>b, <1>d, <2>1, <2>2 DEF SchemaInv, Stored
<1>10. CASE OpenTarget \/ CopyEntry
  <2>1. job \in Jobs /\ job # None /\ bucket' = bucket
    BY <1>b, <1>10 DEF OpenTarget, CopyEntry, Running
  <2>2. PICK part \in Files : \E content : live' = [live EXCEPT ![part] = content]
    BY <1>10 DEF OpenTarget, CopyEntry
  <2>3. job'.archive = job.archive /\ job'.before = job.before
    BY <1>10, <2>1 DEF OpenTarget, CopyEntry, Jobs
  <2>4. \A d \in Databases : live'[d] = live[d]
    BY <1>b, <1>c, <2>2
  <2> QED
    BY <1>b, <1>d, <2>1, <2>3, <2>4 DEF SchemaInv, Stored
<1>11. CASE ReplayBegins
  <2>1. job \in Jobs /\ job # None /\ bucket' = bucket
    BY <1>b, <1>11 DEF ReplayBegins, Running
  <2>2. PICK part : live' = [live EXCEPT ![part] = IF @ = None THEN NoTables ELSE @]
    BY <1>11 DEF ReplayBegins
  <2>3. job'.archive = job.archive /\ job'.before = job.before
    BY <1>11, <2>1 DEF ReplayBegins, Jobs
  <2>4. \A d \in Databases : live'[d] \in Schemas \cup {None}
    BY <1>b, <1>c, <1>e, <2>2
  <2> QED
    BY <1>b, <1>d, <2>1, <2>3, <2>4 DEF SchemaInv, Stored
<1>12. CASE ReplayTable
  <2>1. job \in Jobs /\ job # None /\ bucket' = bucket /\ Running("restore", "copy")
    BY <1>b, <1>12 DEF ReplayTable, Running
  <2>2. PICK part \in job.todo \cap Databases, t \in job.tables :
            /\ NextPart(part)
            /\ live' = [live EXCEPT ![part] = [@ EXCEPT ![t] = job.archive[part][t]]]
            /\ job' = [job EXCEPT !.tables = @ \ {t}]
    BY <1>12 DEF ReplayTable
  <2>3. job'.archive = job.archive /\ job'.before = job.before
    BY <2>1, <2>2 DEF Jobs
  <2>4. [live[part] EXCEPT ![t] = job.archive[part][t]] \in Schemas /\ part \in Parts
    BY <1>a, <2>1, <2>2, TableReplayed
  <2>5. /\ live'[part] = [live[part] EXCEPT ![t] = job.archive[part][t]]
        /\ \A d \in Parts \ {part} : live'[d] = live[d]
    BY <1>b, <2>2, <2>4
  <2>6. \A d \in Databases : live'[d] \in Schemas \cup {None}
    BY <1>b, <1>c, <2>4, <2>5
  <2> QED
    BY <1>b, <1>d, <2>1, <2>3, <2>6 DEF SchemaInv, Stored
<1>13. CASE ApplyFails \/ Crash
  <2>1. \A d \in Databases : live'[d] \in Schemas \cup {None}
    BY <1>a, <1>13, HalfReplayedTypes DEF ApplyFails, Crash
  <2> QED
    BY <1>b, <1>13, <2>1 DEF ApplyFails, Crash, SchemaInv, Stored
<1>14. CASE VerifyNext \/ Tick \/ ClockSetBack
  BY <1>b, <1>d, <1>14 DEF VerifyNext, VerifyList, Inspect, VerifyFails, Tick, ClockSetBack,
                           SchemaInv, Stored
<1>15. ASSUME NEW part \in Parts, NEW content, Change(part, content), bucket' = bucket,
              part \in Databases => content \in Schemas \cup {None}
       PROVE  SchemaInv'
  <2>1. live' = [live EXCEPT ![part] = content]
    BY <1>15 DEF Change
  <2>2. \A d \in Databases : live'[d] \in Schemas \cup {None}
    BY <1>b, <1>c, <1>15, <2>1
  <2>3. job' = job \/ job' = [job EXCEPT !.touched[part] = @ \cup {content}]
    BY <1>15 DEF Change, Touched
  <2>4. job = None => job' = None
    BY <1>15 DEF Change, Touched
  <2>5. job # None => job'.archive = job.archive /\ job'.before = job.before
    BY <1>b, <2>3 DEF Jobs
  <2> QED
    BY <1>b, <1>d, <1>15, <2>2, <2>4, <2>5 DEF SchemaInv, Stored
<1>16. CASE SiteWrites
  <2>1. PICK part \in Parts, content \in Contents :
            Change(part, content) /\ (part \in Databases => content \in Schemas)
    BY <1>a, <1>16, SiteChange
  <2> QED
    BY <1>15, <1>16, <2>1 DEF SiteWrites
<1>17. CASE CreateDatabase
  <2>1. PICK d \in Databases : Change(d, IF live[d] = None THEN NoTables ELSE live[d])
    BY <1>17 DEF CreateDatabase
  <2>2. (IF live[d] = None THEN NoTables ELSE live[d]) \in Schemas \cup {None}
    BY <1>b, <1>e
  <2> QED
    BY <1>c, <1>15, <1>17, <2>1, <2>2 DEF CreateDatabase
<1>18. CASE DeleteDatabase
  <2>1. PICK d \in recorded : Change(d, None)
    BY <1>18 DEF DeleteDatabase
  <2>2. d \in Databases
    BY <1>a DEF BucketInv, BackupTypeOK
  <2> QED
    BY <1>c, <1>15, <1>18, <2>1, <2>2 DEF DeleteDatabase
<1> QED
  BY <1>1, <1>2, <1>3, <1>4, <1>5, <1>6, <1>7, <1>8, <1>9, <1>10, <1>11, <1>12, <1>13, <1>14,
     <1>16, <1>17, <1>18
  DEF BackupNext, CreateNext, RestoreNext, HostNext
-----------------------------------------------------------------------------
(* Creates.                                                                *)

LEMMA CreateReads == BucketInv /\ ReadInv /\ CreateNext => ReadInv'
<1> SUFFICES ASSUME BucketInv, ReadInv, CreateNext, job' # None, job'.op = "create"
             PROVE  ReadInv'
  BY DEF ReadInv, Creating
<1> USE DEF ContentsSeen, Whole, CreateSteps, ReadInv, Creating
<1>a. job \in Jobs \cup {None} /\ live \in [Parts -> Contents] /\ Files \subseteq Parts
  BY DEF BucketInv, BackupTypeOK, Parts
<1>1. ASSUME NEW days \in Retentions, Create(days) PROVE ReadInv'
  BY <1>a, <1>1, EmptyIsArchive DEF Create, Begin, NewJob
<1>2. CASE CheckFile \/ DumpDatabase
  <2>2. job \in Jobs /\ job # None /\ job.op = "create" /\ job.step = "write"
    BY <1>a, <1>2, ZenonT(40) DEF CheckFile, DumpDatabase, Running
  <2>1. PICK part \in job.todo :
            /\ NextPart(part)
            /\ \/ /\ job' = [job EXCEPT !.step = "open", !.archive = WithPart(@, part)]
                  /\ live[part] # Link
               \/ job' = [job EXCEPT !.todo = @ \ {part}, !.archive = WithPart(@, part)]
    BY <1>2 DEF CheckFile, DumpDatabase
  <2>3. /\ job'.before = job.before /\ job'.touched = job.touched
        /\ job'.archive = WithPart(job.archive, part)
        /\ \/ job'.step = "open" /\ job'.todo = job.todo /\ live[part] # Link
           \/ job'.step = "write" /\ job'.todo = job.todo \ {part}
    BY <2>1, <2>2 DEF Jobs
  <2>4. part \in Parts /\ live' = live /\ recorded' = recorded /\ job.todo \subseteq Parts
    BY <1>2, <2>2 DEF CheckFile, DumpDatabase, Jobs
  <2>5. DOMAIN job'.archive = DOMAIN job.archive \cup {part}
    BY <2>3 DEF WithPart
  <2>6. \A p \in DOMAIN job'.archive :
            job'.archive[p] = IF p = part THEN live[part] ELSE job.archive[p]
    BY <2>3 DEF WithPart
  <2>7. \A p \in DOMAIN job'.archive : Whole(job.archive, p)'
    BY <2>2, <2>3, <2>4, <2>5, <2>6
  <2>8. ASSUME job'.step \in {"open", "copy"}, NEW f \in Files, NextPart(f)'
        PROVE  ReadingInv(f)'
    <3>1. job'.todo = job.todo /\ live[part] # Link /\ job'.step = "open"
      BY <2>3, <2>8
    <3>2. NextPart(f)
      BY <2>8, <3>1 DEF NextPart
    <3>3. f = part
      BY <2>1, <2>2, <3>2, OneNext
    <3> QED
      BY <2>4, <2>5, <3>1, <3>3 DEF ReadingInv
  <2> QED
    BY <2>2, <2>3, <2>4, <2>5, <2>7, <2>8
<1>3. CASE OpenFile
  <2>1. job \in Jobs /\ job # None /\ job.op = "create" /\ job.step = "open"
    BY <1>a, <1>3 DEF OpenFile, Running
  <2>2. PICK part \in job.todo \cap Files :
            /\ NextPart(part)
            /\ job' = [job EXCEPT !.step = "copy",
                                  !.opened = IF live[part] = Link THEN Foreign ELSE live[part]]
    BY <1>3 DEF OpenFile
  <2>3. /\ job'.step = "copy" /\ job'.before = job.before /\ job'.touched = job.touched
        /\ job'.archive = job.archive /\ job'.todo = job.todo
        /\ job'.opened = IF live[part] = Link THEN Foreign ELSE live[part]
    BY <2>1, <2>2 DEF Jobs
  <2>4. part \in Parts /\ live' = live /\ recorded' = recorded
    BY <1>a, <1>3 DEF OpenFile
  <2>5. part \in DOMAIN job.archive /\ (live[part] = Link => Link \in job.touched[part])
    BY <2>1, <2>2 DEF ReadingInv
  <2>6. ASSUME NEW f \in Files, NextPart(f)' PROVE ReadingInv(f)'
    <3>1. NextPart(f)
      BY <2>3, <2>6 DEF NextPart
    <3>2. f = part
      BY <2>1, <2>2, <3>1, OneNext
    <3>3. live[part] \in ContentsSeen(part)
      BY <2>1, <2>4
    <3> QED
      BY <2>3, <2>4, <2>5, <3>2, <3>3 DEF ReadingInv
  <2>7. \A p \in DOMAIN job'.archive : Whole(job.archive, p)'
    BY <2>1, <2>3
  <2> QED
    BY <2>1, <2>3, <2>4, <2>6, <2>7
<1>6. CASE CopyFile
  <2>2. job \in Jobs /\ job # None /\ job.op = "create" /\ job.step = "copy"
    BY <1>a, <1>6 DEF CopyFile, Running
  <2>a. PICK part \in job.todo \cap Files :
            /\ NextPart(part)
            /\ \E content \in Copies(part) :
                   job' = [job EXCEPT !.step = "write", !.todo = @ \ {part},
                                      !.archive = [@ EXCEPT ![part] = content]]
    BY <1>6 DEF CopyFile
  <2>1. PICK content \in Copies(part) :
            job' = [job EXCEPT !.step = "write", !.todo = @ \ {part},
                               !.archive = [@ EXCEPT ![part] = content]]
    BY <2>a
  <2>3. /\ job'.step = "write" /\ job'.before = job.before /\ job'.touched = job.touched
        /\ job'.archive = [job.archive EXCEPT ![part] = content]
        /\ job'.todo = job.todo \ {part}
    BY <2>1, <2>2 DEF Jobs
  <2>4. part \in Parts /\ live' = live /\ recorded' = recorded
    BY <1>a, <1>6 DEF CopyFile
  <2>5. /\ part \in DOMAIN job.archive
        /\ job.opened \in ContentsSeen(part) \/ (job.opened = Foreign /\ Link \in job.touched[part])
        /\ job.opened = Foreign \/ live[part] = job.opened \/ job.touched[part] # {}
    BY <2>a, <2>2 DEF ReadingInv
  <2>6. job.archive \in Archives
    BY <2>2 DEF Jobs
  <2>7. /\ DOMAIN job'.archive = DOMAIN job.archive
        /\ \A p \in DOMAIN job.archive :
               job'.archive[p] = IF p = part THEN content ELSE job.archive[p]
    BY <2>3, <2>6, ArchiveDomain
  <2>8. \/ content = live[part]
        \/ content = job.opened
        \/ content = Torn /\ job.touched[part] # {}
    BY <2>1, <2>5 DEF Copies
  <2>b. live[part] \in ContentsSeen(part)
    BY <2>2, <2>4
  <2>c. \/ content \in ContentsSeen(part)
        \/ content = Torn /\ job.touched[part] # {}
        \/ content = Foreign /\ Link \in job.touched[part]
    BY <2>5, <2>8, <2>b
  <2>9. \A p \in DOMAIN job'.archive : Whole(job.archive, p)'
    BY <2>a, <2>2, <2>3, <2>4, <2>7, <2>c
  <2> QED
    BY <2>2, <2>3, <2>4, <2>5, <2>7, <2>9
<1>4. CASE WriteRefused \/ PutFails
  BY <1>4 DEF WriteRefused, PutFails
<1>5. CASE ArchiveWritten \/ Put \/ List \/ ListFails \/ Pruned
  BY <1>a, <1>5, ZenonT(40)
  DEF ArchiveWritten, Put, List, ListFails, Pruned, Running, GoTo, Done, Jobs
<1>7. CASE Delete \/ DeleteFails
  BY <1>a, <1>7 DEF Delete, DeleteFails, Running, Jobs
<1> QED
  BY <1>1, <1>2, <1>3, <1>4, <1>5, <1>6, <1>7 DEF CreateNext

\* A deletion: the floor stays under every name that had it, and every other
\* archive stays as it is.
LEMMA DeletionAllowed ==
  ASSUME BucketInv, PruneInv, Delete \/ DeleteFails
  PROVE  /\ job \in Jobs /\ job # None /\ job.op = "create" /\ job.step = "prune"
         /\ \E old \in job.doomed :
                /\ bucket' = bucket \/ bucket' = Without(old)
                /\ job' = [job EXCEPT !.doomed = @ \ {old}]
                /\ old \in Int /\ Floor(old)
                /\ job.days > 0 => old + job.days <= job.name
                /\ \A name \in Int : Floor(name) => Floor(name)'
<1>1. job \in Jobs /\ job # None /\ job.op = "create" /\ job.step = "prune"
  BY DEF Delete, DeleteFails, Running, BucketInv, BackupTypeOK
<1>2. PICK old \in job.doomed : /\ bucket' = bucket \/ bucket' = Without(old)
                                /\ job' = [job EXCEPT !.doomed = @ \ {old}]
  BY DEF Delete, DeleteFails
<1>3. old \in Int /\ Floor(old) /\ (job.days > 0 => old + job.days <= job.name)
  BY <1>1 DEF PruneInv, Creating, Jobs
<1>4. ASSUME NEW name \in Int, Floor(name) PROVE Floor(name)'
  <2>1. CASE bucket' = bucket
    BY <1>4, <2>1 DEF Floor, Newer, Stored
  <2>2. CASE bucket' = Without(old)
    <3>1. Newer(name)' = {m \in Stored \ {old} : m > name}
      BY <2>2, WithoutIsBucket DEF Newer, Stored
    <3> QED
      BY <1>3, <1>4, <3>1, FloorStays DEF Floor
  <2> QED
    BY <1>2, <2>1, <2>2
<1> QED
  BY <1>1, <1>2, <1>3, <1>4

LEMMA CreateUploads ==
  BucketInv /\ ReadInv /\ UploadInv /\ PruneInv /\ CreateNext => UploadInv' /\ PruneInv'
<1> SUFFICES ASSUME BucketInv, ReadInv, UploadInv, PruneInv, CreateNext
             PROVE  UploadInv' /\ PruneInv'
  OBVIOUS
<1>a. job \in Jobs \cup {None} /\ Stored \subseteq Int
  BY DEF BucketInv, BackupTypeOK
<1>1. ASSUME NEW days \in Retentions, Create(days) PROVE UploadInv' /\ PruneInv'
  BY <1>1 DEF Create, Begin, NewJob, UploadInv, PruneInv
<1>2. CASE CheckFile \/ OpenFile \/ CopyFile \/ DumpDatabase
  <2>1. job'.step \in {"write", "open", "copy"}
    BY <1>a, <1>2 DEF CheckFile, OpenFile, CopyFile, DumpDatabase, Running, Jobs
  <2> QED
    BY <2>1 DEF UploadInv, PruneInv
<1>3. CASE WriteRefused \/ PutFails
  BY <1>3 DEF WriteRefused, PutFails, UploadInv, PruneInv, Creating
<1>4. CASE ArchiveWritten
  <2>1. job'.step = "put"
    BY <1>a, <1>4 DEF ArchiveWritten, Running, GoTo, Jobs
  <2> QED
    BY <2>1 DEF UploadInv, PruneInv
<1>5. CASE Put
  <2>1. job \in Jobs /\ job'.step = "list" /\ job'.name = job.name /\ job'.archive = job.archive
    BY <1>a, <1>5 DEF Put, Running, GoTo, Jobs
  <2>2. job.name \in Stored' /\ bucket'[job.name] = job.archive
    BY <1>5 DEF Put, Uploaded, Stored
  <2> QED
    BY <2>1, <2>2 DEF UploadInv, PruneInv
<1>6. CASE List
  <2>1. job \in Jobs /\ job # None /\ job.op = "create" /\ job.step = "list"
    BY <1>a, <1>6 DEF List, Running
  <2>2. /\ job'.name = job.name /\ job'.days = job.days /\ job'.archive = job.archive
        /\ job'.doomed = Prunable(job.days, job.name) /\ bucket' = bucket
    BY <1>6, <2>1 DEF List, Jobs
  <2>3. UploadInv'
    BY <2>1, <2>2 DEF UploadInv, Creating, Floor, Newer, Stored
  <2>4. \A name \in Prunable(job.days, job.name) :
            Floor(name) /\ (job.days > 0 => name + job.days <= job.name)
    <3> SUFFICES ASSUME NEW name \in Prunable(job.days, job.name)
                 PROVE  Floor(name) /\ (job.days > 0 => name + job.days <= job.name)
      OBVIOUS
    <3>1. name \in Int /\ job.days \in Nat /\ job.name \in Int
      BY <1>a, <2>1 DEF Prunable, Jobs
    <3> QED
      BY <3>1 DEF Prunable, Floor
  <2>5. PruneInv'
    BY <2>2, <2>4 DEF PruneInv, Floor, Newer, Stored
  <2> QED
    BY <2>3, <2>5
<1>7. CASE ListFails \/ Pruned
  <2>1. job \in Jobs /\ job # None /\ job.op = "create" /\ job.step \in {"list", "prune"}
    BY <1>a, <1>7 DEF ListFails, Pruned, Running
  <2>2. /\ job'.step = "done" /\ bucket' = bucket
        /\ job'.name = job.name /\ job'.days = job.days /\ job'.archive = job.archive
    BY <1>7, <2>1 DEF ListFails, Pruned, Done, GoTo, Jobs
  <2> QED
    BY <2>1, <2>2 DEF UploadInv, PruneInv, Creating, Floor, Newer, Stored
<1>8. CASE Delete \/ DeleteFails
  <2>1. job \in Jobs /\ job # None /\ job.op = "create" /\ job.step = "prune"
    BY <1>8, DeletionAllowed
  <2>2. PICK old \in job.doomed :
            /\ bucket' = bucket \/ bucket' = Without(old)
            /\ job' = [job EXCEPT !.doomed = @ \ {old}]
            /\ old \in Int /\ Floor(old)
            /\ job.days > 0 => old + job.days <= job.name
            /\ \A name \in Int : Floor(name) => Floor(name)'
    BY <1>8, DeletionAllowed
  <2>3. /\ job'.name = job.name /\ job'.days = job.days /\ job'.archive = job.archive
        /\ job'.doomed = job.doomed \ {old} /\ job.name \in Int /\ job.days \in Nat
        /\ job.doomed \subseteq Int
    BY <2>1, <2>2 DEF Jobs
  <2>4. PruneInv'
    BY <2>1, <2>2, <2>3 DEF PruneInv, Creating
  <2>5. ASSUME Floor(job.name), job.days = 0 PROVE UploadInv'
    <3>1. Cardinality({m \in DOMAIN bucket' : m > job.name}) >= KeepArchives
      BY <2>2, <2>3, <2>5 DEF Floor, Newer, Stored
    <3>2. (Floor(job.name) /\ job.days = 0)'
      BY <2>3, <2>5, <3>1 DEF Floor, Newer, Stored
    <3> QED
      BY <3>2 DEF UploadInv
  <2>6. ASSUME job.name \in Stored, bucket[job.name] = job.archive, old # job.name
        PROVE  UploadInv'
    <3>1. job.name \in DOMAIN bucket' /\ bucket'[job.name] = job.archive
      BY <2>2, <2>6 DEF Without, Stored
    <3>2. (job.name \in Stored /\ bucket[job.name] = job.archive)'
      BY <2>3, <3>1 DEF Stored
    <3> QED
      BY <3>2 DEF UploadInv
  <2>7. old = job.name => job.days = 0
    BY <2>2, <2>3
  <2>8. \/ Floor(job.name) /\ job.days = 0
        \/ job.name \in Stored /\ bucket[job.name] = job.archive
    BY <2>1 DEF UploadInv, Creating
  <2> QED
    BY <2>2, <2>4, <2>5, <2>6, <2>7, <2>8
<1> QED
  BY <1>1, <1>2, <1>3, <1>4, <1>5, <1>6, <1>7, <1>8 DEF CreateNext

\* No step of a create is part of a restore or a verification.
LEMMA CreateLeaves ==
  BucketInv /\ VerifyInv /\ CreateNext => RestoreInv' /\ VerifyInv'
<1> SUFFICES ASSUME BucketInv, VerifyInv, CreateNext PROVE RestoreInv' /\ VerifyInv'
  OBVIOUS
<1>a. job \in Jobs \cup {None}
  BY DEF BucketInv, BackupTypeOK
<1>1. job' = None \/ job'.op = "create"
  <2>1. ASSUME NEW days \in Retentions, Create(days) PROVE job'.op = "create"
    BY <2>1 DEF Create, Begin, NewJob
  <2>2. CASE \/ CheckFile \/ OpenFile \/ CopyFile \/ DumpDatabase \/ ArchiveWritten \/ Put
             \/ List \/ ListFails \/ Delete \/ DeleteFails \/ Pruned
    BY <1>a, <2>2 DEF CheckFile, OpenFile, CopyFile, DumpDatabase, ArchiveWritten, Put, List,
                      ListFails, Delete, DeleteFails, Pruned, Running, GoTo, Done, Jobs
  <2>3. CASE WriteRefused \/ PutFails
    BY <2>3 DEF WriteRefused, PutFails
  <2> QED
    BY <2>1, <2>2, <2>3 DEF CreateNext
<1>2. verified' = verified
  BY DEF CreateNext, Create, CheckFile, OpenFile, CopyFile, DumpDatabase, WriteRefused,
         ArchiveWritten, Put, PutFails, List, ListFails, Delete, DeleteFails, Pruned
<1> QED
  BY <1>1, <1>2 DEF RestoreInv, Restoring, VerifyInv, Recoverable
-----------------------------------------------------------------------------
(* Restores.                                                               *)

\* The steps of a restore, and the return of a command, leave no create behind.
LEMMA RestoreLeaves ==
  BucketInv /\ VerifyInv /\ (RestoreNext \/ Return) => ~Creating' /\ VerifyInv'
<1> SUFFICES ASSUME BucketInv, VerifyInv, RestoreNext \/ Return PROVE ~Creating' /\ VerifyInv'
  OBVIOUS
<1>a. job \in Jobs \cup {None}
  BY DEF BucketInv, BackupTypeOK
<1>1. job' = None \/ job'.op = "restore"
  <2>1. ASSUME NEW name \in 0 .. MaxClock, Restore(name) PROVE job'.op = "restore"
    BY <2>1 DEF Restore, Begin, NewJob
  <2>2. CASE \/ Download \/ CheckEntry \/ OpenTarget \/ CopyEntry
             \/ ReplayBegins \/ ReplayTable \/ Replayed \/ Restored
    BY <1>a, <2>2 DEF Download, CheckEntry, OpenTarget, CopyEntry, ReplayBegins, ReplayTable,
                      Replayed, Restored, Running, GoTo, Done, Jobs
  <2>3. CASE DownloadFails \/ OpenRefused \/ ApplyFails \/ Return
    BY <2>3 DEF DownloadFails, OpenRefused, ApplyFails, Return
  <2> QED
    BY <2>1, <2>2, <2>3 DEF RestoreNext
<1>2. verified' = verified
  BY DEF RestoreNext, Restore, Download, CheckEntry, OpenTarget, CopyEntry, ReplayBegins,
         ReplayTable, Replayed, Restored, DownloadFails, OpenRefused, ApplyFails, Return
<1> QED
  BY <1>1, <1>2 DEF Creating, VerifyInv, Recoverable

\* One part less to replace is one entry more behind the reader.
LEMMA PartCounted ==
  ASSUME NEW archive \in Archives, NEW todo \in SUBSET DOMAIN archive, NEW part \in todo
  PROVE  /\ Cardinality(DOMAIN archive \ todo) \in Nat
         /\ Cardinality(DOMAIN archive \ (todo \ {part})) = Cardinality(DOMAIN archive \ todo) + 1
<1>1. IsFiniteSet(DOMAIN archive \ todo)
  BY ArchiveFinite, FS_Subset
<1>2. DOMAIN archive \ (todo \ {part}) = (DOMAIN archive \ todo) \cup {part}
  OBVIOUS
<1> QED
  BY <1>1, <1>2, FS_AddElement, FS_CardinalityType

LEMMA CountedType ==
  ASSUME NEW archive \in Archives, NEW todo
  PROVE  Cardinality(DOMAIN archive \ todo) \in Nat
<1>1. IsFiniteSet(DOMAIN archive \ todo)
  BY ArchiveFinite, FS_Subset
<1> QED
  BY <1>1, FS_CardinalityType

LEMMA Begins ==
  ASSUME BucketInv, RestoreInv, SchemaInv, Download
  PROVE  RestoreInv'
<1>1. /\ job \in Jobs /\ job # None /\ job.op = "restore" /\ job.step = "download"
      /\ job.name \in Stored /\ bucket[job.name] \in Archives
  BY DEF Download, Running, BucketInv, BackupTypeOK
<1>2. /\ job'.op = "restore" /\ job'.step = "apply" /\ job'.before = job.before
      /\ job'.touched = job.touched /\ job'.todo = DOMAIN job'.archive /\ live' = live
      /\ job'.archive = bucket[job.name] /\ job'.entries = 1
  BY <1>1 DEF Download, Jobs
<1>3. \A p \in Parts : job.touched[p] = {} => live[p] = job.before[p]
  BY <1>1 DEF RestoreInv, Restoring
<1>4. Counted' = 1
  <2>1. Cardinality(DOMAIN job'.archive \ job'.todo) = 0
    <3>1. DOMAIN job'.archive \ job'.todo = {}
      BY <1>2
    <3> QED
      BY <3>1, FS_EmptySet
  <2> QED
    BY <1>2, <2>1 DEF Counted
<1>5. ASSUME NEW p \in Parts, job'.touched[p] = {}
      PROVE  /\ p \notin DOMAIN job'.archive => live'[p] = job'.before[p]
             /\ FileInv(p)' /\ DatabaseInv(p)'
  BY <1>2, <1>3, <1>5 DEF FileInv, DatabaseInv
<1> QED
  BY <1>2, <1>4, <1>5 DEF RestoreInv, Restoring, RestoreSteps

LEMMA FileReplaced ==
  ASSUME BucketInv, RestoreInv, SchemaInv, CheckEntry \/ OpenTarget \/ CopyEntry
  PROVE  RestoreInv'
<1>a. job \in Jobs \cup {None} /\ live \in [Parts -> Contents]
  BY DEF BucketInv, BackupTypeOK
<1>b. /\ job \in Jobs /\ job # None /\ job.op = "restore"
      /\ job.step = IF CheckEntry THEN "apply" ELSE IF OpenTarget THEN "open" ELSE "copy"
  BY <1>a DEF CheckEntry, OpenTarget, CopyEntry, Running
<1>c. /\ job.todo \subseteq DOMAIN job.archive /\ job.archive \in Archives
      /\ job.todo \subseteq Parts /\ job.entries \in Nat
      /\ job.entries = Counted /\ Restoring
  BY <1>b DEF RestoreInv, Restoring, Jobs
<1>g. Cardinality(DOMAIN job.archive \ job.todo) \in Nat
  BY <1>c, CountedType
<1>d. Files \cap Databases = {} /\ Files \subseteq Parts
  BY OneKind DEF Parts
<1>e. \A p \in Parts : job.touched[p] = {} =>
          /\ p \notin DOMAIN job.archive => live[p] = job.before[p]
          /\ p \in Files => FileInv(p)
          /\ p \in Databases => DatabaseInv(p)
  BY <1>c DEF RestoreInv
<1>1. CASE CheckEntry
  <2>1. PICK part \in job.todo \cap Files : NextPart(part) /\ live[part] # Link
    BY <1>1 DEF CheckEntry
  <2>2. /\ job'.op = "restore" /\ job'.step = "open" /\ job'.before = job.before
        /\ job'.touched = job.touched /\ job'.todo = job.todo /\ job'.archive = job.archive
        /\ job'.entries = job.entries + 1 /\ live' = live /\ job.step = "apply"
    BY <1>b, <1>1 DEF CheckEntry, Jobs
  <2>3. \A q : NextPart(q)' => NextPart(q) /\ q = part
    BY <1>b, <2>1, <2>2, OneNext DEF NextPart
  <2>4. job'.entries = Counted'
    BY <1>c, <1>g, <2>2 DEF Counted
  <2>5. ASSUME NEW p \in Parts, job'.touched[p] = {}
        PROVE  /\ p \notin DOMAIN job'.archive => live'[p] = job'.before[p]
               /\ p \in Files => FileInv(p)'
               /\ p \in Databases => DatabaseInv(p)'
    <3>1. p \in Files => FileInv(p)'
      BY <1>e, <2>1, <2>2, <2>3, <2>5 DEF FileInv
    <3>2. p \in Databases => DatabaseInv(p)'
      BY <1>e, <2>2, <2>5 DEF DatabaseInv, Rebuilt
    <3> QED
      BY <1>e, <2>2, <2>5, <3>1, <3>2
  <2> QED
    BY <1>c, <2>2, <2>4, <2>5 DEF RestoreInv, Restoring, RestoreSteps
<1>2. CASE OpenTarget
  <2>1. PICK part \in job.todo \cap Files :
            /\ NextPart(part)
            /\ live' = [live EXCEPT ![part] = IF @ = Link THEN Link ELSE Torn]
            /\ job' = [job EXCEPT !.step = "copy",
                                  !.opened = IF live[part] = Link THEN Foreign ELSE Torn]
    BY <1>2 DEF OpenTarget
  <2>0. job.step = "open"
    BY <1>2 DEF OpenTarget, Running
  <2>2. /\ job'.op = "restore" /\ job'.step = "copy" /\ job'.before = job.before
        /\ job'.touched = job.touched /\ job'.todo = job.todo /\ job'.archive = job.archive
        /\ job'.entries = job.entries
        /\ job'.opened = IF live[part] = Link THEN Foreign ELSE Torn
    BY <1>b, <2>1 DEF Jobs
  <2>3. \A q : NextPart(q)' => NextPart(q) /\ q = part
    BY <1>b, <2>1, <2>2, OneNext DEF NextPart
  <2>4. job'.entries = Counted'
    BY <1>c, <1>g, <2>0, <2>2 DEF Counted
  <2>5. /\ live'[part] = IF live[part] = Link THEN Link ELSE Torn
        /\ \A p \in Parts \ {part} : live'[p] = live[p]
    BY <1>a, <1>d, <2>1
  <2>6. ASSUME NEW p \in Parts, job'.touched[p] = {}
        PROVE  /\ p \notin DOMAIN job'.archive => live'[p] = job'.before[p]
               /\ p \in Files => FileInv(p)'
               /\ p \in Databases => DatabaseInv(p)'
    <3>1. p \in Files => FileInv(p)'
      BY <1>e, <2>0, <2>1, <2>2, <2>3, <2>5, <2>6 DEF FileInv
    <3>2. ASSUME p \in Databases PROVE DatabaseInv(p)'
      <4>1. p # part /\ ~NextPart(p)' /\ live'[p] = live[p]
        BY <1>d, <2>3, <2>5, <3>2
      <4> QED
        BY <1>e, <2>0, <2>2, <2>6, <3>2, <4>1 DEF DatabaseInv, Rebuilt
    <3>3. p \notin DOMAIN job'.archive => live'[p] = job'.before[p]
      BY <1>c, <1>e, <2>2, <2>5, <2>6
    <3> QED
      BY <3>1, <3>2, <3>3
  <2>7. \A d \in Databases : ~NextPart(d)'
    BY <1>d, <2>3
  <2> QED
    BY <1>c, <2>2, <2>4, <2>6, <2>7 DEF RestoreInv, Restoring, RestoreSteps
<1>3. CASE CopyEntry
  <2>0. job.step = "copy"
    BY <1>3 DEF CopyEntry, Running
  <2>1. PICK part \in job.todo \cap Files :
            /\ NextPart(part)
            /\ \E content \in Written(part) : live' = [live EXCEPT ![part] = content]
            /\ job' = [job EXCEPT !.step = "apply", !.todo = @ \ {part}]
    BY <1>3 DEF CopyEntry
  <2>2. /\ job'.op = "restore" /\ job'.step = "apply" /\ job'.before = job.before
        /\ job'.touched = job.touched /\ job'.todo = job.todo \ {part}
        /\ job'.archive = job.archive /\ job'.entries = job.entries
    BY <1>b, <2>1 DEF Jobs
  <2>3. job'.entries = Counted'
    <3>1. /\ Cardinality(DOMAIN job.archive \ job.todo) \in Nat
          /\ Cardinality(DOMAIN job.archive \ (job.todo \ {part}))
                 = Cardinality(DOMAIN job.archive \ job.todo) + 1
      BY <1>c, PartCounted
    <3> QED
      BY <1>c, <2>0, <2>2, <3>1 DEF Counted
  <2>4. \A p \in Parts \ {part} : live'[p] = live[p]
    BY <1>a, <2>1
  <2>5. \A d \in Databases : d # part /\ ~NextPart(d)
    BY <1>b, <1>d, <2>1, OneNext
  <2>6. job.touched[part] = {} => live'[part] = job.archive[part]
    <3> SUFFICES ASSUME job.touched[part] = {} PROVE live'[part] = job.archive[part]
      OBVIOUS
    <3>1. live[part] = Torn /\ job.opened = Torn
      BY <1>d, <1>e, <2>0, <2>1 DEF FileInv
    <3>2. Written(part) = {job.archive[part]}
      BY <3>1, BackupAssumption DEF Written
    <3> QED
      BY <1>a, <1>d, <2>1, <3>2
  <2>7. ASSUME NEW p \in Parts, job'.touched[p] = {}
        PROVE  /\ p \notin DOMAIN job'.archive => live'[p] = job'.before[p]
               /\ p \in Files => FileInv(p)'
               /\ p \in Databases => DatabaseInv(p)'
    <3>1. p \in Files => FileInv(p)'
      BY <1>e, <2>2, <2>4, <2>6, <2>7 DEF FileInv
    <3>2. ASSUME p \in Databases PROVE DatabaseInv(p)'
      <4>1. p # part /\ ~NextPart(p) /\ live'[p] = live[p]
        BY <2>4, <2>5, <3>2
      <4>2. Rebuilt(p, {})' = Rebuilt(p, {})
        BY <2>2 DEF Rebuilt
      <4>3. DatabaseInv(p) /\ job.touched[p] = {}
        BY <1>e, <2>2, <2>7, <3>2
      <4> QED
        BY <2>2, <4>1, <4>2, <4>3 DEF DatabaseInv
    <3>3. p \notin DOMAIN job'.archive => live'[p] = job'.before[p]
      BY <1>c, <1>e, <2>2, <2>4, <2>7
    <3> QED
      BY <3>1, <3>2, <3>3
  <2> QED
    BY <1>c, <2>2, <2>3, <2>7 DEF RestoreInv, Restoring, RestoreSteps
<1> QED
  BY <1>1, <1>2, <1>3

LEMMA DatabaseReplaced ==
  ASSUME BucketInv, RestoreInv, SchemaInv, ReplayBegins \/ ReplayTable \/ Replayed
  PROVE  RestoreInv'
<1>a. job \in Jobs \cup {None} /\ live \in [Parts -> Contents]
  BY DEF BucketInv, BackupTypeOK
<1>b. job \in Jobs /\ job # None /\ job.op = "restore" /\ job.step # "download"
  BY <1>a DEF ReplayBegins, ReplayTable, Replayed, Running
<1>c. /\ job.todo \subseteq DOMAIN job.archive /\ job.archive \in Archives
      /\ job.todo \subseteq Parts /\ job.entries \in Nat
      /\ job.entries = Counted /\ Restoring
  BY <1>b DEF RestoreInv, Restoring, Jobs
<1>g. Cardinality(DOMAIN job.archive \ job.todo) \in Nat
  BY <1>c, CountedType
<1>d. Files \cap Databases = {} /\ Databases \subseteq Parts
  BY OneKind DEF Parts
<1>e. \A p \in Parts : job.touched[p] = {} =>
          /\ p \notin DOMAIN job.archive => live[p] = job.before[p]
          /\ p \in Files => FileInv(p)
          /\ p \in Databases => DatabaseInv(p)
  BY <1>c DEF RestoreInv
<1>f. \A d \in Databases : /\ live[d] \in Schemas \cup {None}
                           /\ job.before[d] \in Schemas \cup {None}
  BY <1>b DEF SchemaInv
<1>1. CASE ReplayBegins
  <2>0. job.step = "apply"
    BY <1>1 DEF ReplayBegins, Running
  <2>1. PICK part \in job.todo \cap Databases :
            /\ NextPart(part)
            /\ live' = [live EXCEPT ![part] = IF @ = None THEN NoTables ELSE @]
            /\ job' = [job EXCEPT !.step = "copy", !.entries = @ + 1,
                                  !.tables = {t \in Tables : job.archive[part][t] # None}]
    BY <1>1 DEF ReplayBegins
  <2>2. /\ job'.op = "restore" /\ job'.step = "copy" /\ job'.before = job.before
        /\ job'.touched = job.touched /\ job'.todo = job.todo /\ job'.archive = job.archive
        /\ job'.entries = job.entries + 1
        /\ job'.tables = {t \in Tables : job.archive[part][t] # None}
    BY <1>b, <2>1 DEF Jobs
  <2>3. \A q : NextPart(q)' => NextPart(q) /\ q = part
    BY <1>b, <2>1, <2>2, OneNext DEF NextPart
  <2>4. job'.entries = Counted'
    BY <1>c, <1>g, <2>0, <2>2 DEF Counted
  <2>5. /\ live'[part] = IF live[part] = None THEN NoTables ELSE live[part]
        /\ \A p \in Parts \ {part} : live'[p] = live[p]
    BY <1>a, <1>d, <2>1
  <2>6. live'[part] \in Schemas /\ \A t \in job'.tables : job'.archive[part][t] # None
    BY <1>f, <2>2, <2>5 DEF NoTables, Schemas
  <2>7. job.touched[part] = {} => live'[part] = Rebuilt(part, job.tables)'
    <3> SUFFICES ASSUME job.touched[part] = {}
                 PROVE  live'[part] = Rebuilt(part, job.tables)'
      OBVIOUS
    <3>1. live[part] = job.before[part]
      BY <1>d, <1>e, <2>0, <2>1 DEF DatabaseInv
    <3>2. Rebuilt(part, job.tables)' =
              [t \in Tables |-> IF job.before[part] = None THEN None ELSE job.before[part][t]]
      BY <2>2 DEF Rebuilt
    <3>3. CASE live[part] = None
      BY <2>5, <3>1, <3>2, <3>3 DEF NoTables
    <3>4. CASE live[part] # None
      <4>1. live[part] \in Schemas
        BY <1>f, <3>4
      <4>2. live[part] = [t \in Tables |-> live[part][t]]
        BY <4>1 DEF Schemas
      <4> QED
        BY <2>5, <3>1, <3>2, <3>4, <4>2
    <3> QED
      BY <3>3, <3>4
  <2>8. NextPart(part)'
    BY <2>1, <2>2 DEF NextPart
  <2>9. ASSUME NEW p \in Parts, job'.touched[p] = {}
        PROVE  /\ p \notin DOMAIN job'.archive => live'[p] = job'.before[p]
               /\ p \in Files => FileInv(p)'
               /\ p \in Databases => DatabaseInv(p)'
    <3>1. p \in Files => FileInv(p)'
      BY <1>d, <1>e, <2>2, <2>3, <2>5, <2>9 DEF FileInv
    <3>2. CASE p = part
      BY <1>c, <1>d, <2>1, <2>2, <2>7, <2>8, <2>9, <3>2 DEF DatabaseInv
    <3>3. ASSUME p # part, p \in Databases PROVE DatabaseInv(p)'
      <4>1. ~NextPart(p)' /\ live'[p] = live[p]
        BY <2>3, <2>5, <3>3
      <4> QED
        BY <1>e, <2>0, <2>2, <2>9, <3>3, <4>1 DEF DatabaseInv, Rebuilt
    <3>4. p \notin DOMAIN job'.archive => live'[p] = job'.before[p]
      BY <1>c, <1>e, <2>2, <2>5, <2>9
    <3> QED
      BY <1>d, <2>1, <3>1, <3>2, <3>3, <3>4
  <2> QED
    BY <1>c, <2>2, <2>3, <2>4, <2>6, <2>9 DEF RestoreInv, Restoring, RestoreSteps
<1>2. CASE ReplayTable
  <2>0. job.step = "copy" /\ Running("restore", "copy")
    BY <1>2 DEF ReplayTable, Running
  <2>1. PICK part \in job.todo \cap Databases, t \in job.tables :
            /\ NextPart(part)
            /\ live' = [live EXCEPT ![part] = [@ EXCEPT ![t] = job.archive[part][t]]]
            /\ job' = [job EXCEPT !.tables = @ \ {t}]
    BY <1>2 DEF ReplayTable
  <2>2. /\ job'.op = "restore" /\ job'.step = "copy" /\ job'.before = job.before
        /\ job'.touched = job.touched /\ job'.todo = job.todo /\ job'.archive = job.archive
        /\ job'.entries = job.entries /\ job'.tables = job.tables \ {t} /\ job'.opened = job.opened
    BY <1>b, <2>0, <2>1 DEF Jobs
  <2>3. \A q : NextPart(q)' => NextPart(q) /\ q = part
    BY <1>b, <2>1, <2>2, OneNext DEF NextPart
  <2>4. job'.entries = Counted'
    BY <1>c, <1>g, <2>0, <2>2 DEF Counted
  <2>5. /\ live[part] \in Schemas /\ job.archive[part] \in Schemas
        /\ t \in Tables /\ job.archive[part][t] # None
        /\ [live[part] EXCEPT ![t] = job.archive[part][t]] \in Schemas
    BY <1>b, <2>0, <2>1, TableReplayed
  <2>6. /\ live'[part] = [live[part] EXCEPT ![t] = job.archive[part][t]]
        /\ \A p \in Parts \ {part} : live'[p] = live[p]
    BY <1>a, <1>d, <2>1
  <2>7. \A u \in job'.tables : job'.archive[part][u] # None
    BY <1>c, <2>0, <2>1, <2>2 DEF RestoreInv
  <2>8. job.touched[part] = {} => live'[part] = Rebuilt(part, job.tables)'
    <3> SUFFICES ASSUME job.touched[part] = {}
                 PROVE  live'[part] = Rebuilt(part, job.tables)'
      OBVIOUS
    <3>1. live[part] = Rebuilt(part, job.tables)
      BY <1>d, <1>e, <2>0, <2>1 DEF DatabaseInv
    <3>2. live'[part] = [u \in Tables |-> IF u = t THEN job.archive[part][t] ELSE live[part][u]]
      BY <2>5, <2>6 DEF Schemas
    <3>3. \A u \in Tables : live'[part][u] = Rebuilt(part, job.tables)'[u]
      BY <2>2, <2>5, <3>1, <3>2 DEF Rebuilt
    <3> QED
      BY <3>2, <3>3 DEF Rebuilt
  <2>9. NextPart(part)'
    BY <2>1, <2>2 DEF NextPart
  <2>10. ASSUME NEW p \in Parts, job'.touched[p] = {}
        PROVE  /\ p \notin DOMAIN job'.archive => live'[p] = job'.before[p]
               /\ p \in Files => FileInv(p)'
               /\ p \in Databases => DatabaseInv(p)'
    <3>1. p \in Files => FileInv(p)'
      BY <1>d, <1>e, <2>2, <2>3, <2>6, <2>10 DEF FileInv
    <3>2. CASE p = part
      BY <1>c, <1>d, <2>1, <2>2, <2>8, <2>9, <2>10, <3>2 DEF DatabaseInv
    <3>3. ASSUME p # part, p \in Databases PROVE DatabaseInv(p)'
      <4>1. ~NextPart(p)' /\ ~NextPart(p) /\ live'[p] = live[p]
        BY <1>b, <2>1, <2>3, <2>6, <3>3, OneNext
      <4>2. Rebuilt(p, {})' = Rebuilt(p, {})
        BY <2>2 DEF Rebuilt
      <4>3. DatabaseInv(p) /\ job.touched[p] = {}
        BY <1>e, <2>2, <2>10, <3>3
      <4> QED
        BY <2>2, <4>1, <4>2, <4>3 DEF DatabaseInv
    <3>4. p \notin DOMAIN job'.archive => live'[p] = job'.before[p]
      BY <1>c, <1>e, <2>2, <2>6, <2>10
    <3> QED
      BY <1>d, <2>1, <3>1, <3>2, <3>3, <3>4
  <2> QED
    BY <1>c, <2>2, <2>3, <2>4, <2>5, <2>6, <2>7, <2>10 DEF RestoreInv, Restoring, RestoreSteps
<1>3. CASE Replayed
  <2>0. job.step = "copy" /\ job.tables = {} /\ live' = live
    BY <1>3 DEF Replayed, Running
  <2>1. PICK part \in job.todo \cap Databases :
            NextPart(part) /\ job' = [job EXCEPT !.step = "apply", !.todo = @ \ {part}]
    BY <1>3 DEF Replayed
  <2>2. /\ job'.op = "restore" /\ job'.step = "apply" /\ job'.before = job.before
        /\ job'.touched = job.touched /\ job'.todo = job.todo \ {part}
        /\ job'.archive = job.archive /\ job'.entries = job.entries
    BY <1>b, <2>1 DEF Jobs
  <2>3. job'.entries = Counted'
    <3>1. /\ Cardinality(DOMAIN job.archive \ job.todo) \in Nat
          /\ Cardinality(DOMAIN job.archive \ (job.todo \ {part}))
                 = Cardinality(DOMAIN job.archive \ job.todo) + 1
      BY <1>c, PartCounted
    <3> QED
      BY <1>c, <2>0, <2>2, <3>1 DEF Counted
  <2>4. ASSUME NEW p \in Parts, job'.touched[p] = {}
        PROVE  /\ p \notin DOMAIN job'.archive => live'[p] = job'.before[p]
               /\ p \in Files => FileInv(p)'
               /\ p \in Databases => DatabaseInv(p)'
    <3>1. p \in Files => FileInv(p)'
      BY <1>d, <1>e, <2>0, <2>1, <2>2, <2>4 DEF FileInv
    <3>2. ASSUME p = part PROVE DatabaseInv(p)'
      <4>1. live[p] = Rebuilt(p, {})
        BY <1>d, <1>e, <2>0, <2>1, <2>2, <2>4, <3>2 DEF DatabaseInv
      <4>2. Rebuilt(p, {})' = Rebuilt(p, {})
        BY <2>2 DEF Rebuilt
      <4> QED
        BY <2>0, <2>2, <3>2, <4>1, <4>2 DEF DatabaseInv
    <3>3. ASSUME p # part, p \in Databases PROVE DatabaseInv(p)'
      <4>1. ~NextPart(p)
        BY <1>b, <2>1, <3>3, OneNext
      <4> QED
        BY <1>e, <2>0, <2>2, <2>4, <3>3, <4>1 DEF DatabaseInv, Rebuilt
    <3>4. p \notin DOMAIN job'.archive => live'[p] = job'.before[p]
      BY <1>e, <2>0, <2>2, <2>4
    <3> QED
      BY <1>d, <2>1, <3>1, <3>2, <3>3, <3>4
  <2> QED
    BY <1>c, <2>2, <2>3, <2>4 DEF RestoreInv, Restoring, RestoreSteps
<1> QED
  BY <1>1, <1>2, <1>3

LEMMA RestoreReplaces ==
  BucketInv /\ SchemaInv /\ RestoreInv /\ (RestoreNext \/ Return) => RestoreInv'
<1> SUFFICES ASSUME BucketInv, SchemaInv, RestoreInv, RestoreNext \/ Return PROVE RestoreInv'
  OBVIOUS
<1>a. job \in Jobs \cup {None}
  BY DEF BucketInv, BackupTypeOK
<1>1. ASSUME NEW name \in 0 .. MaxClock, Restore(name) PROVE RestoreInv'
  <2>1. /\ job'.op = "restore" /\ job'.step = "download" /\ job'.archive = Empty
        /\ job'.todo = {} /\ job'.before = live /\ live' = live
    BY <1>1 DEF Restore, Begin, NewJob
  <2> QED
    BY <2>1, EmptyIsArchive DEF RestoreInv, Restoring, RestoreSteps, FileInv, DatabaseInv
<1>2. CASE DownloadFails \/ OpenRefused \/ ApplyFails \/ Return
  BY <1>2 DEF DownloadFails, OpenRefused, ApplyFails, Return, RestoreInv, Restoring
<1>3. CASE Restored
  <2>1. job \in Jobs /\ job # None /\ job.op = "restore" /\ job.step = "apply" /\ job.todo = {}
    BY <1>a, <1>3 DEF Restored, Running
  <2>2. /\ job'.op = "restore" /\ job'.step = "done" /\ job'.before = job.before
        /\ job'.touched = job.touched /\ job'.todo = job.todo /\ job'.archive = job.archive
        /\ job'.entries = job.entries /\ live' = live
    BY <1>3, <2>1 DEF Restored, Done, GoTo, Jobs
  <2>3. job'.entries = Counted'
    BY <2>1, <2>2 DEF RestoreInv, Restoring, Counted
  <2>4. ASSUME NEW p \in Parts, job'.touched[p] = {}
        PROVE  /\ p \notin DOMAIN job'.archive => live'[p] = job'.before[p]
               /\ p \in Files => FileInv(p)'
               /\ p \in Databases => DatabaseInv(p)'
    BY <2>1, <2>2, <2>4 DEF RestoreInv, Restoring, FileInv, DatabaseInv, Rebuilt
  <2> QED
    BY <2>1, <2>2, <2>3, <2>4 DEF RestoreInv, Restoring, RestoreSteps
<1> QED
  BY <1>1, <1>2, <1>3, Begins, FileReplaced, DatabaseReplaced DEF RestoreNext
-----------------------------------------------------------------------------
(* Verify and the rest of the host.                                        *)

\* Steps that leave the site, the bucket and the command as they are.
LEMMA NothingMoves ==
  ASSUME ReadInv /\ UploadInv /\ PruneInv /\ RestoreInv, UNCHANGED <<live, recorded, bucket, job>>
  PROVE  ReadInv' /\ UploadInv' /\ PruneInv' /\ RestoreInv'
<1>1. ReadInv'
  BY DEF ReadInv, ReadingInv, Creating, Whole, ContentsSeen, NextPart
<1>2. UploadInv' /\ PruneInv'
  BY DEF UploadInv, PruneInv, Creating, Floor, Newer, Stored
<1>3. RestoreInv'
  BY DEF RestoreInv, Restoring, NextPart, Counted, FileInv, DatabaseInv, Rebuilt
<1> QED
  BY <1>1, <1>2, <1>3

LEMMA VerifyKeeps ==
  BackupInv /\ VerifyNext => ReadInv' /\ UploadInv' /\ PruneInv' /\ RestoreInv' /\ VerifyInv'
<1> SUFFICES ASSUME BackupInv, VerifyNext
             PROVE  ReadInv' /\ UploadInv' /\ PruneInv' /\ RestoreInv' /\ VerifyInv'
  OBVIOUS
<1>1. UNCHANGED <<live, recorded, bucket, clock, job>>
  BY DEF VerifyNext, VerifyList, Inspect, VerifyFails
<1>2. ReadInv' /\ UploadInv' /\ PruneInv' /\ RestoreInv'
  BY <1>1, NothingMoves DEF BackupInv
<1>3. VerifyInv'
  <2>1. CASE VerifyList \/ VerifyFails
    BY <2>1 DEF VerifyList, VerifyFails, BackupInv, VerifyInv, Recoverable
  <2>2. CASE Inspect
    BY <2>2 DEF Inspect, BackupInv, VerifyInv, Recoverable
  <2> QED
    BY <2>1, <2>2 DEF VerifyNext
<1> QED
  BY <1>2, <1>3

\* Somebody else's write is recorded in the command's history, and changes
\* nothing else of it.
LEMMA WriteKeeps ==
  ASSUME BackupInv, NEW part \in Parts, NEW content \in Contents, Change(part, content),
         UNCHANGED <<recorded, bucket, verified>> \/ job = None,
         job # None /\ part \in Databases => content \in Schemas
  PROVE  ReadInv' /\ UploadInv' /\ PruneInv' /\ RestoreInv'
<1>a. job \in Jobs \cup {None} /\ live \in [Parts -> Contents]
  BY DEF BackupInv, BucketInv, BackupTypeOK
<1>1. CASE job = None
  <2>1. job' = None
    BY <1>1 DEF Change, Touched
  <2> QED
    BY <2>1 DEF ReadInv, UploadInv, PruneInv, RestoreInv, Creating, Restoring
<1>2. CASE job # None
  <2>1. job \in Jobs /\ job' = [job EXCEPT !.touched[part] = @ \cup {content}]
    BY <1>a, <1>2 DEF Change, Touched
  <2>2. live' = [live EXCEPT ![part] = content] /\ recorded' = recorded /\ bucket' = bucket
    BY <1>2 DEF Change
  <2>3. /\ job'.op = job.op /\ job'.step = job.step /\ job'.name = job.name
        /\ job'.days = job.days /\ job'.todo = job.todo /\ job'.archive = job.archive
        /\ job'.doomed = job.doomed /\ job'.before = job.before /\ job'.opened = job.opened
        /\ job'.entries = job.entries /\ job'.tables = job.tables
        /\ job'.touched = [job.touched EXCEPT ![part] = @ \cup {content}]
    BY <2>1 DEF Jobs
  <2>4. job.touched \in [Parts -> SUBSET Contents] /\ job.archive \in Archives /\ job.todo \subseteq Parts
    BY <2>1 DEF Jobs
  <2>5. \A p \in Parts : /\ p # part => job'.touched[p] = job.touched[p] /\ live'[p] = live[p]
                         /\ job'.touched[part] = job.touched[part] \cup {content}
                         /\ live'[part] = content
    BY <1>a, <2>2, <2>3, <2>4
  <2>6. \A p \in Parts : ContentsSeen(p) \subseteq ContentsSeen(p)'
    BY <2>3, <2>5 DEF ContentsSeen
  <2>a. \A p \in Parts : job.touched[p] \subseteq job'.touched[p]
    BY <2>5
  <2>7. ReadInv'
    <3> SUFFICES ASSUME Creating' PROVE ReadInv'
      BY DEF ReadInv
    <3>1. Creating
      BY <1>2, <2>3 DEF Creating
    <3>2. \A p \in Parts : live'[p] \in ContentsSeen(p)'
      BY <2>3, <2>5, <2>6, <3>1 DEF BackupInv, ReadInv, ContentsSeen
    <3>3. DOMAIN job.archive \subseteq Parts /\ Files \subseteq Parts
      BY <2>4, ArchiveDomain DEF Parts
    <3>4. \A p \in DOMAIN job'.archive : Whole(job.archive, p)'
      <4> SUFFICES ASSUME NEW p \in DOMAIN job.archive PROVE Whole(job.archive, p)'
        BY <2>3
      <4>1. Whole(job.archive, p) /\ p \in Parts
        BY <3>1, <3>3 DEF BackupInv, ReadInv
      <4>2. job.touched[p] \subseteq job'.touched[p]
        BY <2>a, <4>1
      <4> QED
        BY <2>3, <2>6, <4>1, <4>2 DEF Whole
    <3>5. \A f \in Files \ (DOMAIN job'.archive \cup job'.todo) : None \in ContentsSeen(f)'
      BY <2>3, <2>6, <3>1, <3>3 DEF BackupInv, ReadInv
    <3>6. ASSUME job'.step \in {"open", "copy"}, NEW f \in Files, NextPart(f)'
          PROVE  ReadingInv(f)'
      <4>1. NextPart(f) /\ job.step \in {"open", "copy"} /\ f \in Parts
        BY <2>3, <3>3, <3>6 DEF NextPart
      <4>2. ReadingInv(f)
        BY <3>1, <4>1 DEF BackupInv, ReadInv
      <4>3. job.touched[f] \subseteq job'.touched[f] /\ ContentsSeen(f) \subseteq ContentsSeen(f)'
        BY <2>6, <2>a, <4>1
      <4>4. live'[f] = live[f] \/ live'[f] \in job'.touched[f]
        BY <2>5, <4>1
      <4> QED
        BY <2>3, <4>2, <4>3, <4>4 DEF ReadingInv
    <3> QED
      BY <2>2, <2>3, <3>1, <3>2, <3>4, <3>5, <3>6 DEF BackupInv, ReadInv
  <2>8. UploadInv' /\ PruneInv'
    BY <1>2, <2>2, <2>3 DEF BackupInv, UploadInv, PruneInv, Creating, Floor, Newer, Stored
  <2>9. RestoreInv'
    <3> SUFFICES ASSUME job'.op = "restore" PROVE RestoreInv'
      BY DEF RestoreInv, Restoring
    <3>1. RestoreInv /\ Restoring
      BY <1>2, <2>3 DEF BackupInv, Restoring
    <3>2. \A q : NextPart(q)' <=> NextPart(q)
      BY <2>3 DEF NextPart
    <3>3. ASSUME NEW p \in Parts, job'.touched[p] = {}
          PROVE  /\ p \notin DOMAIN job'.archive => live'[p] = job'.before[p]
                 /\ p \in Files => FileInv(p)'
                 /\ p \in Databases => DatabaseInv(p)'
      <4>1. p # part
        BY <2>5, <3>3
      <4>2. live'[p] = live[p] /\ job.touched[p] = {}
        BY <2>5, <3>3, <4>1
      <4>3. /\ p \notin DOMAIN job.archive => live[p] = job.before[p]
            /\ p \in Files => FileInv(p)
            /\ p \in Databases => DatabaseInv(p)
        BY <3>1, <4>2 DEF RestoreInv
      <4>4. p \in Files => FileInv(p)'
        BY <2>3, <3>2, <4>2, <4>3 DEF FileInv
      <4>5. p \in Databases => DatabaseInv(p)'
        BY <2>3, <3>2, <4>2, <4>3 DEF DatabaseInv, Rebuilt
      <4> QED
        BY <2>3, <4>2, <4>3, <4>4, <4>5
    <3>4. ASSUME job'.step = "copy", NEW d \in Databases, NextPart(d)'
          PROVE  live'[d] \in Schemas /\ \A t \in job'.tables : job'.archive[d][t] # None
      <4>1. /\ live[d] \in Schemas /\ d \in Parts
            /\ \A t \in job.tables : job.archive[d][t] # None
        BY <2>3, <3>1, <3>2, <3>4 DEF RestoreInv, Parts
      <4>2. live'[d] \in Schemas
        BY <1>2, <2>5, <3>4, <4>1
      <4> QED
        BY <2>3, <4>1, <4>2
    <3>5. Counted' = Counted
      BY <2>3 DEF Counted
    <3> QED
      BY <2>3, <3>1, <3>3, <3>4, <3>5 DEF RestoreInv, Restoring
  <2> QED
    BY <2>7, <2>8, <2>9
<1> QED
  BY <1>1, <1>2

LEMMA HostKeeps ==
  BackupInv /\ HostNext => ReadInv' /\ UploadInv' /\ PruneInv' /\ RestoreInv' /\ VerifyInv'
<1> SUFFICES ASSUME BackupInv, HostNext
             PROVE  ReadInv' /\ UploadInv' /\ PruneInv' /\ RestoreInv' /\ VerifyInv'
  OBVIOUS
<1>a. live \in [Parts -> Contents] /\ recorded \subseteq Databases /\ BucketInv /\ SchemaInv
  BY DEF BackupInv, BucketInv, BackupTypeOK
<1>b. Databases \subseteq Parts
  BY DEF Parts
<1>1. VerifyInv'
  <2>1. verified' = verified
    BY DEF HostNext, SiteWrites, CreateDatabase, DeleteDatabase, Tick, ClockSetBack, Crash
  <2> QED
    BY <2>1 DEF BackupInv, VerifyInv, Recoverable
<1>2. CASE SiteWrites
  <2>1. PICK part \in Parts, content \in Contents :
            Change(part, content) /\ (part \in Databases => content \in Schemas)
    BY <1>a, <1>2, SiteChange
  <2>2. UNCHANGED <<recorded, bucket, verified>>
    BY <1>2 DEF SiteWrites
  <2> QED
    BY <1>1, <2>1, <2>2, WriteKeeps
<1>3. CASE CreateDatabase
  <2>1. PICK d \in Databases : Change(d, IF live[d] = None THEN NoTables ELSE live[d])
    BY <1>3 DEF CreateDatabase
  <2>2. (IF live[d] = None THEN NoTables ELSE live[d]) \in Contents
    BY <1>a, <1>b DEF Contents, Schemas, NoTables
  <2>3. job = None
    BY <1>3 DEF CreateDatabase
  <2> QED
    BY <1>1, <1>b, <2>1, <2>2, <2>3, WriteKeeps
<1>4. CASE DeleteDatabase
  <2>1. PICK d \in recorded : Change(d, None)
    BY <1>4 DEF DeleteDatabase
  <2>2. d \in Parts /\ None \in Contents /\ job = None
    BY <1>a, <1>b, <1>4 DEF DeleteDatabase, Contents, FileContents
  <2> QED
    BY <1>1, <2>1, <2>2, WriteKeeps
<1>5. CASE Tick \/ ClockSetBack
  <2>1. UNCHANGED <<live, recorded, bucket, job>>
    BY <1>5 DEF Tick, ClockSetBack
  <2> QED
    BY <1>1, <2>1, NothingMoves DEF BackupInv
<1>6. CASE Crash
  <2>1. job' = None
    BY <1>6 DEF Crash
  <2> QED
    BY <1>1, <2>1 DEF ReadInv, UploadInv, PruneInv, RestoreInv, Creating, Restoring
<1> QED
  BY <1>2, <1>3, <1>4, <1>5, <1>6 DEF HostNext
-----------------------------------------------------------------------------
(* The inductive invariant.                                                *)

LEMMA BackupInvInit == BackupInit => BackupInv
<1> SUFFICES ASSUME BackupInit PROVE BackupInv
  OBVIOUS
<1>1. Stored = {} /\ IsFiniteSet(Stored)
  BY FS_EmptySet DEF BackupInit, Stored
<1>2. NoTables \in Schemas /\ 0 \in Contents /\ None \in Contents /\ Schemas \subseteq Contents
  BY DEF Contents, FileContents, NoTables, Schemas
<1>3. live \in [Parts -> Contents]
  BY <1>2 DEF BackupInit
<1>4. BackupTypeOK
  BY <1>1, <1>3, EmptyIsArchive DEF BackupInit, BackupTypeOK
<1>5. job = None /\ DOMAIN verified = {}
  BY EmptyIsArchive DEF BackupInit
<1>6. \A d \in Databases : live[d] \in Schemas \cup {None}
  BY <1>2, OneKind DEF BackupInit, Parts
<1> QED
  BY <1>1, <1>4, <1>5, <1>6 DEF BackupInv, BucketInv, SchemaInv, ReadInv, UploadInv, PruneInv,
                                RestoreInv, VerifyInv, Creating, Restoring

LEMMA BackupStep == BackupInv /\ [BackupNext]_backupVars => BackupInv'
<1> SUFFICES ASSUME BackupInv, [BackupNext]_backupVars PROVE BackupInv'
  OBVIOUS
<1>a. /\ BucketInv /\ SchemaInv /\ ReadInv /\ UploadInv /\ PruneInv /\ RestoreInv
      /\ VerifyInv
  BY DEF BackupInv
<1>1. CASE CreateNext
  <2>1. BucketInv'
    BY <1>a, <1>1, CreateTypes
  <2>2. SchemaInv'
    BY <1>1, <2>1, SchemaStep DEF BackupNext
  <2> QED
    BY <1>a, <1>1, <2>1, <2>2, CreateReads, CreateUploads, CreateLeaves DEF BackupInv
<1>2. CASE RestoreNext \/ Return
  <2>1. BucketInv' /\ RestoreInv' /\ VerifyInv' /\ ~Creating'
    BY <1>a, <1>2, RestoreTypes, RestoreReplaces, RestoreLeaves
  <2>2. ReadInv' /\ UploadInv' /\ PruneInv'
    BY <2>1 DEF ReadInv, UploadInv, PruneInv
  <2>3. SchemaInv'
    BY <1>2, <2>1, SchemaStep DEF BackupNext
  <2> QED
    BY <2>1, <2>2, <2>3 DEF BackupInv
<1>3. CASE VerifyNext \/ HostNext
  <2>1. BucketInv'
    BY <1>a, <1>3, HostTypes
  <2>2. SchemaInv'
    BY <1>3, <2>1, SchemaStep DEF BackupNext
  <2> QED
    BY <1>3, <2>1, <2>2, VerifyKeeps, HostKeeps DEF BackupInv
<1>4. CASE UNCHANGED backupVars
  <2>1. BucketInv'
    BY <1>a, <1>4 DEF backupVars, BucketInv, BackupTypeOK, Stored
  <2>2. ReadInv' /\ UploadInv' /\ PruneInv' /\ RestoreInv'
    BY <1>a, <1>4, NothingMoves DEF backupVars
  <2>3. SchemaInv' /\ VerifyInv'
    BY <1>a, <1>4 DEF backupVars, SchemaInv, Stored, VerifyInv, Recoverable
  <2> QED
    BY <2>1, <2>2, <2>3 DEF BackupInv
<1> QED
  BY <1>1, <1>2, <1>3, <1>4 DEF BackupNext

LEMMA BackupInvHolds == BackupSpec => []BackupInv
<1> QED
  BY BackupInvInit, BackupStep, PTL DEF BackupSpec
-----------------------------------------------------------------------------
(* The theorems.                                                           *)

\* Whatever the site's visitors write, whichever requests to the bucket fail,
\* are applied unanswered or are cut short by a crash, and however the clock
\* is set, a create that returns an archive has stored all of the site under
\* its name; what a link led to is in it only if somebody put the link in the
\* place of a file while the command ran (Create, writeArchive, prune).
THEOREM CompleteBackups == BackupSpec => []BackupComplete
<1>1. BackupInv => BackupComplete
  <2> SUFFICES ASSUME BackupInv, Running("create", "done") PROVE BackupComplete
    BY DEF BackupComplete
  <2>1. Creating /\ job.step = "done"
    BY DEF Running, Creating
  <2>2. \/ Floor(job.name) /\ job.days = 0
        \/ job.name \in Stored /\ bucket[job.name] = job.archive
    BY <2>1 DEF BackupInv, UploadInv
  <2>3. job.todo = {}
    BY <2>1 DEF BackupInv, ReadInv
  <2>4. /\ \A p \in DOMAIN job.archive : Whole(job.archive, p)
        /\ \A f \in Files \ DOMAIN job.archive : None \in ContentsSeen(f)
        /\ recorded \subseteq DOMAIN job.archive
    BY <2>1, <2>3 DEF BackupInv, ReadInv
  <2> QED
    BY <2>2, <2>4 DEF BackupComplete, Floor
<1> QED
  BY <1>1, BackupInvHolds, PTL

\* A restore that returns without an error has given every file of the archive
\* its archived content and every database the archived tables, with the tables
\* that the dump does not have as they were, and left every other part alone,
\* whatever failed or was restored half way before it (applyArchive).
THEOREM ExactRestores == BackupSpec => []RestoreExact
<1>1. BackupInv => RestoreExact
  <2> SUFFICES ASSUME BackupInv, Running("restore", "done"),
                      NEW p \in Parts, job.touched[p] = {}
               PROVE  live[p] = CASE p \notin DOMAIN job.archive -> job.before[p]
                                  [] p \in DOMAIN job.archive /\ p \in Files -> job.archive[p]
                                  [] p \in DOMAIN job.archive /\ p \in Databases ->
                                        Merged(job.archive[p], job.before[p])
    BY DEF RestoreExact
  <2>1. Restoring /\ RestoreInv /\ job.todo = {}
    BY DEF Running, BackupInv, RestoreInv, Restoring
  <2>2. /\ p \notin DOMAIN job.archive => live[p] = job.before[p]
        /\ p \in Files => FileInv(p)
        /\ p \in Databases => DatabaseInv(p)
    BY <2>1 DEF RestoreInv
  <2>3. p \in Files \/ p \in Databases
    BY DEF Parts
  <2>4. ~(p \in Files /\ p \in Databases)
    BY OneKind
  <2>5. CASE p \notin DOMAIN job.archive
    BY <2>2, <2>5
  <2>6. CASE p \in DOMAIN job.archive /\ p \in Files
    BY <2>1, <2>2, <2>4, <2>6 DEF FileInv
  <2>7. CASE p \in DOMAIN job.archive /\ p \in Databases
    <3>1. live[p] = Rebuilt(p, {})
      BY <2>1, <2>2, <2>7 DEF DatabaseInv
    <3>2. Rebuilt(p, {}) = Merged(job.archive[p], job.before[p])
      BY DEF Rebuilt, Merged
    <3> QED
      BY <2>4, <2>7, <3>1, <3>2
  <2> QED
    BY <2>3, <2>5, <2>6, <2>7
<1> QED
  BY <1>1, BackupInvHolds, PTL

\* The limits never stop, with the site half replaced, the restore of an archive
\* that Verify found recoverable, for any limit: the entries counted so far and
\* the manifest are no more than those of the archive (inspectArchive,
\* applyArchive).
THEOREM VerifiedRestores == BackupSpec => []VerifiedRestorable
<1>1. BackupInv => VerifiedRestorable
  <2> SUFFICES ASSUME BackupInv, BeyondLimits, job.archive = verified PROVE FALSE
    BY DEF VerifiedRestorable
  <2>1. /\ Restoring /\ job.step = "apply" /\ job.todo # {} /\ job.entries >= MaxEntries
        /\ job \in Jobs
    BY DEF BeyondLimits, Running, Restoring, BackupInv, BucketInv, BackupTypeOK
  <2>2. job.todo \subseteq DOMAIN verified /\ verified \in Archives
    BY <2>1 DEF BackupInv, RestoreInv, Jobs
  <2>3. job.entries = 1 + Cardinality(DOMAIN verified \ job.todo)
    <3>1. Cardinality(DOMAIN verified \ job.todo) \in Nat
      BY <2>2, CountedType
    <3> QED
      BY <2>1, <3>1 DEF BackupInv, RestoreInv, Counted
  <2>4. Cardinality(DOMAIN verified) + 1 <= MaxEntries
    BY <2>1, <2>2 DEF BackupInv, VerifyInv, Recoverable
  <2>5. PICK part \in job.todo : TRUE
    BY <2>1
  <2>6. /\ IsFiniteSet(DOMAIN verified \ {part})
        /\ Cardinality(DOMAIN verified \ {part}) = Cardinality(DOMAIN verified) - 1
        /\ Cardinality(DOMAIN verified) \in Nat
    BY <2>2, <2>5, ArchiveFinite, FS_RemoveElement, FS_CardinalityType
  <2>7. /\ Cardinality(DOMAIN verified \ job.todo) <= Cardinality(DOMAIN verified \ {part})
        /\ Cardinality(DOMAIN verified \ job.todo) \in Nat
    <3>1. DOMAIN verified \ job.todo \subseteq DOMAIN verified \ {part}
      BY <2>5
    <3> QED
      BY <2>2, <2>6, <3>1, FS_Subset, CountedType
  <2> QED
    BY <2>1, <2>3, <2>4, <2>6, <2>7, BackupAssumption
<1> QED
  BY <1>1, BackupInvHolds, PTL

\* No deletion, made by a plan with any window or by the clock being set back,
\* leaves fewer than keepArchives archives newer than the deleted one, or takes
\* one inside the window (prune).
THEOREM RetentionHolds == BackupSpec => RetentionKept
<1> DEFINE Deleted(name) ==
        /\ Cardinality({m \in DOMAIN bucket' : m > name}) >= KeepArchives
        /\ job.days > 0 => name + job.days <= job.name
<1>1. BackupInv /\ [BackupNext]_backupVars =>
          [\A name \in Stored \ DOMAIN bucket' : Deleted(name)]_backupVars
  <2> SUFFICES ASSUME BackupInv, BackupNext, NEW name \in Stored \ DOMAIN bucket'
               PROVE  Deleted(name)
    OBVIOUS
  <2>a. BucketInv /\ PruneInv
    BY DEF BackupInv
  <2>1. CASE Delete \/ DeleteFails
    <3>1. PICK old \in job.doomed :
              /\ bucket' = bucket \/ bucket' = Without(old)
              /\ old \in Int /\ Floor(old)
              /\ job.days > 0 => old + job.days <= job.name
              /\ \A n \in Int : Floor(n) => Floor(n)'
      BY <2>a, <2>1, DeletionAllowed
    <3>2. name = old
      BY <3>1 DEF Without, Stored
    <3>3. Floor(old)'
      BY <3>1
    <3> QED
      BY <3>1, <3>2, <3>3 DEF Floor, Newer, Stored
  <2>2. CASE Put \/ PutFails
    <3>1. bucket' = bucket \/ bucket' = Uploaded
      BY <2>2 DEF Put, PutFails
    <3> QED
      BY <3>1 DEF Uploaded, Stored
  <2>3. CASE ~(Delete \/ DeleteFails \/ Put \/ PutFails)
    <3>1. bucket' = bucket
      BY <2>3 DEF BackupNext, CreateNext, RestoreNext, VerifyNext, HostNext, Create, CheckFile,
             OpenFile, CopyFile, DumpDatabase, WriteRefused, ArchiveWritten, List, ListFails, Pruned,
             Restore, Download, DownloadFails, CheckEntry, OpenTarget, CopyEntry, ReplayBegins,
             ReplayTable, Replayed, OpenRefused, ApplyFails, Restored, Return,
             VerifyList, Inspect, VerifyFails, SiteWrites, CreateDatabase, DeleteDatabase,
             Tick, ClockSetBack, Crash
    <3> QED
      BY <3>1, SMTT(30) DEF Stored
  <2> QED
    BY <2>1, <2>2, <2>3
<1> QED
  BY <1>1, BackupInvHolds, PTL DEF BackupSpec, RetentionKept
=============================================================================
