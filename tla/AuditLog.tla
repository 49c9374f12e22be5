------------------------------ MODULE AuditLog -------------------------------
(***************************************************************************)
(* internal/audit: the NDJSON trail of executed commands, an active file   *)
(* and its rotations, each of which may be missing.                        *)
(*                                                                         *)
(* A write is known by its serial number: files hold the numbers of the    *)
(* writes that reached them, complete records or the beginning of one.     *)
(* Record keeps its mutex from the first step to the last, so one call is  *)
(* in progress at a time; each of its steps may fail, and the process may  *)
(* die between any two.                                                    *)
(***************************************************************************)
EXTENDS Naturals

CONSTANTS
    MaxFiles,       \* Logger.maxFiles: rotations kept beside the active file
    LogBytes,       \* Logger.maxBytes
    MaxWrites       \* bound: writes in a behaviour

ASSUME AuditAssumption ==
    /\ MaxFiles \in Nat
    /\ LogBytes \in Nat \ {0}
    /\ MaxWrites \in Nat

VARIABLES
    logs,           \* logs[0] is the active file, logs[i] is <path>.i
    size,           \* the length of each file
    recording,      \* the call of Record in progress
    written,        \* history: the number of writes that reached a file
    blind           \* history: the writes whose file could not be measured

auditVars == <<logs, size, recording, written, blind>>

Slots == 0 .. MaxFiles

NotRecording == [step |-> "idle", index |-> 0, bytes |-> 0]

Steps == {"idle", "stat", "rename", "syncDirectory", "write", "blindWrite", "sync"}

AuditTypeOK ==
    /\ logs \in [Slots -> SUBSET Nat]
    /\ size \in [Slots -> Nat]
    /\ recording \in [step: Steps, index: Nat, bytes: Nat]
    /\ written \in Nat
    /\ blind \subseteq Nat

\* New: an empty active file.
AuditInit ==
    /\ logs = [i \in Slots |-> {}]
    /\ size = [i \in Slots |-> 0]
    /\ recording = NotRecording
    /\ written = 0
    /\ blind = {}
-----------------------------------------------------------------------------
At(step) == recording.step = step

GoTo(step, index) ==
    recording' = [recording EXCEPT !.step = step, !.index = index]

\* Record's encoding and the check of a single event against the limit: the
\* larger one is rejected before the file is opened.
Record(bytes) ==
    /\ At("idle")
    /\ written < MaxWrites
    /\ bytes <= LogBytes
    /\ recording' = [step |-> "stat", index |-> 0, bytes |-> bytes]
    /\ UNCHANGED <<logs, size, written, blind>>

\* Mutant: the event is not counted when the active file is measured.
StatIgnoresEvent ==
    /\ At("stat")
    /\ IF size[0] > LogBytes
       THEN GoTo("rename", MaxFiles) ELSE GoTo("write", 0)
    /\ UNCHANGED <<logs, size, written, blind>>

\* The active file is opened and measured: it is rotated when the event would
\* take it past the limit.
Stat ==
    /\ At("stat")
    /\ IF size[0] + recording.bytes > LogBytes
       THEN GoTo("rename", MaxFiles) ELSE GoTo("write", 0)
    /\ UNCHANGED <<logs, size, written, blind>>

\* file.Stat fails: the size check is skipped, and the event is written to the
\* active file whatever its length.
StatFails ==
    /\ At("stat")
    /\ GoTo("blindWrite", 0)
    /\ UNCHANGED <<logs, size, written, blind>>

\* os.Rename replaces the next file; a missing one is no error and leaves it.
\* A file that is renamed is never empty: the active one has been measured.
Moved(f, i, gone) ==
    IF logs[i - 1] = {} THEN f
    ELSE [f EXCEPT ![i] = f[i - 1], ![i - 1] = gone]

\* Mutant: the rotations are renamed from the newest to the oldest.
RenameUpwards ==
    LET i == MaxFiles + 1 - recording.index
    IN  /\ At("rename") /\ recording.index > 0
        /\ logs' = Moved(logs, i, {})
        /\ size' = Moved(size, i, 0)
        /\ GoTo("rename", recording.index - 1)
        /\ UNCHANGED <<written, blind>>

\* rotate from the oldest rotation down: <path>.i-1 becomes <path>.i, and the
\* active file <path>.1 last.
Rename ==
    LET i == recording.index
    IN  /\ At("rename") /\ i > 0
        /\ logs' = Moved(logs, i, {})
        /\ size' = Moved(size, i, 0)
        /\ GoTo("rename", i - 1)
        /\ UNCHANGED <<written, blind>>

\* The end of the renames.  Without rotations the active file is truncated;
\* the removal of <path>.maxFiles+1, which no rotation makes, does nothing.
Renamed ==
    /\ At("rename") /\ recording.index = 0
    /\ IF MaxFiles = 0
       THEN logs' = [logs EXCEPT ![0] = {}] /\ size' = [size EXCEPT ![0] = 0]
       ELSE UNCHANGED <<logs, size>>
    /\ GoTo("syncDirectory", 0)
    /\ UNCHANGED <<written, blind>>

\* The directory is synced and the active file opened anew.
SyncDirectory ==
    /\ At("syncDirectory")
    /\ GoTo("write", 0)
    /\ UNCHANGED <<logs, size, written, blind>>

\* Bytes reach the active file: all of the event, or the beginning of it.
AppendBytes(bytes) ==
    /\ logs' = [logs EXCEPT ![0] = @ \cup {written + 1}]
    /\ size' = [size EXCEPT ![0] = @ + bytes]
    /\ written' = written + 1
    /\ blind' = IF At("blindWrite") THEN blind \cup {written + 1} ELSE blind

Writing == At("write") \/ At("blindWrite")

Write ==
    /\ Writing
    /\ AppendBytes(recording.bytes)
    /\ GoTo("sync", 0)

\* file.Sync, and Record returns without an error.
Sync ==
    /\ At("sync")
    /\ recording' = NotRecording
    /\ UNCHANGED <<logs, size, written, blind>>

\* A step fails, or the process dies: Record is over and what it did stays.
RecordFails ==
    /\ ~At("idle")
    /\ recording' = NotRecording
    /\ UNCHANGED <<logs, size, written, blind>>

\* The write ends half way: the disk is full, or the machine stops.
WriteTorn ==
    /\ Writing
    /\ \E bytes \in 1 .. recording.bytes - 1 : AppendBytes(bytes)
    /\ recording' = NotRecording

AuditNext ==
    \/ \E bytes \in 1 .. LogBytes : Record(bytes)
    \/ Stat \/ StatFails \/ Rename \/ Renamed \/ SyncDirectory \/ Write \/ Sync
    \/ RecordFails \/ WriteTorn

AuditSpec == AuditInit /\ [][AuditNext]_auditVars
-----------------------------------------------------------------------------
Kept == UNION {logs[i] : i \in Slots}

\* The files, oldest rotation first, are an unbroken tail of everything ever
\* written: whichever rename a rotation failed or died at, and however often
\* it is taken up again, no later one mixes the order up or drops a record
\* while an older one is kept (rotate).
TrailUnbroken ==
    /\ \A i, j \in Slots : i < j =>
          \A x \in logs[i], y \in logs[j] : y < x
    /\ \A x \in Kept : \A y \in x .. written : y \in Kept

\* A file past the limit ends with an event whose file could not be measured.
\* Such events are the only ones that take a file past it, a rotation that
\* failed included, and the first event that finds the file measured again goes
\* to a new one: nothing is appended behind a measurement that says the file
\* is full (the size check of Record and the rotation before its write).
TrailBounded ==
    \A i \in Slots : size[i] > LogBytes =>
        \E x \in logs[i] : x \in blind /\ \A y \in logs[i] : y <= x
=============================================================================
