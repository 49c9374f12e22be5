---------------------------- MODULE UpkeepProofs -----------------------------
(***************************************************************************)
(* What the daemon keeps up beside its commands: the audit log and its own *)
(* binary.  Neither knows of the other.                                    *)
(*                                                                         *)
(* The audit trail is unbroken and bounded for every number of rotations,  *)
(* every limit and every sequence of failures.  TrailUnbroken alone is not *)
(* inductive: a rename drops what its target holds.  The invariant adds    *)
(* why that is harmless: but for the oldest rotation, the target of a      *)
(* rename is empty, because the rename before has just moved its contents  *)
(* or found none.                                                          *)
(***************************************************************************)
EXTENDS AuditLog, SelfUpdate, TLAPS

\* A file that is missing or empty has no bytes.
EmptyHasNoBytes == \A i \in Slots : logs[i] = {} => size[i] = 0

\* Where a rotation stands: the slot the next rename fills is free.
RotationPoint ==
    /\ recording.bytes <= LogBytes
    /\ At("idle") \/ recording.bytes > 0
    /\ At("rename") => recording.index <= MaxFiles
    /\ At("rename") /\ recording.index < MaxFiles => logs[recording.index] = {}
    /\ At("syncDirectory") => logs[0] = {}

\* The event that is about to be written to a measured file fits.
WriteFits == At("write") => size[0] + recording.bytes <= LogBytes

SerialsInRange == \A i \in Slots : \A x \in logs[i] : x \in 1 .. written

AuditInv ==
    /\ AuditTypeOK
    /\ SerialsInRange
    /\ TrailUnbroken
    /\ TrailBounded
    /\ EmptyHasNoBytes
    /\ RotationPoint
    /\ WriteFits

\* The empty log of New has all parts of the invariant.
LEMMA InitAudit == AuditInit => AuditInv
  BY AuditAssumption
  DEF AuditInit, AuditInv, AuditTypeOK, SerialsInRange, TrailUnbroken, Kept, TrailBounded,
      EmptyHasNoBytes, RotationPoint, WriteFits, At, NotRecording, Slots, Steps

\* The types that the steps below calculate with.
LEMMA Types ==
  ASSUME AuditInv
  PROVE  /\ MaxFiles \in Nat /\ LogBytes \in Nat /\ written \in Nat
         /\ recording.index \in Nat /\ recording.bytes \in Nat
         /\ recording.bytes <= LogBytes
         /\ 0 \in Slots
  BY AuditAssumption DEF AuditInv, AuditTypeOK, RotationPoint, Slots

\* What GoTo leaves of the call in progress.
LEMMA GoToFields ==
  ASSUME AuditInv, NEW s \in Steps, NEW n \in Nat, GoTo(s, n)
  PROVE  /\ recording' \in [step: Steps, index: Nat, bytes: Nat]
         /\ recording'.step = s /\ recording'.index = n
         /\ recording'.bytes = recording.bytes
  BY DEF AuditInv, AuditTypeOK, GoTo

\* The steps that leave the files alone: Record, Stat, SyncDirectory, Sync
\* and every failure.
LEMMA FilesKept ==
  ASSUME AuditInv, UNCHANGED <<logs, size, written, blind>>
  PROVE  SerialsInRange' /\ TrailUnbroken' /\ TrailBounded' /\ EmptyHasNoBytes'
  BY DEF AuditInv, SerialsInRange, TrailUnbroken, Kept, TrailBounded, EmptyHasNoBytes

\* One rename: the slot it fills was the oldest one, or empty.
LEMMA RenameKeeps ==
  ASSUME AuditInv, Rename
  PROVE  AuditInv'
<1> DEFINE i == recording.index
<1>1. i \in 1 .. MaxFiles /\ i - 1 \in Slots /\ i \in Slots /\ At("rename")
  <2>1. i > 0 /\ At("rename") BY DEF Rename
  <2>2. i <= MaxFiles BY <2>1 DEF AuditInv, RotationPoint
  <2> QED BY <2>1, <2>2, Types DEF Slots
<1>2. i < MaxFiles => logs[i] = {}
  BY <1>1 DEF AuditInv, RotationPoint
<1>3a. /\ recording' \in [step: Steps, index: Nat, bytes: Nat]
       /\ recording'.step = "rename" /\ recording'.index = i - 1
       /\ recording'.bytes = recording.bytes
  <2>1. GoTo("rename", i - 1) /\ i - 1 \in Nat /\ "rename" \in Steps
    BY <1>1, Types DEF Rename, Steps
  <2> QED BY <2>1, GoToFields
<1>3. CASE logs[i - 1] = {}
  <2>1. UNCHANGED <<logs, size, written, blind>>
    BY <1>3 DEF Rename, Moved
  <2>2. AuditTypeOK'
    BY <1>3a, <2>1 DEF AuditInv, AuditTypeOK
  <2>3. RotationPoint' /\ WriteFits'
    BY <1>1, <1>3, <1>3a, <2>1, Types DEF AuditInv, RotationPoint, WriteFits, At
  <2> QED BY <2>1, <2>2, <2>3, FilesKept DEF AuditInv
<1>4. CASE logs[i - 1] # {}
  <2>1. /\ logs' = [logs EXCEPT ![i] = logs[i - 1], ![i - 1] = {}]
        /\ size' = [size EXCEPT ![i] = size[i - 1], ![i - 1] = 0]
        /\ written' = written /\ blind' = blind
    BY <1>4 DEF Rename, Moved
  <2>2. \A k \in Slots : /\ logs'[k] = IF k = i THEN logs[i - 1]
                                       ELSE IF k = i - 1 THEN {} ELSE logs[k]
                         /\ size'[k] = IF k = i THEN size[i - 1]
                                       ELSE IF k = i - 1 THEN 0 ELSE size[k]
    BY <1>1, <2>1 DEF AuditInv, AuditTypeOK, Slots
  <2>3. AuditTypeOK'
    <3>1. logs' \in [Slots -> SUBSET Nat]
      BY <1>1, <2>1 DEF AuditInv, AuditTypeOK
    <3>2. size' \in [Slots -> Nat]
      BY <1>1, <2>1 DEF AuditInv, AuditTypeOK
    <3> QED BY <1>3a, <2>1, <3>1, <3>2 DEF AuditInv, AuditTypeOK
  <2>4. SerialsInRange' /\ TrailBounded' /\ EmptyHasNoBytes'
    <3>1. SerialsInRange'
      BY <1>1, <2>1, <2>2 DEF AuditInv, SerialsInRange
    <3>2. TrailBounded'
      <4> SUFFICES ASSUME NEW k \in Slots, size'[k] > LogBytes
                   PROVE  \E x \in logs'[k] : x \in blind' /\ \A y \in logs'[k] : y <= x
        BY DEF TrailBounded
      <4>1. k # i - 1 BY <1>1, <2>2, Types
      <4>2. PICK j \in Slots : logs'[k] = logs[j] /\ size'[k] = size[j]
        BY <1>1, <2>2, <4>1
      <4> QED BY <2>1, <4>2 DEF AuditInv, TrailBounded
    <3>3. EmptyHasNoBytes'
      BY <1>1, <2>2 DEF AuditInv, EmptyHasNoBytes
    <3> QED BY <3>1, <3>2, <3>3
  <2>5. RotationPoint' /\ WriteFits'
    BY <1>1, <1>3a, <2>2, Types DEF AuditInv, RotationPoint, WriteFits, At
  <2>6. \A j, k \in Slots : j < k => \A x \in logs'[j], y \in logs'[k] : y < x
    <3> SUFFICES ASSUME NEW j \in Slots, NEW k \in Slots, j < k,
                        NEW x \in logs'[j], NEW y \in logs'[k]
                 PROVE  y < x
      OBVIOUS
    <3>1. j \in Nat /\ k \in Nat BY AuditAssumption DEF Slots
    <3>2. j # i - 1 /\ k # i - 1
      BY <1>1, <2>2, <3>1
    <3>3. CASE k = i
      BY <1>1, <2>2, <3>1, <3>2, <3>3 DEF AuditInv, TrailUnbroken
    <3>4. CASE k # i
      BY <1>1, <2>2, <3>1, <3>2, <3>4 DEF AuditInv, TrailUnbroken
    <3> QED BY <3>3, <3>4
  <2>7. ASSUME NEW x \in Kept', NEW y \in x .. written'
        PROVE  y \in Kept'
    <3>1. PICK k \in Slots : x \in logs'[k]
      BY DEF Kept
    <3>2. PICK j \in Slots : x \in logs[j] /\ (j = i - 1 \/ (j # i /\ j # i - 1))
      BY <1>1, <2>2, <3>1
    <3>3. y \in Kept
      BY <2>1, <2>7, <3>2 DEF AuditInv, TrailUnbroken, Kept
    <3>4. PICK l \in Slots : y \in logs[l]
      BY <3>3 DEF Kept
    <3>5. l # i
      <4> SUFFICES ASSUME l = i PROVE FALSE OBVIOUS
      <4>1. i = MaxFiles
        BY <1>1, <1>2, <3>4, Types
      <4>2. j < i
        BY <1>1, <3>2, <4>1, AuditAssumption DEF Slots
      <4>3. y < x
        BY <1>1, <3>2, <3>4, <4>2 DEF AuditInv, TrailUnbroken
      <4>4. x \in Nat
        BY <3>2 DEF AuditInv, AuditTypeOK
      <4>5. y \in Nat
        BY <3>4 DEF AuditInv, AuditTypeOK
      <4> QED BY <2>7, <4>3, <4>4, <4>5
    <3>6. y \in logs'[IF l = i - 1 THEN i ELSE l]
      BY <1>1, <2>2, <3>4, <3>5
    <3> QED BY <1>1, <3>6 DEF Kept
  <2> QED BY <2>3, <2>4, <2>5, <2>6, <2>7 DEF AuditInv, TrailUnbroken
<1> QED BY <1>3, <1>4

\* The end of the renames: without rotations everything goes at once.
LEMMA RenamedKeeps ==
  ASSUME AuditInv, Renamed
  PROVE  AuditInv'
<1>0. /\ recording' \in [step: Steps, index: Nat, bytes: Nat]
      /\ recording'.step = "syncDirectory" /\ recording'.bytes = recording.bytes
      /\ At("rename")
  <2>1. GoTo("syncDirectory", 0) /\ "syncDirectory" \in Steps /\ At("rename")
    BY DEF Renamed, Steps
  <2> QED BY <2>1, GoToFields
<1>1. CASE MaxFiles = 0
  <2>1. Slots = {0} BY <1>1 DEF Slots
  <2>2. /\ logs' = [logs EXCEPT ![0] = {}] /\ size' = [size EXCEPT ![0] = 0]
        /\ written' = written /\ blind' = blind
    BY <1>1 DEF Renamed
  <2>3. logs'[0] = {} /\ size'[0] = 0
    BY <2>1, <2>2 DEF AuditInv, AuditTypeOK
  <2>4. AuditTypeOK'
    BY <1>0, <2>1, <2>2 DEF AuditInv, AuditTypeOK
  <2>5. SerialsInRange' /\ TrailUnbroken' /\ EmptyHasNoBytes'
    BY <2>1, <2>3 DEF SerialsInRange, TrailUnbroken, Kept, EmptyHasNoBytes
  <2>6. TrailBounded'
    BY <2>1, <2>3, AuditAssumption DEF TrailBounded
  <2>7. RotationPoint' /\ WriteFits'
    BY <1>0, <2>3, Types DEF AuditInv, RotationPoint, WriteFits, At
  <2> QED BY <2>4, <2>5, <2>6, <2>7 DEF AuditInv
<1>2. CASE MaxFiles # 0
  <2>1. UNCHANGED <<logs, size, written, blind>>
    BY <1>2 DEF Renamed
  <2>2. logs[0] = {}
    BY <1>2, AuditAssumption DEF Renamed, AuditInv, RotationPoint
  <2>3. AuditTypeOK'
    BY <1>0, <2>1 DEF AuditInv, AuditTypeOK
  <2>4. RotationPoint' /\ WriteFits'
    BY <1>0, <2>1, <2>2, Types DEF AuditInv, RotationPoint, WriteFits, At
  <2> QED BY <2>1, <2>3, <2>4, FilesKept DEF AuditInv
<1> QED BY <1>1, <1>2

\* Bytes at the end of the active file, a whole event or less of it.
LEMMA AppendKeeps ==
  ASSUME AuditInv, Writing, NEW bytes \in 1 .. recording.bytes, AppendBytes(bytes),
         recording' \in [step: Steps, index: Nat, bytes: Nat],
         \/ recording'.step = "idle"
         \/ recording'.step = "sync" /\ recording'.bytes > 0,
         recording'.bytes <= LogBytes
  PROVE  AuditInv'
<1>1. /\ 0 \in Slots /\ Slots \subseteq Nat /\ LogBytes \in Nat
      /\ written \in Nat /\ recording.bytes \in Nat /\ bytes \in Nat
  BY AuditAssumption DEF AuditInv, AuditTypeOK, Slots
<1>2. \A k \in Slots :
        /\ logs'[k] = IF k = 0 THEN logs[0] \cup {written + 1} ELSE logs[k]
        /\ size'[k] = IF k = 0 THEN size[0] + bytes ELSE size[k]
  BY <1>1 DEF AppendBytes, AuditInv, AuditTypeOK
<1>3. written' = written + 1
  BY DEF AppendBytes
<1>4. AuditTypeOK'
  <2>1. logs' \in [Slots -> SUBSET Nat]
    BY <1>1 DEF AppendBytes, AuditInv, AuditTypeOK
  <2>2. size' \in [Slots -> Nat]
    BY <1>1 DEF AppendBytes, AuditInv, AuditTypeOK
  <2>3. blind' \subseteq Nat
    BY <1>1 DEF AppendBytes, AuditInv, AuditTypeOK
  <2> QED BY <1>1, <1>3, <2>1, <2>2, <2>3 DEF AuditTypeOK
<1>5. SerialsInRange'
  BY <1>1, <1>2, <1>3 DEF AuditInv, AuditTypeOK, SerialsInRange
<1>6. TrailBounded'
  <2> SUFFICES ASSUME NEW k \in Slots, size'[k] > LogBytes
               PROVE  \E x \in logs'[k] : x \in blind' /\ \A y \in logs'[k] : y <= x
    BY DEF TrailBounded
  <2>1. CASE k # 0
    <3>1. blind \subseteq blind' BY DEF AppendBytes
    <3>2. logs'[k] = logs[k] /\ size[k] > LogBytes BY <1>2, <2>1
    <3> QED BY <3>1, <3>2 DEF AuditInv, TrailBounded
  <2>2. CASE k = 0
    <3>1. At("blindWrite")
      BY <1>1, <1>2, <2>2 DEF AuditInv, AuditTypeOK, WriteFits, Writing
    <3>2. written + 1 \in blind' /\ written + 1 \in logs'[k]
      BY <1>2, <2>2, <3>1 DEF AppendBytes
    <3>3. \A y \in logs'[k] : y <= written + 1
      BY <1>1, <1>2, <2>2 DEF AuditInv, SerialsInRange
    <3> QED BY <3>2, <3>3
  <2> QED BY <2>1, <2>2
<1>6a. EmptyHasNoBytes'
  BY <1>1, <1>2 DEF AuditInv, EmptyHasNoBytes
<1>7. RotationPoint' /\ WriteFits'
  BY DEF RotationPoint, WriteFits, At
<1>8. \A j, k \in Slots : j < k => \A x \in logs'[j], y \in logs'[k] : y < x
  <2> SUFFICES ASSUME NEW j \in Slots, NEW k \in Slots, j < k,
                      NEW x \in logs'[j], NEW y \in logs'[k]
               PROVE  y < x
    OBVIOUS
  <2>1. k # 0 /\ y \in logs[k] /\ y \in 1 .. written
    BY <1>1, <1>2 DEF AuditInv, SerialsInRange
  <2>2. x \in logs[j] \/ x = written + 1
    BY <1>2
  <2> QED BY <1>1, <2>1, <2>2 DEF AuditInv, TrailUnbroken
<1>9. ASSUME NEW x \in Kept', NEW y \in x .. written'
      PROVE  y \in Kept'
  <2>1. written + 1 \in Kept'
    BY <1>1, <1>2 DEF Kept
  <2>2. \A z \in Kept : z \in Kept'
    BY <1>2 DEF Kept
  <2>3. CASE y = written + 1
    BY <2>1, <2>3
  <2>4. CASE y # written + 1
    <3>1. PICK k \in Slots : x \in logs'[k] BY DEF Kept
    <3>2. x \in Nat BY <1>4, <3>1 DEF AuditTypeOK
    <3>3. x # written + 1 /\ y \in x .. written
      BY <1>1, <1>3, <1>9, <2>4, <3>2
    <3>4. x \in Kept BY <1>2, <3>1, <3>3 DEF Kept
    <3> QED BY <2>2, <3>3, <3>4 DEF AuditInv, TrailUnbroken
  <2> QED BY <2>3, <2>4
<1> QED BY <1>4, <1>5, <1>6, <1>6a, <1>7, <1>8, <1>9 DEF AuditInv, TrailUnbroken

\* Every step of Record, and every way it ends, keeps the invariant.
LEMMA StepAudit == AuditInv /\ [AuditNext]_auditVars => AuditInv'
<1> SUFFICES ASSUME AuditInv, [AuditNext]_auditVars PROVE AuditInv'
  OBVIOUS
<1>1. ASSUME NEW bytes \in 1 .. LogBytes, Record(bytes) PROVE AuditInv'
  <2>1. AuditTypeOK' /\ RotationPoint' /\ WriteFits'
    BY <1>1, AuditAssumption
    DEF Record, AuditInv, AuditTypeOK, RotationPoint, WriteFits, At, Steps
  <2> QED BY <1>1, <2>1, FilesKept DEF Record, AuditInv
<1>2. CASE Stat
  <2>0. UNCHANGED <<logs, size, written, blind>> /\ At("stat") /\ size[0] \in Nat
    BY <1>2, Types DEF Stat, AuditInv, AuditTypeOK
  <2>1. CASE size[0] + recording.bytes > LogBytes
    <3>1. GoTo("rename", MaxFiles) /\ "rename" \in Steps
      BY <1>2, <2>1 DEF Stat, Steps
    <3>2. AuditTypeOK'
      BY <2>0, <3>1, GoToFields, Types DEF AuditInv, AuditTypeOK
    <3>3. RotationPoint' /\ WriteFits'
      BY <2>0, <3>1, GoToFields, Types DEF AuditInv, RotationPoint, WriteFits, At
    <3> QED BY <2>0, <3>2, <3>3, FilesKept DEF AuditInv
  <2>2. CASE ~(size[0] + recording.bytes > LogBytes)
    <3>1. GoTo("write", 0) /\ "write" \in Steps
      BY <1>2, <2>2 DEF Stat, Steps
    <3>2. AuditTypeOK'
      BY <2>0, <3>1, GoToFields DEF AuditInv, AuditTypeOK
    <3>3. RotationPoint' /\ WriteFits'
      BY <2>0, <2>2, <3>1, GoToFields, Types DEF AuditInv, RotationPoint, WriteFits, At
    <3> QED BY <2>0, <3>2, <3>3, FilesKept DEF AuditInv
  <2> QED BY <2>1, <2>2
<1>2a. CASE StatFails
  <2>1. /\ GoTo("blindWrite", 0) /\ "blindWrite" \in Steps /\ At("stat")
        /\ UNCHANGED <<logs, size, written, blind>>
    BY <1>2a DEF StatFails, Steps
  <2>2. AuditTypeOK'
    BY <2>1, GoToFields DEF AuditInv, AuditTypeOK
  <2>3. RotationPoint' /\ WriteFits'
    BY <2>1, GoToFields, Types DEF AuditInv, RotationPoint, WriteFits, At
  <2> QED BY <2>1, <2>2, <2>3, FilesKept DEF AuditInv
<1>3. CASE SyncDirectory
  <2>1. size[0] = 0
    BY <1>3, AuditAssumption DEF SyncDirectory, AuditInv, RotationPoint, EmptyHasNoBytes, Slots
  <2>2. /\ GoTo("write", 0) /\ "write" \in Steps /\ At("syncDirectory")
        /\ UNCHANGED <<logs, size, written, blind>>
    BY <1>3 DEF SyncDirectory, Steps
  <2>3. AuditTypeOK'
    BY <2>2, GoToFields DEF AuditInv, AuditTypeOK
  <2>4. RotationPoint' /\ WriteFits'
    BY <2>1, <2>2, GoToFields, Types DEF AuditInv, RotationPoint, WriteFits, At
  <2> QED BY <2>2, <2>3, <2>4, FilesKept DEF AuditInv
<1>4. CASE Sync \/ RecordFails
  <2>1. recording' = NotRecording /\ UNCHANGED <<logs, size, written, blind>>
    BY <1>4 DEF Sync, RecordFails
  <2>2. /\ recording' \in [step: Steps, index: Nat, bytes: Nat]
        /\ recording'.step = "idle" /\ recording'.bytes = 0
    BY <2>1 DEF NotRecording, Steps
  <2>3. AuditTypeOK'
    BY <2>1, <2>2 DEF AuditInv, AuditTypeOK
  <2>4. RotationPoint' /\ WriteFits'
    BY <2>2, AuditAssumption DEF RotationPoint, WriteFits, At
  <2> QED BY <2>1, <2>3, <2>4, FilesKept DEF AuditInv
<1>5. CASE Write
  <2>1. /\ GoTo("sync", 0) /\ "sync" \in Steps /\ Writing
        /\ AppendBytes(recording.bytes)
    BY <1>5 DEF Write, Steps
  <2>2. recording.bytes \in 1 .. recording.bytes
    BY <2>1, Types DEF AuditInv, RotationPoint, At, Writing
  <2>3. /\ recording' \in [step: Steps, index: Nat, bytes: Nat]
        /\ recording'.step = "sync" /\ recording'.bytes = recording.bytes
    BY <2>1, GoToFields
  <2> QED BY <2>1, <2>2, <2>3, Types, AppendKeeps
<1>6. CASE WriteTorn
  <2>1. PICK bytes \in 1 .. recording.bytes - 1 : AppendBytes(bytes)
    BY <1>6 DEF WriteTorn
  <2>2. bytes \in 1 .. recording.bytes
    BY <2>1 DEF AuditInv, AuditTypeOK
  <2>3. recording' = NotRecording /\ Writing
    BY <1>6 DEF WriteTorn
  <2>4. /\ recording' \in [step: Steps, index: Nat, bytes: Nat]
        /\ recording'.step = "idle" /\ recording'.bytes <= LogBytes
    BY <2>3, AuditAssumption DEF NotRecording, Steps
  <2> QED BY <2>1, <2>2, <2>3, <2>4, AppendKeeps
<1>7. CASE UNCHANGED auditVars
  <2>1. AuditTypeOK' /\ RotationPoint' /\ WriteFits'
    BY <1>7 DEF auditVars, AuditInv, AuditTypeOK, RotationPoint, WriteFits, At
  <2> QED BY <1>7, <2>1, FilesKept DEF auditVars, AuditInv
<1> QED
  BY <1>1, <1>2, <1>2a, <1>3, <1>4, <1>5, <1>6, <1>7, RenameKeeps, RenamedKeeps DEF AuditNext

\* The invariant holds in every state.
LEMMA AuditInvariant == AuditSpec => []AuditInv
  BY InitAudit, StepAudit, PTL DEF AuditSpec

\* rotate: for every number of rotations and every failure, the files are an
\* unbroken tail of all records written.
THEOREM TrailNeverBroken == AuditSpec => []TrailUnbroken
<1>1. AuditInv => TrailUnbroken BY DEF AuditInv
<1> QED BY <1>1, AuditInvariant, PTL

\* Record: a file longer than maxBytes ends with an event whose file could not
\* be measured; every other one fits behind what the file holds.
THEOREM TrailStaysBounded == AuditSpec => []TrailBounded
<1>1. AuditInv => TrailBounded BY DEF AuditInv
<1> QED BY <1>1, AuditInvariant, PTL
-----------------------------------------------------------------------------
(* The restart flag of the self-update, for every number of releases,       *)
(* orders and crashes.                                                      *)

\* Whoever is about to arm the flag has replaced the binary under this process:
\* Stage and StageRelease rename before they store restartPending, and a new
\* process begins with neither of them under way.
StagedMeansSwapped ==
    /\ tracker # Nobody /\ tracker.step = "arm" => swapped
    /\ \A o \in Orders :
          jobs[o] # Nobody /\ jobs[o].kind = "update" /\ jobs[o].step = "arm" => swapped

UpdateInv == UpdateTypeOK /\ StagedMeansSwapped /\ ArmedMeansSwapped

LEMMA UpdateInitInv == UpdateInit => UpdateInv
<1> SUFFICES ASSUME UpdateInit PROVE UpdateInv
  OBVIOUS
<1>1. 1 \in Versions /\ 0 \in 0 .. MaxCrashes /\ 0 \in 0 .. MaxOrders
  BY SelfUpdateAssumption DEF Versions
<1>2. UpdateTypeOK
  BY <1>1 DEF UpdateInit, UpdateTypeOK
<1> QED
  BY <1>2 DEF UpdateInit, UpdateInv, StagedMeansSwapped, ArmedMeansSwapped

LEMMA UpdateStep == UpdateInv /\ [UpdateNext]_updateVars => UpdateInv'
<1> SUFFICES ASSUME UpdateInv, [UpdateNext]_updateVars
             PROVE  UpdateInv'
  OBVIOUS
<1> USE DEF UpdateInv, UpdateTypeOK, StagedMeansSwapped, ArmedMeansSwapped, Staging
<1>1. ASSUME NEW v \in Versions, Publish(v) PROVE UpdateInv'
  BY <1>1 DEF Publish
<1>2. CASE Check
  BY <1>2 DEF Check
<1>3. CASE Replace
  BY <1>3 DEF Replace
<1>4. CASE ReplaceFails
  BY <1>4 DEF ReplaceFails
<1>5. CASE Arm
  BY <1>5 DEF Arm
<1>6. CASE PollOnce
  BY <1>6 DEF PollOnce
<1>7. CASE Command
  <2>1. orders + 1 \in Orders /\ orders' \in 0 .. MaxOrders /\ call' \in Orders
    BY <1>7, SelfUpdateAssumption DEF Command, Orders
  <2>2. ASSUME NEW ahead \in {0} \cup Orders,
               jobs' = [jobs EXCEPT ![orders + 1] = [kind |-> "site", behind |-> ahead]]
        PROVE  UpdateInv'
    <3>1. [kind |-> "site", behind |-> ahead] \in Job
      BY DEF Job
    <3> QED
      BY <1>7, <2>1, <2>2, <3>1 DEF Command
  <2>3. ASSUME NEW v \in published,
               jobs' = [jobs EXCEPT ![orders + 1] =
                           [kind |-> "update", tag |-> v, step |-> "fetch"]]
        PROVE  UpdateInv'
    <3>1. [kind |-> "update", tag |-> v, step |-> "fetch"] \in Job
      BY DEF Job
    <3> QED
      BY <1>7, <2>1, <2>3, <3>1 DEF Command
  <2> QED
    BY <1>7, <2>2, <2>3 DEF Command
<1>8. CASE Timeout
  BY <1>8 DEF Timeout
<1>9. ASSUME NEW o \in Orders, ReplaceOrdered(o) PROVE UpdateInv'
  <2>1. jobs[o] \in [kind: {"update"}, tag: Versions, step: {"fetch", "arm"}]
    BY <1>9 DEF ReplaceOrdered, Job
  <2>2. [jobs[o] EXCEPT !.step = "arm"] \in Job
    BY <2>1 DEF Job
  <2> QED
    BY <1>9, <2>1, <2>2 DEF ReplaceOrdered
<1>10. ASSUME NEW o \in Orders, WorkEnds(o) PROVE UpdateInv'
  BY <1>10 DEF WorkEnds
<1>11. CASE PassEnds
  BY <1>11 DEF PassEnds, Die
<1>12. CASE Crash
  <2>1. crashes' \in 0 .. MaxCrashes
    BY <1>12, SelfUpdateAssumption DEF Crash
  <2> QED
    BY <1>12, <2>1 DEF Crash, Die
<1>13. CASE Start
  BY <1>13 DEF Start
<1>14. CASE UNCHANGED updateVars
  BY <1>14 DEF updateVars
<1> QED
  BY <1>1, <1>2, <1>3, <1>4, <1>5, <1>6, <1>7, <1>8, <1>9, <1>10, <1>11, <1>12, <1>13, <1>14
     DEF UpdateNext

\* Every variable of the self-update keeps its type.
THEOREM UpdateTypes == UpdateSpec => []UpdateTypeOK
<1>1. UpdateInv => UpdateTypeOK
  BY DEF UpdateInv
<1> QED
  BY <1>1, UpdateInitInv, UpdateStep, PTL DEF UpdateSpec

\* The poll loop never exits for an update that is not on disk: whenever
\* restartPending is set, the binary was replaced under this very process,
\* whichever of the release tracker and system.update set it and however they
\* interleave.
THEOREM ArmedSwapped == UpdateSpec => []ArmedMeansSwapped
<1>1. UpdateInv => ArmedMeansSwapped
  BY DEF UpdateInv
<1> QED
  BY <1>1, UpdateInitInv, UpdateStep, PTL DEF UpdateSpec
=============================================================================
