-------------------------- MODULE EnrollmentProofs ---------------------------
(***************************************************************************)
(* The agent's identity, for every number of certificates, every set of    *)
(* authorities and bundles, and every interleaving of enrollment, renewal, *)
(* handshakes, expiry and stops.                                           *)
(***************************************************************************)
EXTENDS Enrollment, TLAPS

\* A complete identity: the certificate is for the key, and verifies unless
\* its chain came without its issuer.
WholePair(m) ==
    m \in Whole /\ m.cert.key = m.key /\ (m.cert.ca \in m.ca \/ m.cert.n \in bare)

\* What the manifest names is complete and numbered; before the first manifest
\* the mirrors are complete or absent.
ManifestInv ==
    IF manifest = None
    THEN mirror = Absent \/ (WholePair(mirror) /\ mirror.cert.n = 0)
    ELSE /\ manifest <= issued
         /\ WholePair(gens[manifest]) /\ gens[manifest].cert.n = manifest

\* The step of persistGeneration that is next.
Stage == 9 - Len(writer.todo)

\* The files of the generation that the steps before this stage wrote.
Written(stage) ==
    /\ stage >= 2 => gens[issued] # None
    /\ stage >= 3 => gens[issued].key = writer.new.key
    /\ stage >= 4 => gens[issued].cert = writer.new.cert
    /\ stage >= 5 => gens[issued].ca = writer.new.ca

\* The writer at work: the files of its generation are there up to its stage,
\* the manifest does not name them before they all are.
WritingInv ==
    /\ issued \in Issues
    /\ WholePair(writer.new) /\ writer.new.key = writer.key /\ writer.new.cert.n = issued
    /\ Len(writer.todo) \in 1 .. 8
    /\ \A i \in 1 .. Len(writer.todo) : writer.todo[i] = persistGeneration[Stage - 1 + i]
    /\ Written(Stage)
    /\ manifest = issued <=> Stage >= 6

WriterInv ==
    writer # None =>
        /\ writer.op = "renew" => proc = "daemon" /\ Enrolled /\ writer.key = Current.key
        /\ writer.new # None => WritingInv

\* A handshake resolved a generation that the manifest named once.
Resolved(p) == p # None => manifest # None /\ p <= manifest

\* Beside a handshake only a renewal runs, so that wherever the handshake
\* looks it finds the key in use.
ReaderInv ==
    reader # None =>
        /\ proc = "daemon" /\ Enrolled /\ (writer # None => writer.op = "renew")
        /\ Resolved(reader.certAt) /\ Resolved(reader.keyAt)
        /\ reader.step \in {"key", "readCert"} =>
              /\ FilesAt(reader.certAt).cert \in Certificate
              /\ FilesAt(reader.certAt).cert.key = Current.key
        /\ reader.step \in {"readCert", "readKey"} => FilesAt(reader.keyAt).key = Current.key
        /\ reader.step \in {"readKey", "done"} =>
              reader.cert \in Certificate /\ reader.cert.key = Current.key
        /\ reader.step = "done" => reader.key = Current.key

EnrollInv ==
    /\ EnrollTypeOK /\ expired <= issued
    /\ ManifestInv /\ WriterInv /\ ReaderInv
-----------------------------------------------------------------------------
LEMMA WholeParts ==
    ASSUME NEW m \in Whole
    PROVE  /\ m \in Material /\ m # None
           /\ m.key \in Keys /\ m.cert \in Certificate /\ m.ca \in SUBSET CAs
           /\ m.key # None /\ m.cert # None /\ m.ca # None
           /\ m.cert.n \in Keys /\ m.cert.ca \in CAs
BY NoneIsNoMaterial DEF Whole, Material, Certificate

LEMMA NoneIsNoPlace == None \notin Issues /\ Issues \subseteq Keys
BY NoneIsNoMaterial, EnrollmentAssumption DEF Keys, Issues

\* The files a reader finds: complete, and numbered no later than the last
\* certificate, or nothing at all.
LEMMA CurrentWhole ==
    ASSUME EnrollTypeOK, ManifestInv
    PROVE  /\ Enrolled <=> WholePair(Current)
           /\ Enrolled => Current.cert.n <= issued /\ Current.key \in Keys
           /\ manifest # None => Enrolled /\ Current = gens[manifest]
           /\ manifest = None => Current = mirror
<1>1. manifest # None => Current = gens[manifest] /\ WholePair(gens[manifest]) /\ manifest \in Issues
  BY DEF ManifestInv, Current, FilesAt, materialPath, EnrollTypeOK, Places
<1>2. manifest = None => Current = mirror /\ (mirror = Absent \/ WholePair(mirror))
  BY DEF ManifestInv, Current, FilesAt, materialPath
<1>3. WholePair(Current) => Current.key # None /\ Current.cert # None /\ Current.ca # None
                            /\ Current.key \in Keys /\ Current.cert.key = Current.key
  BY WholeParts DEF WholePair
<1>4. WholePair(Current) => Enrolled
  BY <1>3 DEF Enrolled
<1>5. Current = Absent => ~Enrolled
  BY DEF Enrolled, Absent
<1>6. WholePair(Current) => Current.cert.n <= issued
  <2>1. issued \in Nat /\ issued >= 0
    BY EnrollmentAssumption DEF EnrollTypeOK, Keys
  <2>. QED
    BY <1>1, <1>2, <2>1, <1>5, <1>4 DEF ManifestInv
<1>. QED
  BY <1>1, <1>2, <1>3, <1>4, <1>5, <1>6

LEMMA EnrollInitInv == EnrollInit => EnrollInv
<1>. SUFFICES ASSUME EnrollInit PROVE EnrollInv
  OBVIOUS
<1>0. 0 \in Keys /\ -1 \in -1 .. MaxIssued
  BY EnrollmentAssumption DEF Keys
<1>1. \A ca \in CAs : WholePair(Legacy(ca)) /\ Legacy(ca).cert.n = 0
  BY <1>0 DEF WholePair, Legacy, Whole, Certificate
<1>2. Absent \in Material
  BY DEF Absent, Material
<1>3. mirror \in Material
  BY <1>1, <1>2, WholeParts DEF EnrollInit, WholePair
<1>4. EnrollTypeOK
  BY <1>0, <1>3 DEF EnrollInit, EnrollTypeOK, Places
<1>5. ManifestInv
  BY <1>1 DEF EnrollInit, ManifestInv
<1>. QED
  BY <1>4, <1>5 DEF EnrollInit, EnrollInv, WriterInv, ReaderInv
-----------------------------------------------------------------------------
\* The files and the process stay: so do the manifest's and the handshake's
\* facts.
LEMMA MaterialKept ==
    ASSUME UNCHANGED materialVars
    PROVE  /\ Current' = Current /\ (Enrolled' <=> Enrolled)
           /\ \A p \in Places : FilesAt(p)' = FilesAt(p)
           /\ \A p : Resolved(p) => Resolved(p)'
BY DEF materialVars, Current, FilesAt, materialPath, Enrolled, Resolved

LEMMA ReaderKept ==
    ASSUME EnrollTypeOK, ReaderInv, UNCHANGED <<materialVars, reader>>,
           reader # None => proc' = "daemon" /\ (writer' # None => writer'.op = "renew")
    PROVE  ReaderInv'
<1>. SUFFICES ASSUME reader # None PROVE ReaderInv'
  BY DEF ReaderInv
<1>1. reader \in Reader /\ reader.certAt \in Places /\ reader.keyAt \in Places
  BY DEF EnrollTypeOK, Reader
<1>2. /\ FilesAt(reader.certAt)' = FilesAt(reader.certAt)
      /\ FilesAt(reader.keyAt)' = FilesAt(reader.keyAt)
      /\ Resolved(reader.certAt)' /\ Resolved(reader.keyAt)'
      /\ Current' = Current /\ Enrolled'
  BY <1>1, MaterialKept DEF ReaderInv, materialVars, FilesAt, Resolved
<1>. QED
  BY <1>2 DEF ReaderInv

LEMMA ManifestKept ==
    ASSUME EnrollTypeOK, ManifestInv, UNCHANGED materialVars, issued' \in Keys, issued <= issued',
           bare \subseteq bare'
    PROVE  ManifestInv'
<1>1. manifest # None => manifest \in Int /\ issued \in Int /\ issued' \in Int
  BY EnrollmentAssumption DEF EnrollTypeOK, Places, Issues, Keys
<1>. QED
  BY <1>1 DEF ManifestInv, materialVars, WholePair

\* A writer that has not heard from Control yet.
LEMMA StartedWriter ==
    ASSUME NEW op \in {"enroll", "renew"}, NEW key \in Keys, StartWriter(op, key)
    PROVE  /\ writer' \in Writer /\ writer' # None /\ writer'.op = op /\ writer'.key = key
           /\ writer'.new = None
<1>1. writer' = [op |-> op, key |-> key, new |-> None, todo |-> <<>>]
  BY DEF StartWriter
<1>2. <<>> \in Seq(Steps)
  OBVIOUS
<1>3. writer' \in Writer
  BY <1>1, <1>2 DEF Writer
<1>. QED
  BY <1>1, <1>3, NoneIsNoMaterial

LEMMA StartsKeep ==
    ASSUME EnrollInv, StartDaemon \/ EnrollCommand
    PROVE  EnrollInv'
<1>1. /\ proc = "down" /\ proc' \in {"daemon", "cli"}
      /\ UNCHANGED <<materialVars, issued, expired, reader, bare>>
      /\ writer' = writer \/ Enroll
  BY DEF StartDaemon, EnrollCommand
<1>2. reader = None /\ (writer # None => writer.op # "renew")
  BY <1>1 DEF EnrollInv, ReaderInv, WriterInv
<1>3. Enroll => writer' \in Writer /\ writer' # None /\ writer'.op = "enroll" /\ writer'.new = None
  <2>. SUFFICES ASSUME Enroll
                PROVE  writer' \in Writer /\ writer' # None /\ writer'.op = "enroll" /\ writer'.new = None
    OBVIOUS
  <2>1. issued + 1 \in Keys /\ StartWriter("enroll", issued + 1)
    BY EnrollmentAssumption DEF Enroll, EnrollInv, EnrollTypeOK, Keys
  <2>. QED
    BY <2>1, StartedWriter
<1>4. EnrollTypeOK' /\ expired' <= issued'
  BY <1>1, <1>3 DEF EnrollInv, EnrollTypeOK, materialVars
<1>5. ManifestInv'
  BY <1>1, ManifestKept DEF EnrollInv, EnrollTypeOK, Keys
<1>6. WriterInv'
  <2>1. CASE UNCHANGED writer
    <3>1. WritingInv => WritingInv'
      BY <1>1, <2>1 DEF WritingInv, WholePair, Written, materialVars, Stage
    <3>. QED
      BY <1>2, <2>1, <3>1 DEF EnrollInv, WriterInv
  <2>2. CASE Enroll
    BY <1>3, <2>2 DEF WriterInv
  <2>. QED
    BY <1>1, <2>1, <2>2
<1>7. ReaderInv'
  BY <1>1, <1>2 DEF ReaderInv
<1>. QED
  BY <1>4, <1>5, <1>6, <1>7 DEF EnrollInv

LEMMA RenewKeeps ==
    ASSUME EnrollInv, Renew
    PROVE  EnrollInv'
<1>1. /\ proc = "daemon" /\ Enrolled /\ UNCHANGED <<materialVars, issued, expired, reader, proc, bare>>
      /\ StartWriter("renew", Current.key)
  BY DEF Renew
<1>2. Current.key \in Keys
  BY <1>1, CurrentWhole DEF EnrollInv
<1>3. writer' \in Writer /\ writer' # None /\ writer'.op = "renew" /\ writer'.key = Current.key
      /\ writer'.new = None
  BY <1>1, <1>2, StartedWriter
<1>4. EnrollTypeOK' /\ expired' <= issued'
  BY <1>1, <1>3 DEF EnrollInv, EnrollTypeOK, materialVars
<1>5. ManifestInv'
  BY <1>1, ManifestKept DEF EnrollInv, EnrollTypeOK, Keys
<1>6. WriterInv'
  BY <1>1, <1>3, MaterialKept DEF WriterInv
<1>7. ReaderInv'
  BY <1>1, <1>3, ReaderKept DEF EnrollInv
<1>. QED
  BY <1>4, <1>5, <1>6, <1>7 DEF EnrollInv

LEMMA IssueKeeps ==
    ASSUME EnrollInv, NEW b \in Bundles, NEW ca \in CAs, Issue(b, ca)
    PROVE  EnrollInv'
<1>. DEFINE n == issued + 1
            cert == [key |-> writer.key, n |-> n, ca |-> ca]
            new == [key |-> writer.key, cert |-> cert, ca |-> caBundleFor(b)]
<1>1. /\ writer # None /\ writer.new = None /\ issued < MaxIssued
      /\ ca \in loadTrustAnchors(b) /\ issued' = n
      /\ bare' = IF b.chain # None /\ ca \notin b.chain THEN bare \cup {n} ELSE bare
      /\ writer' = [writer EXCEPT !.new = new, !.todo = persistGeneration]
      /\ UNCHANGED <<materialVars, expired, reader, proc>>
  BY DEF Issue, validateIssuedCertificate
<1>2. /\ writer \in Writer /\ writer.key \in Keys /\ issued \in Keys /\ n \in Keys /\ n \in Issues
      /\ issued \in Nat /\ expired \in Int
  BY <1>1, EnrollmentAssumption DEF EnrollInv, EnrollTypeOK, Writer, Keys, Issues
<1>3. /\ caBundleFor(b) \in SUBSET CAs /\ (ca \in caBundleFor(b) \/ n \in bare')
      /\ bare \subseteq bare' /\ bare' \subseteq Issues
  <2>1. b.ca \in CAs \cup {None} /\ b.chain \in (SUBSET CAs) \cup {None}
    BY EnrollmentAssumption
  <2>2. bare \subseteq Issues
    BY DEF EnrollInv, EnrollTypeOK
  <2>. QED
    BY <1>1, <1>2, <2>1, <2>2, NoneIsNoMaterial DEF caBundleFor, loadTrustAnchors
<1>4. new \in Whole /\ new.cert.key = new.key /\ (new.cert.ca \in new.ca \/ new.cert.n \in bare')
  BY <1>2, <1>3 DEF Whole, Certificate
<1>5. persistGeneration \in Seq(Steps) /\ Len(persistGeneration) = 8
  BY DEF persistGeneration, Steps
<1>6. /\ writer' \in Writer /\ writer'.new = new /\ writer'.todo = persistGeneration
      /\ writer'.op = writer.op /\ writer'.key = writer.key /\ writer' # None
  <2>1. new \in Whole /\ new # None
    BY <1>4, WholeParts
  <2>2. writer' \in Writer /\ writer'.new = new /\ writer'.todo = persistGeneration
        /\ writer'.op = writer.op /\ writer'.key = writer.key
    BY <1>1, <1>2, <1>5, <2>1 DEF Writer
  <2>. QED
    BY <2>2, NoneIsNoMaterial
<1>7. EnrollTypeOK' /\ expired' <= issued'
  BY <1>1, <1>2, <1>3, <1>6 DEF EnrollInv, EnrollTypeOK, materialVars
<1>8. ManifestInv'
  BY <1>1, <1>2, <1>3, ManifestKept DEF EnrollInv
<1>9. WritingInv'
  <2>1. manifest # n
    BY <1>2, NoneIsNoPlace DEF EnrollInv, EnrollTypeOK, ManifestInv, Places, Issues
  <2>2. Stage' = 1
    <3>1. Len(writer'.todo) = 8
      BY <1>5, <1>6
    <3>. QED
      BY <3>1 DEF Stage
  <2>3. WholePair(writer.new)' /\ writer'.new.key = writer'.key /\ writer'.new.cert.n = issued'
    BY <1>1, <1>4, <1>6 DEF WholePair
  <2>4. \A i \in 1 .. Len(writer'.todo) : writer'.todo[i] = persistGeneration[Stage' - 1 + i]
    BY <1>5, <1>6, <2>2
  <2>. HIDE DEF new
  <2>. QED
    BY <1>1, <1>2, <1>5, <1>6, <2>1, <2>2, <2>3, <2>4 DEF WritingInv, Written, materialVars, WholePair
<1>10. WriterInv'
  BY <1>1, <1>6, <1>9, MaterialKept DEF EnrollInv, WriterInv
<1>11. ReaderInv'
  BY <1>1, <1>6, ReaderKept DEF EnrollInv, ReaderInv
<1>. QED
  BY <1>7, <1>8, <1>10, <1>11 DEF EnrollInv

\* The writer ends, and the handshake with the process.
LEMMA EndKeeps ==
    ASSUME EnrollInv, UNCHANGED <<materialVars, issued, expired>>, writer # None,
           NEW failed, EndWriter(failed)
    PROVE  EnrollInv'
<1>1. writer' = None /\ proc' \in {"down", proc} /\ reader' \in {None, reader}
      /\ (proc' = "down" => reader' = None) /\ UNCHANGED bare
  BY DEF EndWriter
<1>2. EnrollTypeOK' /\ expired' <= issued'
  BY <1>1 DEF EnrollInv, EnrollTypeOK, materialVars
<1>3. ManifestInv'
  BY <1>1, ManifestKept DEF EnrollInv, EnrollTypeOK, Keys
<1>4. ReaderInv'
  <2>1. CASE reader' = None
    BY <2>1 DEF ReaderInv
  <2>2. CASE reader' = reader /\ proc' = proc
    BY <1>1, <2>2, ReaderKept DEF EnrollInv, ReaderInv
  <2>. QED
    BY <1>1, <2>1, <2>2
<1>. QED
  BY <1>1, <1>2, <1>3, <1>4 DEF EnrollInv, WriterInv
-----------------------------------------------------------------------------
\* What persistGeneration writes at a stage.
LEMMA StageStep ==
    ASSUME EnrollTypeOK, writer # None, WritingInv
    PROVE  /\ Stage \in 1 .. 8 /\ Head(writer.todo) = persistGeneration[Stage]
           /\ writer \in Writer /\ writer.new \in Whole /\ writer.todo \in Seq(Steps)
           /\ writer.new.cert.n = issued /\ issued \in Issues
<1>1. writer \in Writer /\ writer.todo \in Seq(Steps)
  BY DEF EnrollTypeOK, Writer
<1>2. Len(writer.todo) \in 1 .. 8 /\ Stage \in 1 .. 8
  <2>1. Len(writer.todo) \in 1 .. 8
    BY DEF WritingInv
  <2>2. \A k \in 1 .. 8 : 9 - k \in 1 .. 8
    OBVIOUS
  <2>. QED
    BY <2>1, <2>2 DEF Stage
<1>3. writer.todo[1] = persistGeneration[Stage - 1 + 1]
  BY <1>2 DEF WritingInv
<1>4. Head(writer.todo) = writer.todo[1]
  BY <1>1, <1>2
<1>. QED
  BY <1>1, <1>2, <1>3, <1>4 DEF WritingInv, WholePair

\* The first four steps write the generation, which the manifest does not name.
LEMMA PutFiles ==
    ASSUME EnrollTypeOK, writer # None, WritingInv, Stage <= 4, Put(Head(writer.todo))
    PROVE  /\ manifest' = manifest /\ mirror' = mirror /\ manifest # issued
           /\ gens' \in [Issues -> Material \cup {None}]
           /\ \A g \in Issues \ {issued} : gens'[g] = gens[g]
           /\ gens'[issued] # None
           /\ Stage >= 2 => gens'[issued].key = writer.new.key
           /\ Stage >= 3 => gens'[issued].cert = writer.new.cert
           /\ Stage >= 4 => gens'[issued].ca = writer.new.ca
<1>. DEFINE new == writer.new
            old == gens[issued]
<1>1. /\ Stage \in 1 .. 4 /\ Head(writer.todo) = persistGeneration[Stage]
      /\ new.cert.n = issued /\ issued \in Issues /\ new \in Whole
  BY StageStep DEF WritingInv
<1>2. new.key \in Keys /\ new.cert \in Certificate /\ new.ca \in SUBSET CAs
  BY <1>1, WholeParts
<1>3. gens \in [Issues -> Material \cup {None}] /\ (Stage >= 2 => old \in Material)
  BY <1>1 DEF EnrollTypeOK, WritingInv, Written
<1>4. /\ Stage >= 3 => old.key = new.key
      /\ Stage >= 4 => old.cert = new.cert
  BY DEF WritingInv, Written
<1>. HIDE DEF new, old
<1>. DEFINE Goal(m) ==
         /\ m \in Material
         /\ gens' = [gens EXCEPT ![issued] = m]
         /\ Stage >= 2 => m.key = new.key
         /\ Stage >= 3 => m.cert = new.cert
         /\ Stage >= 4 => m.ca = new.ca
<1>5. PICK m : Goal(m)
  <2>1. CASE Stage = 1
    <3>1. Head(writer.todo) = "mkdir"
      BY <1>1, <2>1 DEF persistGeneration
    <3>2. gens' = [gens EXCEPT ![issued] = Absent] /\ Absent \in Material
      BY <1>1, <3>1 DEF Put, Absent, Material, new
    <3>. QED
      <4>1. Goal(Absent)
        BY <2>1, <3>2
      <4>. QED
        BY <4>1
  <2>2. CASE Stage = 2
    <3>1. Head(writer.todo) = "key"
      BY <1>1, <2>2 DEF persistGeneration
    <3>2. gens' = [gens EXCEPT ![issued] = [old EXCEPT !.key = new.key]]
      BY <1>1, <1>3, <3>1 DEF Put, new, old
    <3>3. [old EXCEPT !.key = new.key] \in Material /\ [old EXCEPT !.key = new.key].key = new.key
      BY <1>2, <1>3, <2>2 DEF Material
    <3>. QED
      <4>1. Goal([old EXCEPT !.key = new.key])
        BY <2>2, <3>2, <3>3
      <4>. QED
        BY <4>1
  <2>3. CASE Stage = 3
    <3>1. Head(writer.todo) = "cert"
      BY <1>1, <2>3 DEF persistGeneration
    <3>2. gens' = [gens EXCEPT ![issued] = [old EXCEPT !.cert = new.cert]]
      BY <1>1, <1>3, <3>1 DEF Put, new, old
    <3>3. LET m == [old EXCEPT !.cert = new.cert]
          IN  m \in Material /\ m.cert = new.cert /\ m.key = old.key
      BY <1>2, <1>3, <2>3 DEF Material
    <3>. QED
      <4>1. Goal([old EXCEPT !.cert = new.cert])
        BY <1>4, <2>3, <3>2, <3>3
      <4>. QED
        BY <4>1
  <2>4. CASE Stage = 4
    <3>1. Head(writer.todo) = "ca"
      BY <1>1, <2>4 DEF persistGeneration
    <3>2. gens' = [gens EXCEPT ![issued] = [old EXCEPT !.ca = new.ca]]
      BY <1>1, <1>3, <3>1 DEF Put, new, old
    <3>3. LET m == [old EXCEPT !.ca = new.ca]
          IN  m \in Material /\ m.ca = new.ca /\ m.key = old.key /\ m.cert = old.cert
      BY <1>2, <1>3, <2>4 DEF Material
    <3>. QED
      <4>1. Goal([old EXCEPT !.ca = new.ca])
        BY <1>4, <2>4, <3>2, <3>3
      <4>. QED
        BY <4>1
  <2>. QED
    BY <1>1, <2>1, <2>2, <2>3, <2>4
<1>6. manifest' = manifest /\ mirror' = mirror
  <2>1. Head(writer.todo) \in {"mkdir", "key", "cert", "ca"}
    BY <1>1 DEF persistGeneration
  <2>. QED
    BY <2>1 DEF Put
<1>7. manifest # issued
  BY <1>1 DEF WritingInv
<1>8. m # None
  BY <1>5, NoneIsNoMaterial
<1>. QED
  BY <1>1, <1>3, <1>5, <1>6, <1>7, <1>8 DEF new

\* The fifth replaces the manifest: it names the complete generation.
LEMMA PutManifest ==
    ASSUME EnrollTypeOK, writer # None, WritingInv, Stage = 5, Put(Head(writer.todo))
    PROVE  manifest' = issued /\ gens' = gens /\ mirror' = mirror /\ gens[issued] = writer.new
<1>1. Head(writer.todo) = "manifest" /\ writer.new.cert.n = issued
  BY StageStep DEF persistGeneration
<1>2. gens[issued] \in Material /\ writer.new \in Whole
  BY StageStep DEF WritingInv, Written, EnrollTypeOK
<1>3. /\ gens[issued].key = writer.new.key /\ gens[issued].cert = writer.new.cert
      /\ gens[issued].ca = writer.new.ca
  BY DEF WritingInv, Written
<1>4. gens[issued] = writer.new
  BY <1>2, <1>3 DEF Material, Whole
<1>. QED
  BY <1>1, <1>4 DEF Put

\* The last three refresh the mirrors, when nobody needs them any more.
LEMMA PutMirror ==
    ASSUME EnrollTypeOK, writer # None, WritingInv, Stage >= 6, Put(Head(writer.todo))
    PROVE  /\ manifest' = manifest /\ gens' = gens /\ manifest = issued
           /\ mirror' \in Material
           /\ mirror'.key \in {mirror.key, writer.new.key}
           /\ mirror'.cert \in {mirror.cert, writer.new.cert}
<1>1. /\ Stage \in 6 .. 8 /\ Head(writer.todo) = persistGeneration[Stage]
      /\ writer.new \in Whole
  BY StageStep
<1>2. /\ writer.new.key \in Keys /\ writer.new.cert \in Certificate
      /\ writer.new.ca \in SUBSET CAs
  BY <1>1, WholeParts
<1>3. Head(writer.todo) \in {"mirrorKey", "mirrorCert", "mirrorCA"}
  BY <1>1 DEF persistGeneration
<1>4. \/ mirror' = [mirror EXCEPT !.key = writer.new.key]
      \/ mirror' = [mirror EXCEPT !.cert = writer.new.cert]
      \/ mirror' = [mirror EXCEPT !.ca = writer.new.ca]
  BY <1>3 DEF Put
<1>5. mirror \in Material
  BY DEF EnrollTypeOK
<1>6. /\ mirror' \in Material
      /\ mirror'.key \in {mirror.key, writer.new.key}
      /\ mirror'.cert \in {mirror.cert, writer.new.cert}
  BY <1>2, <1>4, <1>5 DEF Material
<1>7. manifest' = manifest /\ gens' = gens
  BY <1>3 DEF Put
<1>8. manifest = issued
  BY <1>1 DEF WritingInv
<1>. QED
  BY <1>6, <1>7, <1>8

\* What a reader finds is what it found before, or complete and new.
LEMMA PutCurrent ==
    ASSUME EnrollInv, writer # None, WritingInv, Put(Head(writer.todo)), UNCHANGED <<issued, bare>>
    PROVE  /\ gens' \in [Issues -> Material \cup {None}] /\ manifest' \in Places /\ mirror' \in Material
           /\ ManifestInv'
           /\ Current' = Current \/ (Stage = 5 /\ Current' = writer.new)
           /\ Enrolled => Enrolled'
<1>1. Stage \in 1 .. 8 /\ issued \in Issues /\ issued \in Nat /\ issued # None /\ EnrollTypeOK /\ ManifestInv
  BY StageStep, NoneIsNoPlace DEF EnrollInv, Issues
<1>2. CASE Stage <= 4
  <2>1. /\ manifest' = manifest /\ mirror' = mirror /\ manifest # issued
        /\ gens' \in [Issues -> Material \cup {None}]
        /\ \A g \in Issues \ {issued} : gens'[g] = gens[g]
    BY <1>1, <1>2, PutFiles
  <2>2. Current' = Current
    BY <1>1, <2>1 DEF Current, FilesAt, materialPath, EnrollTypeOK, Places
  <2>3. ManifestInv'
    BY <1>1, <2>1 DEF ManifestInv, EnrollTypeOK, Places, WholePair
  <2>. QED
    BY <1>1, <2>1, <2>2, <2>3 DEF Enrolled, EnrollTypeOK
<1>3. CASE Stage = 5
  <2>1. manifest' = issued /\ gens' = gens /\ mirror' = mirror /\ gens[issued] = writer.new
    BY <1>1, <1>3, PutManifest
  <2>2. WholePair(writer.new) /\ writer.new.cert.n = issued
    BY DEF WritingInv
  <2>3. Current' = writer.new
    BY <1>1, <2>1 DEF Current, FilesAt, materialPath
  <2>4. ManifestInv'
    BY <1>1, <2>1, <2>2 DEF ManifestInv, WholePair
  <2>5. Enrolled'
    BY <2>2, <2>3, WholeParts DEF Enrolled, WholePair
  <2>. QED
    BY <1>1, <1>3, <2>1, <2>3, <2>4, <2>5 DEF EnrollTypeOK, Places
<1>4. CASE Stage >= 6
  <2>1. manifest' = manifest /\ gens' = gens /\ manifest = issued /\ mirror' \in Material
    BY <1>1, <1>4, PutMirror
  <2>2. Current' = Current
    BY <1>1, <2>1 DEF Current, FilesAt, materialPath
  <2>3. ManifestInv'
    BY <1>1, <2>1 DEF ManifestInv, WholePair
  <2>. QED
    BY <1>1, <2>1, <2>2, <2>3 DEF Enrolled, EnrollTypeOK
<1>. QED
  BY <1>1, <1>2, <1>3, <1>4

\* What a path resolved earlier leads to is what it was, or the new file.
LEMMA PutPlaces ==
    ASSUME EnrollInv, writer # None, WritingInv, Put(Head(writer.todo)), UNCHANGED <<issued, bare>>,
           NEW p \in Places, Resolved(p)
    PROVE  /\ Resolved(p)'
           /\ FilesAt(p)'.cert \in {FilesAt(p).cert, writer.new.cert}
           /\ FilesAt(p)'.key \in {FilesAt(p).key, writer.new.key}
<1>1. Stage \in 1 .. 8 /\ issued \in Issues /\ issued \in Nat /\ issued # None /\ EnrollTypeOK /\ ManifestInv
  BY StageStep, NoneIsNoPlace DEF EnrollInv, Issues
<1>2. p # None => p \in Issues /\ p \in Nat /\ manifest \in Issues /\ manifest \in Nat
                  /\ p <= manifest /\ manifest <= issued
  BY <1>1 DEF Places, EnrollTypeOK, Resolved, ManifestInv, Issues
<1>3. CASE Stage <= 4
  <2>1. /\ manifest' = manifest /\ mirror' = mirror /\ manifest # issued
        /\ \A g \in Issues \ {issued} : gens'[g] = gens[g]
    BY <1>1, <1>3, PutFiles
  <2>2. p # None => gens'[p] = gens[p]
    BY <1>1, <1>2, <2>1
  <2>. QED
    BY <2>1, <2>2 DEF FilesAt, Resolved
<1>4. CASE Stage = 5
  <2>1. manifest' = issued /\ gens' = gens /\ mirror' = mirror
    BY <1>1, <1>4, PutManifest
  <2>. QED
    BY <1>1, <1>2, <2>1 DEF FilesAt, Resolved
<1>5. CASE Stage >= 6
  <2>1. /\ manifest' = manifest /\ gens' = gens
        /\ mirror'.key \in {mirror.key, writer.new.key}
        /\ mirror'.cert \in {mirror.cert, writer.new.cert}
    BY <1>1, <1>5, PutMirror
  <2>. QED
    BY <2>1 DEF FilesAt, Resolved
<1>. QED
  BY <1>1, <1>3, <1>4, <1>5

\* The handshake beside a renewal: every file it may still read has the key in
\* use.
LEMMA PutReader ==
    ASSUME EnrollInv, writer # None, WritingInv, Put(Head(writer.todo)), UNCHANGED <<issued, reader, bare>>,
           reader # None => proc' = "daemon" /\ (writer' # None => writer'.op = "renew")
    PROVE  ReaderInv'
<1>. SUFFICES ASSUME reader # None PROVE ReaderInv'
  BY DEF ReaderInv
<1>1. /\ reader \in Reader /\ reader.certAt \in Places /\ reader.keyAt \in Places
      /\ Resolved(reader.certAt) /\ Resolved(reader.keyAt) /\ Enrolled /\ writer.op = "renew"
  BY DEF EnrollInv, EnrollTypeOK, Reader, ReaderInv
<1>2. /\ writer.new.key = Current.key /\ writer.new.cert \in Certificate
      /\ writer.new.cert.key = Current.key
  BY <1>1, WholeParts DEF EnrollInv, WriterInv, WritingInv, WholePair
<1>3. Current'.key = Current.key /\ Enrolled'
  BY <1>1, <1>2, PutCurrent
<1>4. \A p \in Places : Resolved(p) =>
         /\ Resolved(p)'
         /\ FilesAt(p)'.cert \in {FilesAt(p).cert, writer.new.cert}
         /\ FilesAt(p)'.key \in {FilesAt(p).key, writer.new.key}
  BY PutPlaces
<1>5. /\ Resolved(reader.certAt)' /\ Resolved(reader.keyAt)'
      /\ FilesAt(reader.certAt)'.cert \in {FilesAt(reader.certAt).cert, writer.new.cert}
      /\ FilesAt(reader.keyAt)'.key \in {FilesAt(reader.keyAt).key, writer.new.key}
  BY <1>1, <1>4 DEF Resolved, FilesAt
<1>. QED
  BY <1>1, <1>2, <1>3, <1>5 DEF EnrollInv, ReaderInv

LEMMA PersistKeeps ==
    ASSUME EnrollInv, NEW outcome \in Outcomes, Persist(outcome)
    PROVE  EnrollInv'
<1>1. writer # None /\ writer.new # None /\ UNCHANGED <<issued, expired, bare>>
  BY DEF Persist, EndWriter
<1>2. WritingInv /\ EnrollTypeOK
  BY <1>1 DEF EnrollInv, WriterInv
<1>3. CASE outcome = "failed"
  <2>1. UNCHANGED materialVars /\ EndWriter(TRUE)
    BY <1>3 DEF Persist
  <2>. QED
    BY <1>1, <2>1, EndKeeps
<1>4. CASE outcome # "failed" /\ ~(outcome = "ok" /\ Len(writer.todo) > 1)
  <2>1. Put(Head(writer.todo)) /\ EndWriter(outcome # "ok")
    BY <1>4 DEF Persist
  <2>2. /\ writer' = None /\ proc' \in {"down", proc} /\ reader' \in {None, reader}
        /\ proc' = "down" => reader' = None
    BY <2>1 DEF EndWriter
  <2>3. EnrollTypeOK' /\ expired' <= issued' /\ ManifestInv'
    <3>1. /\ gens' \in [Issues -> Material \cup {None}] /\ manifest' \in Places
          /\ mirror' \in Material /\ ManifestInv'
      BY <1>1, <1>2, <2>1, PutCurrent
    <3>. QED
      BY <1>1, <2>2, <3>1 DEF EnrollInv, EnrollTypeOK
  <2>4. ReaderInv'
    <3>1. CASE reader' = None
      BY <3>1 DEF ReaderInv
    <3>2. CASE reader' = reader /\ proc' = proc
      <4>1. reader # None => proc' = "daemon"
        BY <3>2 DEF EnrollInv, ReaderInv
      <4>. QED
        BY <1>1, <1>2, <2>1, <2>2, <3>2, <4>1, PutReader
    <3>. QED
      BY <2>2, <3>1, <3>2
  <2>. QED
    BY <2>2, <2>3, <2>4 DEF EnrollInv, WriterInv
<1>5. CASE outcome = "ok" /\ Len(writer.todo) > 1
  <2>1. Put(Head(writer.todo)) /\ writer' = [writer EXCEPT !.todo = Tail(writer.todo)] /\ UNCHANGED <<reader, proc>>
    BY <1>5 DEF Persist
  <2>2. /\ writer \in Writer /\ writer.todo \in Seq(Steps) /\ issued \in Issues /\ Stage \in 1 .. 8
        /\ Len(writer.todo) \in 1 .. 8
    BY <1>1, <1>2, StageStep DEF WritingInv
  <2>3. /\ Tail(writer.todo) \in Seq(Steps) /\ Len(Tail(writer.todo)) = Len(writer.todo) - 1
        /\ \A i \in 1 .. Len(Tail(writer.todo)) : Tail(writer.todo)[i] = writer.todo[i + 1]
    BY <1>5, <2>2
  <2>4. /\ writer' \in Writer /\ writer'.new = writer.new /\ writer'.op = writer.op
        /\ writer'.key = writer.key /\ writer'.todo = Tail(writer.todo)
    BY <2>1, <2>2, <2>3 DEF Writer
  <2>5. writer' # None
    BY <2>4, NoneIsNoMaterial
  <2>6. /\ gens' \in [Issues -> Material \cup {None}] /\ manifest' \in Places
        /\ mirror' \in Material /\ ManifestInv' /\ (Enrolled => Enrolled')
        /\ Current' = Current \/ Current' = writer.new
    BY <1>1, <1>2, <2>1, PutCurrent
  <2>7. EnrollTypeOK' /\ expired' <= issued'
    BY <1>1, <2>1, <2>4, <2>6 DEF EnrollInv, EnrollTypeOK
  <2>8. ReaderInv'
    <3>1. reader # None => proc' = "daemon" /\ writer'.op = "renew"
      BY <1>1, <2>1, <2>4 DEF EnrollInv, ReaderInv
    <3>. QED
      BY <1>1, <1>2, <2>1, <3>1, PutReader
  <2>9. Stage' = Stage + 1
    <3>1. Len(writer'.todo) = Len(writer.todo) - 1
      BY <2>3, <2>4
    <3>2. \A m, n \in 1 .. 8 : m = n - 1 => 9 - m = 9 - n + 1
      OBVIOUS
    <3>3. Len(writer.todo) - 1 \in 1 .. 8
      <4>1. \A n \in 1 .. 8 : n > 1 => n - 1 \in 1 .. 8
        OBVIOUS
      <4>. QED
        BY <1>5, <2>2, <4>1
    <3>. QED
      BY <2>2, <3>1, <3>2, <3>3 DEF Stage
  <2>10. \A i \in 1 .. Len(writer'.todo) : writer'.todo[i] = persistGeneration[Stage' - 1 + i]
    <3>. SUFFICES ASSUME NEW i \in 1 .. Len(writer'.todo)
                  PROVE  writer'.todo[i] = persistGeneration[Stage' - 1 + i]
      OBVIOUS
    <3>1. i \in Nat /\ i + 1 \in 1 .. Len(writer.todo)
      BY <2>2, <2>3, <2>4
    <3>2. writer'.todo[i] = writer.todo[i + 1]
      BY <2>3, <2>4
    <3>3. writer.todo[i + 1] = persistGeneration[Stage - 1 + (i + 1)]
      BY <1>2, <3>1 DEF WritingInv
    <3>4. Stage - 1 + (i + 1) = Stage' - 1 + i
      BY <2>2, <2>9, <3>1
    <3>. QED
      BY <3>2, <3>3, <3>4
  <2>11. Written(Stage)' /\ (manifest' = issued' <=> Stage' >= 6)
    <3>1. CASE Stage <= 4
      <4>1. /\ manifest' = manifest /\ manifest # issued
            /\ gens'[issued] # None
            /\ Stage >= 2 => gens'[issued].key = writer.new.key
            /\ Stage >= 3 => gens'[issued].cert = writer.new.cert
            /\ Stage >= 4 => gens'[issued].ca = writer.new.ca
        BY <1>1, <1>2, <2>1, <3>1, PutFiles
      <4>2. /\ Stage' >= 3 => Stage >= 2
            /\ Stage' >= 4 => Stage >= 3
            /\ Stage' >= 5 => Stage >= 4
            /\ ~(Stage' >= 6)
        BY <2>2, <2>9, <3>1
      <4>. QED
        BY <1>1, <2>4, <4>1, <4>2 DEF Written
    <3>2. CASE Stage >= 5
      <4>1. gens' = gens /\ manifest' = issued
        <5>1. CASE Stage = 5
          BY <1>1, <1>2, <2>1, <5>1, PutManifest
        <5>2. CASE Stage >= 6
          BY <1>1, <1>2, <2>1, <5>2, PutMirror
        <5>. QED
          BY <2>2, <3>2, <5>1, <5>2
      <4>2. /\ gens[issued] # None /\ gens[issued].key = writer.new.key
            /\ gens[issued].cert = writer.new.cert /\ gens[issued].ca = writer.new.ca
        BY <1>2, <2>2, <3>2 DEF WritingInv, Written
      <4>3. Stage' >= 6
        BY <2>2, <2>9, <3>2
      <4>. QED
        BY <1>1, <2>4, <4>1, <4>2, <4>3 DEF Written
    <3>. QED
      BY <2>2, <3>1, <3>2
  <2>12. WritingInv'
    <3>1. Len(writer'.todo) \in 1 .. 8
      <4>1. \A n \in 1 .. 8 : n > 1 => n - 1 \in 1 .. 8
        OBVIOUS
      <4>. QED
        BY <1>5, <2>2, <2>3, <2>4, <4>1
    <3>2. WholePair(writer.new)' /\ writer'.new.key = writer'.key /\ writer'.new.cert.n = issued'
      BY <1>1, <1>2, <2>4 DEF WritingInv, WholePair
    <3>. QED
      BY <1>1, <2>2, <2>10, <2>11, <3>1, <3>2 DEF WritingInv, WholePair
  <2>13. WriterInv'
    <3>1. writer.op = "renew" => Enrolled' /\ writer.key = Current'.key /\ proc' = "daemon"
      <4>1. writer.op = "renew" => Enrolled /\ writer.key = Current.key /\ proc = "daemon"
        BY <1>1 DEF EnrollInv, WriterInv
      <4>2. writer.new.key = writer.key
        BY <1>2 DEF WritingInv
      <4>. QED
        BY <2>1, <2>6, <4>1, <4>2
    <3>. QED
      BY <2>4, <2>12, <3>1 DEF WriterInv
  <2>. QED
    BY <2>6, <2>7, <2>8, <2>13 DEF EnrollInv
<1>. QED
  BY <1>3, <1>4, <1>5 DEF Outcomes
-----------------------------------------------------------------------------
LEMMA HandshakeKeeps ==
    ASSUME EnrollInv, Handshake
    PROVE  EnrollInv'
<1>1. Polling /\ UNCHANGED <<materialVars, issued, expired, writer, proc, bare>>
  BY DEF Handshake
<1>2. /\ proc = "daemon" /\ Enrolled /\ (writer # None => writer.op = "renew")
      /\ EnrollTypeOK /\ ManifestInv
  BY <1>1 DEF Polling, EnrollInv
<1>3. /\ WholePair(Current) /\ Current.key \in Keys /\ Current.cert \in Certificate
      /\ Current.cert.key = Current.key
  BY <1>2, CurrentWhole, WholeParts DEF WholePair
<1>4. Current = FilesAt(manifest) /\ manifest \in Places /\ Resolved(manifest) /\ None \in Places
  <2>1. manifest # None => manifest \in Nat
    BY <1>2 DEF EnrollTypeOK, Places, Issues
  <2>. QED
    BY <1>2, <2>1 DEF Current, materialPath, EnrollTypeOK, Resolved, Places
<1>5. /\ Current' = Current /\ Enrolled'
      /\ \A p \in Places : FilesAt(p)' = FilesAt(p)
      /\ \A p : Resolved(p) => Resolved(p)'
  BY <1>1, <1>2, MaterialKept
<1>6. ManifestInv' /\ WriterInv'
  <2>1. ManifestInv'
    BY <1>1, <1>2, ManifestKept DEF EnrollTypeOK, Keys
  <2>2. WritingInv => WritingInv'
    BY <1>1 DEF WritingInv, WholePair, Written, Stage, materialVars
  <2>. QED
    BY <1>1, <1>5, <2>1, <2>2 DEF EnrollInv, WriterInv
<1>. DEFINE Good(r) ==
         /\ r \in Reader
         /\ Resolved(r.certAt) /\ Resolved(r.keyAt)
         /\ r.step \in {"key", "readCert"} =>
               /\ FilesAt(r.certAt).cert \in Certificate
               /\ FilesAt(r.certAt).cert.key = Current.key
         /\ r.step \in {"readCert", "readKey"} => FilesAt(r.keyAt).key = Current.key
         /\ r.step \in {"readKey", "done"} =>
               r.cert \in Certificate /\ r.cert.key = Current.key
         /\ r.step = "done" => r.key = Current.key
<1>7. reader # None => Good(reader)
  BY <1>2 DEF EnrollInv, ReaderInv, EnrollTypeOK
<1>8. PICK r : Good(r) /\ reader' = r
  <2>1. CASE reader' = [certAt |-> materialPath, keyAt |-> None, cert |-> None,
                        key |-> None, step |-> "key"]
    <3>. DEFINE r == [certAt |-> manifest, keyAt |-> None, cert |-> None,
                      key |-> None, step |-> "key"]
    <3>1. r \in Reader /\ r.certAt = manifest /\ r.keyAt = None /\ r.step = "key"
      BY <1>4 DEF Reader
    <3>2. reader' = r
      BY <2>1 DEF materialPath
    <3>. HIDE DEF r
    <3>3. Good(r)
      BY <1>3, <1>4, <3>1 DEF Resolved
    <3>. QED
      BY <3>2, <3>3
  <2>2. CASE AtStep("key") /\ reader' = [reader EXCEPT !.keyAt = materialPath, !.step = "readCert"]
    <3>. DEFINE r == [reader EXCEPT !.keyAt = manifest, !.step = "readCert"]
    <3>1. reader \in Reader /\ reader.step = "key" /\ Good(reader)
      BY <1>7, <2>2 DEF AtStep
    <3>2. r \in Reader /\ r.certAt = reader.certAt /\ r.keyAt = manifest /\ r.step = "readCert"
      BY <1>4, <3>1 DEF Reader
    <3>3. reader' = r
      BY <2>2 DEF materialPath
    <3>. HIDE DEF r
    <3>4. Good(r)
      BY <1>3, <1>4, <3>1, <3>2
    <3>. QED
      BY <3>3, <3>4
  <2>3. CASE /\ AtStep("readCert")
             /\ reader' = [reader EXCEPT !.cert = FilesAt(reader.certAt).cert, !.step = "readKey"]
    <3>. DEFINE file == FilesAt(reader.certAt).cert
                r == [reader EXCEPT !.cert = file, !.step = "readKey"]
    <3>1. reader \in Reader /\ reader.step = "readCert" /\ Good(reader) /\ file \in Certificate
      BY <1>7, <2>3 DEF AtStep
    <3>. HIDE DEF file
    <3>2. /\ r \in Reader /\ r.certAt = reader.certAt /\ r.keyAt = reader.keyAt
          /\ r.cert = file /\ r.step = "readKey"
      BY <3>1 DEF Reader
    <3>3. reader' = r
      BY <2>3 DEF file
    <3>. HIDE DEF r
    <3>4. Good(r)
      BY <3>1, <3>2 DEF file
    <3>. QED
      BY <3>3, <3>4
  <2>4. CASE /\ AtStep("readKey")
             /\ reader' = [reader EXCEPT !.key = FilesAt(reader.keyAt).key, !.step = "done"]
    <3>. DEFINE file == FilesAt(reader.keyAt).key
                r == [reader EXCEPT !.key = file, !.step = "done"]
    <3>1. reader \in Reader /\ reader.step = "readKey" /\ Good(reader) /\ file = Current.key
      BY <1>7, <2>4 DEF AtStep
    <3>. HIDE DEF file
    <3>2. /\ r \in Reader /\ r.certAt = reader.certAt /\ r.keyAt = reader.keyAt
          /\ r.cert = reader.cert /\ r.key = file /\ r.step = "done"
      BY <1>3, <3>1 DEF Reader
    <3>3. reader' = r
      BY <2>4 DEF file
    <3>. HIDE DEF r
    <3>4. Good(r)
      BY <3>1, <3>2
    <3>. QED
      BY <3>3, <3>4
  <2>. QED
    BY <2>1, <2>2, <2>3, <2>4 DEF Handshake
<1>9. EnrollTypeOK' /\ expired' <= issued'
  BY <1>1, <1>2, <1>8 DEF EnrollInv, EnrollTypeOK, materialVars
<1>10. ReaderInv'
  <2>1. reader'.certAt \in Places /\ reader'.keyAt \in Places
    BY <1>8 DEF Reader
  <2>2. /\ FilesAt(reader.certAt)' = FilesAt(r.certAt) /\ FilesAt(reader.keyAt)' = FilesAt(r.keyAt)
        /\ Resolved(reader.certAt)' /\ Resolved(reader.keyAt)'
    BY <1>1, <1>8, <2>1 DEF FilesAt, Resolved, materialVars
  <2>. QED
    BY <1>1, <1>2, <1>5, <1>8, <2>2 DEF ReaderInv
<1>. QED
  BY <1>6, <1>9, <1>10 DEF EnrollInv

LEMMA OthersKeep ==
    ASSUME EnrollInv, IssueFails \/ Expire \/ Stop \/ UNCHANGED enrollVars
    PROVE  EnrollInv'
<1>1. CASE IssueFails
  BY <1>1, EndKeeps DEF IssueFails
<1>2. CASE Expire \/ UNCHANGED enrollVars
  <2>1. UNCHANGED <<materialVars, issued, writer, reader, proc, bare>> /\ expired' \in {issued, expired}
    BY <1>2 DEF Expire, enrollVars
  <2>2. issued \in 0 .. MaxIssued /\ MaxIssued \in Nat
    BY EnrollmentAssumption DEF EnrollInv, EnrollTypeOK, Keys
  <2>3. EnrollTypeOK' /\ expired' <= issued'
    BY <2>1, <2>2 DEF EnrollInv, EnrollTypeOK, materialVars
  <2>4. ManifestInv'
    BY <2>1, <2>2, ManifestKept DEF EnrollInv, Keys
  <2>5. WriterInv'
    <3>1. WritingInv => WritingInv'
      BY <2>1 DEF WritingInv, WholePair, Written, Stage, materialVars
    <3>. QED
      BY <2>1, <3>1, MaterialKept DEF EnrollInv, WriterInv
  <2>6. ReaderInv'
    BY <2>1, ReaderKept DEF EnrollInv, ReaderInv
  <2>. QED
    BY <2>3, <2>4, <2>5, <2>6 DEF EnrollInv
<1>3. CASE Stop
  <2>1. EnrollTypeOK' /\ expired' <= issued'
    BY <1>3 DEF Stop, EnrollInv, EnrollTypeOK, materialVars
  <2>2. ManifestInv'
    BY <1>3, ManifestKept DEF Stop, EnrollInv, EnrollTypeOK, Keys
  <2>. QED
    BY <1>3, <2>1, <2>2 DEF Stop, EnrollInv, WriterInv, ReaderInv
<1>. QED
  BY <1>1, <1>2, <1>3

LEMMA EnrollStep == EnrollInv /\ [EnrollNext]_enrollVars => EnrollInv'
<1>. SUFFICES ASSUME EnrollInv, [EnrollNext]_enrollVars PROVE EnrollInv'
  OBVIOUS
<1>1. CASE StartDaemon \/ EnrollCommand
  BY <1>1, StartsKeep
<1>2. CASE Renew
  BY <1>2, RenewKeeps
<1>3. CASE WriterStep
  <2>1. CASE \E b \in Bundles : \E ca \in CAs : Issue(b, ca)
    BY <2>1, IssueKeeps
  <2>2. CASE \E outcome \in Outcomes : Persist(outcome)
    BY <2>2, PersistKeeps
  <2>. QED
    BY <1>3, <2>1, <2>2, OthersKeep DEF WriterStep
<1>4. CASE Handshake
  BY <1>4, HandshakeKeeps
<1>. QED
  BY <1>1, <1>2, <1>3, <1>4, OthersKeep DEF EnrollNext
-----------------------------------------------------------------------------
LEMMA EnrollInductive == EnrollSpec => []EnrollInv
<1>1. EnrollInit => EnrollInv
  BY EnrollInitInv
<1>2. EnrollInv /\ [EnrollNext]_enrollVars => EnrollInv'
  BY EnrollStep
<1>. QED
  BY <1>1, <1>2, PTL DEF EnrollSpec

\* Every variable of the identity keeps its type (persistGeneration,
\* GetClientCertificate, Enroll, Renew).
THEOREM EnrollmentTypes == EnrollSpec => []EnrollTypeOK
<1>1. EnrollInv => EnrollTypeOK
  BY DEF EnrollInv
<1>. QED
  BY <1>1, EnrollInductive, PTL

\* Whatever interrupts persistGeneration, the manifest names a complete
\* generation whose certificate is for its key and verifies, unless Control
\* sent it with a chain that lacks its issuer.
THEOREM ManifestIsWhole == EnrollSpec => []ManifestWhole
<1>1. EnrollInv => ManifestWhole
  BY WholeParts DEF EnrollInv, ManifestInv, ManifestWhole, WholePair
<1>. QED
  BY <1>1, EnrollInductive, PTL

\* However a renewal interleaves with GetClientCertificate, the certificate
\* the handshake ends up with is for the key it ends up with.
THEOREM HandshakesMatch == EnrollSpec => []HandshakeMatches
<1>1. EnrollInv => HandshakeMatches
  BY DEF EnrollInv, ReaderInv, HandshakeMatches, AtStep
<1>. QED
  BY <1>1, EnrollInductive, PTL

\* No step but the passing of time, and a renewal answered with a chain that
\* lacks the issuer, takes a usable identity away from the next start.
THEOREM IdentityStaysUsable == EnrollSpec => StaysUsable
<1>. DEFINE Usable == Enrolled /\ VerifyCertificate /\ TLSConfig
            Step == Usable /\ expired' = expired =>
                        /\ Enrolled'
                        /\ (VerifyCertificate' /\ TLSConfig') \/ Current'.cert.n \in bare'
<1>1. EnrollInv /\ [EnrollNext]_enrollVars => [Step]_enrollVars
  <2>. SUFFICES ASSUME EnrollInv, [EnrollNext]_enrollVars, Usable, expired' = expired
                PROVE  Enrolled' /\ ((VerifyCertificate' /\ TLSConfig') \/ Current'.cert.n \in bare')
    BY DEF enrollVars
  <2>1. CASE UNCHANGED materialVars
    BY <2>1, MaterialKept DEF VerifyCertificate, TLSConfig
  <2>2. CASE ~UNCHANGED materialVars
    <3>1. PICK outcome \in Outcomes : Persist(outcome)
      BY <2>2 DEF EnrollNext, WriterStep, StartDaemon, EnrollCommand, Renew, Issue, IssueFails,
                  Handshake, Expire, Stop, enrollVars
    <3>2. writer # None /\ writer.new # None /\ Put(Head(writer.todo)) /\ UNCHANGED <<issued, bare>>
      BY <2>2, <3>1 DEF Persist, EndWriter
    <3>3. WritingInv /\ EnrollTypeOK /\ ManifestInv
      BY <3>2 DEF EnrollInv, WriterInv
    <3>4. (Current' = Current \/ (Stage = 5 /\ Current' = writer.new)) /\ Enrolled'
      BY <3>2, <3>3, PutCurrent
    <3>5. CASE Current' = Current
      BY <3>4, <3>5 DEF VerifyCertificate, TLSConfig
    <3>6. CASE Stage = 5 /\ Current' = writer.new
      <4>1. /\ WholePair(writer.new) /\ writer.new.cert.n = issued /\ manifest # issued
            /\ issued \in Nat
        BY <3>3, <3>6 DEF WritingInv, Issues
      <4>2. expired < issued
        \* A certificate in use that has not expired is older than the new one.
        <5>1. Current.cert.n <= issued /\ Current.cert.n > expired
          BY <3>3, CurrentWhole DEF VerifyCertificate
        <5>2. Current.cert.n \in Int /\ expired \in Int
          BY <3>3, CurrentWhole, WholeParts, EnrollmentAssumption DEF WholePair, Keys, EnrollTypeOK
        <5>. QED
          BY <4>1, <5>1, <5>2
      <4>3. /\ Current'.cert # None /\ Current'.ca # None
            /\ Current'.cert.ca \in Current'.ca \/ Current'.cert.n \in bare'
            /\ Current'.cert.n > expired' /\ Current'.cert.key = Current'.key
        <5>1. writer.new.cert # None /\ writer.new.ca # None
          BY <4>1, WholeParts DEF WholePair
        <5>. QED
          BY <3>2, <3>6, <4>1, <4>2, <5>1 DEF WholePair, EnrollInv, EnrollTypeOK
      <4>. QED
        BY <3>4, <4>3 DEF VerifyCertificate, TLSConfig
    <3>. QED
      BY <3>4, <3>5, <3>6
  <2>. QED
    BY <2>1, <2>2
<1>. QED
  BY <1>1, EnrollInductive, PTL DEF EnrollSpec, StaysUsable
=============================================================================
