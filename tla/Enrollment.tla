----------------------------- MODULE Enrollment ------------------------------
(***************************************************************************)
(* internal/enrollment: the agent's mTLS identity.  Every enrollment and   *)
(* renewal writes a generation directory with key, certificate and CA      *)
(* bundle, commits it by replacing the manifest, and then refreshes the    *)
(* mirrors under the legacy names.  Readers resolve each file through the  *)
(* manifest, one file at a time, without a lock.                           *)
(*                                                                         *)
(* Control is external: it signs the certificate request or fails.         *)
(***************************************************************************)
EXTENDS Durable, Integers, Sequences

CONSTANTS
    CAs,        \* certificate authorities of Control
    Bundles,    \* what Control sends with a certificate: CACertificate, None when
                \* empty, and the CAs of CAChain, {} when its entries are blank
    MaxIssued   \* bound: certificates issued, and generations written

Issues == 1 .. MaxIssued

\* A certificate for a key, numbered in the order of issue (0: before the
\* model begins).  A key carries the number of the certificate it was made for.
Keys == 0 .. MaxIssued
Certificate == [key: Keys, n: Keys, ca: CAs]
Material == [key: Keys \cup {None}, cert: Certificate \cup {None},
             ca: (SUBSET CAs) \cup {None}]
Whole == [key: Keys, cert: Certificate, ca: SUBSET CAs]
Absent == [key |-> None, cert |-> None, ca |-> None]

Steps == {"mkdir", "key", "cert", "ca", "manifest", "mirrorKey", "mirrorCert", "mirrorCA"}
Writer == [op: {"enroll", "renew"}, key: Keys, new: Whole \cup {None}, todo: Seq(Steps)]
Places == Issues \cup {None}
Reader == [certAt: Places, keyAt: Places, cert: Certificate \cup {None},
           key: Keys \cup {None}, step: {"key", "readCert", "readKey", "done"}]

ASSUME EnrollmentAssumption ==
    /\ Bundles \subseteq [ca: CAs \cup {None}, chain: (SUBSET CAs) \cup {None}]
    /\ MaxIssued \in Nat

\* The absent file, authority, place, writer or reader is none of them.
ASSUME NoneIsNoMaterial ==
    /\ None \notin CAs
    /\ None \notin Keys /\ None \notin Certificate /\ \A set \in SUBSET CAs : set # None
    /\ None \notin Material
    /\ None \notin Writer /\ None \notin Reader

VARIABLES
    gens,       \* generation directories
    manifest,   \* the generation material-manifest.json names
    mirror,     \* the files under their legacy names
    issued,     \* certificates issued so far
    expired,    \* certificates up to this number have expired
    writer,     \* Enroll or Renew in progress (materialWriter, writer.lock)
    reader,     \* a TLS handshake choosing its client certificate
    proc,       \* "down", "daemon", or "cli": the enroll subcommand
    bare        \* history: certificates that came with a chain without their issuer

materialVars == <<gens, manifest, mirror>>
enrollVars == <<materialVars, issued, expired, writer, reader, proc, bare>>

EnrollTypeOK ==
    /\ gens \in [Issues -> Material \cup {None}]
    /\ manifest \in Places
    /\ mirror \in Material
    /\ issued \in Keys
    /\ expired \in -1 .. MaxIssued
    /\ writer \in Writer \cup {None}
    /\ reader \in Reader \cup {None}
    /\ proc \in {"down", "daemon", "cli"}
    /\ bare \subseteq Issues

\* Material of an agent from before the manifest existed.
Legacy(ca) == [key |-> 0, cert |-> [key |-> 0, n |-> 0, ca |-> ca], ca |-> {ca}]

EnrollInit ==
    /\ gens = [g \in Issues |-> None]
    /\ manifest = None
    /\ mirror \in {Absent} \cup {Legacy(ca) : ca \in CAs}
    /\ issued = 0 /\ expired = -1
    /\ writer = None /\ reader = None
    /\ proc = "down"
    /\ bare = {}
-----------------------------------------------------------------------------
\* materialPath: the generation a file is resolved to, None for the mirrors.
materialPath == manifest

FilesAt(place) == IF place = None THEN mirror ELSE gens[place]

Current == FilesAt(materialPath)

Enrolled == \A f \in {"key", "cert", "ca"} : Current[f] # None

alreadyEnrolled == Enrolled /\ Current.cert.n > expired

\* VerifyCertificate (x509.Verify refuses an expired certificate too), and the
\* condition under which the daemon asks for it.
VerifyCertificate ==
    /\ Current.cert # None /\ Current.ca # None
    /\ Current.cert.ca \in Current.ca
    /\ Current.cert.n > expired

verifyStartCertificate ==
    mirror.cert # None /\ mirror.ca # None => VerifyCertificate

\* TLSConfig: key and certificate must form a pair, and the bundle hold a CA.
TLSConfig == Enrolled /\ Current.cert.key = Current.key /\ Current.ca # {}
-----------------------------------------------------------------------------
StartWriter(op, key) ==
    writer' = [op |-> op, key |-> key, new |-> None, todo |-> <<>>]

\* Enroll up to its request: a fresh key, unless the identity is still valid.
Enroll ==
    /\ writer = None /\ ~alreadyEnrolled /\ issued < MaxIssued
    /\ StartWriter("enroll", issued + 1)

\* Mutant: a renewal with a fresh key.
RenewFresh ==
    /\ writer = None /\ proc = "daemon" /\ Enrolled /\ TLSConfig /\ issued < MaxIssued
    /\ StartWriter("renew", issued + 1)
    /\ UNCHANGED <<materialVars, issued, expired, reader, proc, bare>>

\* Renew up to its request, with the key in use.
Renew ==
    /\ writer = None /\ proc = "daemon" /\ Enrolled /\ TLSConfig /\ issued < MaxIssued
    /\ StartWriter("renew", Current.key)
    /\ UNCHANGED <<materialVars, issued, expired, reader, proc, bare>>

\* Mutant: the chain is dropped.
caBundleForCAOnly(b) == {b.ca}

\* The chain, when there is one, supersedes the CA, whatever its entries hold.
caBundleFor(b) == IF b.chain # None THEN b.chain ELSE {b.ca}

\* loadTrustAnchors joins the CA and the chain.
loadTrustAnchors(b) == {b.ca} \cup (IF b.chain = None THEN {} ELSE b.chain)

validateIssuedCertificate(cert, b, key) ==
    cert.key = key /\ cert.ca \in loadTrustAnchors(b)

\* Mutant: the manifest is replaced before the generation is complete.
persistGenerationManifestFirst ==
    <<"mkdir", "manifest", "key", "cert", "ca", "mirrorKey", "mirrorCert", "mirrorCA">>

\* File by file: the generation, the manifest that commits it, the mirrors.
persistGeneration ==
    <<"mkdir", "key", "cert", "ca", "manifest", "mirrorKey", "mirrorCert", "mirrorCA">>

\* The daemon gives up when its enrollment fails, or leaves an identity that
\* cannot be loaded; the subcommand ends anyway.
EndWriter(failed) ==
    /\ writer' = None
    /\ proc' = IF proc = "cli" \/ (writer.op = "enroll" /\ (failed \/ ~TLSConfig'))
               THEN "down" ELSE proc
    /\ reader' = IF proc' = "down" THEN None ELSE reader
    /\ UNCHANGED bare

\* Control signs the request (a renewal only over a valid certificate), and
\* the answer is accepted and about to be persisted.
Issue(b, ca) ==
    LET n == issued + 1
        cert == [key |-> writer.key, n |-> n, ca |-> ca]
    IN  /\ writer # None /\ writer.new = None /\ issued < MaxIssued
        /\ writer.op = "renew" => Current.cert.n > expired
        /\ validateIssuedCertificate(cert, b, writer.key)
        /\ issued' = n
        /\ writer' = [writer EXCEPT !.new = [key |-> writer.key, cert |-> cert,
                                             ca |-> caBundleFor(b)],
                                    !.todo = persistGeneration]
        /\ bare' = IF b.chain # None /\ ca \notin b.chain THEN bare \cup {n} ELSE bare
        /\ UNCHANGED <<materialVars, expired, reader, proc>>

\* No answer, an error, or one that validation refuses.  Control may have
\* signed a certificate that nobody keeps.
IssueFails ==
    /\ writer # None /\ writer.new = None
    /\ EndWriter(TRUE)
    /\ UNCHANGED <<materialVars, issued, expired>>

\* One file of the generation or of the mirrors is replaced.
Put(step) ==
    LET g == writer.new.cert.n
        new == writer.new
    IN  /\ gens' = CASE step = "mkdir" -> [gens EXCEPT ![g] = Absent]
                     [] step = "key" -> [gens EXCEPT ![g].key = new.key]
                     [] step = "cert" -> [gens EXCEPT ![g].cert = new.cert]
                     [] step = "ca" -> [gens EXCEPT ![g].ca = new.ca]
                     [] OTHER -> gens
        /\ manifest' = IF step = "manifest" THEN g ELSE manifest
        /\ mirror' = CASE step = "mirrorKey" -> [mirror EXCEPT !.key = new.key]
                       [] step = "mirrorCert" -> [mirror EXCEPT !.cert = new.cert]
                       [] step = "mirrorCA" -> [mirror EXCEPT !.ca = new.ca]
                       [] OTHER -> mirror

Persist(outcome) ==
    /\ writer # None /\ writer.new # None
    /\ IF outcome = "failed" THEN UNCHANGED materialVars ELSE Put(Head(writer.todo))
    /\ IF outcome = "ok" /\ Len(writer.todo) > 1
       THEN /\ writer' = [writer EXCEPT !.todo = Tail(@)]
            /\ UNCHANGED <<reader, proc, bare>>
       ELSE EndWriter(outcome # "ok")
    /\ UNCHANGED <<issued, expired>>
-----------------------------------------------------------------------------
\* startPolling: an agent without identity enrolls first (it has a token); one
\* with an identity must be able to load it.
StartDaemon ==
    /\ proc = "down" /\ verifyStartCertificate
    /\ IF Enrolled
       THEN TLSConfig /\ UNCHANGED writer
       ELSE Enroll
    /\ proc' = "daemon"
    /\ UNCHANGED <<materialVars, issued, expired, reader, bare>>

\* nubit-agent enroll --token, which takes writer.lock.
EnrollCommand ==
    /\ proc = "down"
    /\ Enroll
    /\ proc' = "cli"
    /\ UNCHANGED <<materialVars, issued, expired, reader, bare>>

\* The daemon's client exists once the identity does.
Polling == proc = "daemon" /\ (writer # None => writer.op = "renew") /\ Enrolled

\* GetClientCertificate: two paths are resolved, then both files are read.
AtStep(step) == reader # None /\ reader.step = step

Handshake ==
    /\ Polling
    /\ \/ /\ reader = None \/ AtStep("done")
          /\ reader' = [certAt |-> materialPath, keyAt |-> None, cert |-> None,
                        key |-> None, step |-> "key"]
       \/ /\ AtStep("key")
          /\ reader' = [reader EXCEPT !.keyAt = materialPath, !.step = "readCert"]
       \/ /\ AtStep("readCert")
          /\ reader' = [reader EXCEPT !.cert = FilesAt(reader.certAt).cert,
                                      !.step = "readKey"]
       \/ /\ AtStep("readKey")
          /\ reader' = [reader EXCEPT !.key = FilesAt(reader.keyAt).key, !.step = "done"]
    /\ UNCHANGED <<materialVars, issued, expired, writer, proc, bare>>

\* Time passes: the newest certificate expires too.
Expire ==
    /\ expired < issued
    /\ expired' = issued
    /\ UNCHANGED <<materialVars, issued, writer, reader, proc, bare>>

\* A crash, a kill, or a clean exit.
Stop ==
    /\ proc # "down"
    /\ proc' = "down" /\ writer' = None /\ reader' = None
    /\ UNCHANGED <<materialVars, issued, expired, bare>>

WriterStep ==
    \/ \E b \in Bundles : \E ca \in CAs : Issue(b, ca)
    \/ IssueFails
    \/ \E outcome \in Outcomes : Persist(outcome)

EnrollNext ==
    \/ StartDaemon \/ EnrollCommand \/ Renew
    \/ WriterStep
    \/ Handshake \/ Expire \/ Stop

EnrollSpec == EnrollInit /\ [][EnrollNext]_enrollVars
-----------------------------------------------------------------------------
\* The manifest always names a complete generation whose certificate is for
\* its key, wherever a crash or a failing write hits persistGeneration, and
\* verifies against its bundle.  The exception is exact: the answer is checked
\* against its CA and its chain together, of which caBundleFor keeps the chain
\* alone, so a chain that lacks the issuer (or has only blank entries) is
\* accepted and stored as a bundle the certificate does not verify against.
ManifestWhole ==
    manifest # None =>
        LET m == gens[manifest]
        IN  /\ m.key # None /\ m.cert # None /\ m.ca # None
            /\ m.cert.key = m.key
            /\ m.cert.ca \in m.ca \/ m.cert.n \in bare

\* A handshake never pairs the certificate of one key with another key,
\* although it resolves and reads the two files one after the other while a
\* renewal replaces them: a renewal keeps the key, and an enrollment, which
\* does not, never runs beside a handshake.
HandshakeMatches ==
    AtStep("done") => reader.cert.key = reader.key

\* But for the passing of time and a certificate whose chain lacks its issuer,
\* an identity once complete stays complete and acceptable to the next start:
\* no renewal or re-enrollment, finished or cut short, locks the daemon out.
StaysUsable ==
    [][Enrolled /\ VerifyCertificate /\ TLSConfig /\ expired' = expired
        => /\ Enrolled'
           /\ (VerifyCertificate' /\ TLSConfig') \/ Current'.cert.n \in bare']_enrollVars
=============================================================================
