------------------------------- MODULE Access --------------------------------
(***************************************************************************)
(* internal/access: SFTP logins.  The site's own user has one, and every   *)
(* label a further one with a unix account of its own.  A login has a key  *)
(* file, which sshd reads at each connection as the connecting user, and a *)
(* block of sshd configuration, which sshd reads when it is reloaded.      *)
(*                                                                         *)
(* Validation of names, keys and directories comes before any change and   *)
(* is left out: commands that fail it change nothing.                      *)
(***************************************************************************)
EXTENDS SiteRecord

VARIABLES
    keys,       \* key files: the key and whether the login owns the file
    confs,      \* configuration blocks on disk
    loaded,     \* configuration blocks of the running sshd
    accounts,   \* unix accounts of labels
    acls,       \* ACL entries of labels: on the site's files, on their parent
    accepted,   \* history: the key of the last command that answered success
    undone      \* history: logins whose last command failed and was rolled back

hostVars == <<keys, confs, loaded, accounts, acls>>
accessVars == <<hostVars, accepted, undone>>

KeyFile == [key: PublicKeys, owned: BOOLEAN]

ASSUME NoneIsNoKeyFile == None \notin KeyFile

AccessTypeOK ==
    /\ keys \in [Logins -> KeyFile \cup {None}]
    /\ confs \subseteq Logins /\ loaded \subseteq Logins
    /\ accounts \subseteq Labels
    /\ acls \subseteq Labels \X {"site", "parent"}
    /\ accepted \in [Logins -> PublicKeys \cup {None}]
    /\ undone \subseteq Logins

AccessInit ==
    /\ keys = [l \in Logins |-> None]
    /\ confs = {} /\ loaded = {} /\ accounts = {} /\ acls = {}
    /\ accepted = [l \in Logins |-> None] /\ undone = {}
-----------------------------------------------------------------------------
(* The commands.                                                           *)

KeyOf(l) == IF keys[l] = None THEN None ELSE keys[l].key

AccessJob(op, l, k, todo) ==
    [NewJob(op, todo) EXCEPT !.login = l, !.key = k, !.oldKey = KeyOf(l),
                             !.oldConf = l \in confs]

KeySteps == <<"writeKey", "chown", "writeConf", "reload", "save">>

\* Create and UpdateKey of the site's own login.
applyKey(k, requireAbsent) ==
    /\ requireAbsent => keys[Own] = None
    /\ Begin(AccessJob("applyKey", Own, k, KeySteps))
    /\ UNCHANGED accessVars

\* Revoke: nothing to do when both files are gone, an error when one is.
RevokeKey ==
    /\ keys[Own] # None /\ Own \in confs
    /\ Begin(AccessJob("revokeKey", Own, None, <<"rmKey", "rmConf", "reload", "save">>))
    /\ UNCHANGED accessVars

\* CreateFTPUser; for a label that is recorded it only reapplies the key.
CreateFTPUser(l, k) ==
    /\ Begin(IF l \in state.logins
             THEN AccessJob("applyLogin", l, k, <<"acl">> \o KeySteps)
             ELSE AccessJob("createLogin", l, k, <<"useradd", "passwd", "acl">> \o KeySteps))
    /\ UNCHANGED accessVars

\* ftpDirectory reads the directory from the configuration block.
UpdateFTPKey(l, k) ==
    /\ l \in state.logins /\ l \in confs
    /\ Begin(AccessJob("applyLogin", l, k, <<"acl">> \o KeySteps))
    /\ UNCHANGED accessVars

DeleteFTPUser(l) ==
    /\ l \in state.logins
    /\ Begin(AccessJob("deleteLogin", l, None,
                       <<"rmConf", "rmKey", "reload", "rmAcl", "userdel", "save">>))
    /\ UNCHANGED accessVars
-----------------------------------------------------------------------------
(* The steps.                                                              *)

\* passwd, setfacl, chown and userdel need the account, useradd its absence.
Possible ==
    LET l == job.login
    IN  CASE Step = "useradd" -> l \notin accounts
          [] Step \in {"passwd", "acl", "chown", "userdel"} -> l = Own \/ l \in accounts
          [] OTHER -> TRUE

\* restore: the old contents, or no file.  The file is root's again.
Restored == IF job.oldKey = None THEN None ELSE [key |-> job.oldKey, owned |-> FALSE]

Do ==
    LET l == job.login
    IN  /\ keys' = CASE Step = "writeKey" ->
                            [keys EXCEPT ![l] = [key |-> job.key, owned |-> FALSE]]
                     [] Step = "chown" -> [keys EXCEPT ![l].owned = TRUE]
                     [] Step = "rmKey" -> [keys EXCEPT ![l] = None]
                     [] Step = "restoreKey" -> [keys EXCEPT ![l] = Restored]
                     [] OTHER -> keys
        /\ confs' = CASE Step = "writeConf" -> confs \cup {l}
                      [] Step = "rmConf" -> confs \ {l}
                      [] Step = "restoreConf" ->
                            IF job.oldConf THEN confs \cup {l} ELSE confs \ {l}
                      [] OTHER -> confs
        /\ loaded' = IF Step = "reload" THEN confs ELSE loaded
        /\ accounts' = CASE Step = "useradd" -> accounts \cup {l}
                         [] Step = "userdel" -> accounts \ {l}
                         [] OTHER -> accounts
        /\ acls' = CASE Step = "acl" -> acls \cup ({l} \X {"site", "parent"})
                     [] Step = "rmAcl" -> acls \ {<<l, "site">>}
                     [] OTHER -> acls

AccessStep ==
    /\ job # None /\ job.op \in AccessOps /\ Step # "save" /\ Possible
    /\ Do
    /\ Continue(job, Tail(job.todo))
    /\ UNCHANGED <<recordVars, countVars, accepted, undone>>

\* The undo steps of a command whose step failed: those of the files, and the
\* account last when the command made it.
UndoFiles(step) ==
    CASE step \in {"chown", "writeConf"} -> <<"restoreKey">>
      [] step = "rmConf" -> <<"restoreKey">>
      [] step = "reload" -> <<"restoreKey", "restoreConf">>
      [] step = "save" -> <<"restoreKey", "restoreConf", "reload">>
      [] OTHER -> <<>>

UndoFilesOnly(step) ==
    CASE job.op = "deleteLogin" -> <<>>
      [] OTHER -> UndoFiles(step)

Undo(step) ==
    CASE job.op = "deleteLogin" -> <<>>
      [] job.op = "createLogin" /\ step # "useradd" -> UndoFiles(step) \o <<"userdel">>
      [] OTHER -> UndoFiles(step)

\* Errors the code ignores: the removals of DeleteFTPUser, and the undo steps.
Ignored == job.undoing \/ (job.op = "deleteLogin" /\ Step \in {"rmConf", "rmKey", "rmAcl"})

\* A step fails, without effect or, for the several calls behind "acl", with
\* some of it.
AccessStepFails ==
    /\ job # None /\ job.op \in AccessOps /\ Step # "save"
    /\ IF Possible THEN Fault ELSE UNCHANGED faults
    /\ acls' \in {acls} \cup (IF Step = "acl" /\ Possible
                              THEN {acls \cup {<<job.login, "site">>}} ELSE {})
    /\ IF Ignored THEN Continue(job, Tail(job.todo)) ELSE GiveUp(Undo(Step))
    /\ parted' = IF job.undoing \/ job.op = "deleteLogin"
                 THEN parted \cup {job.login} ELSE parted
    /\ undone' = undone \cup {job.login}
    /\ UNCHANGED <<recordVars, ops, keys, confs, loaded, accounts, accepted>>

\* The entry a command saves.
Recording ==
    IF job.op \in {"revokeKey", "deleteLogin"}
    THEN [job EXCEPT !.new.logins = @ \ {job.login}]
    ELSE [job EXCEPT !.new.logins = @ \cup {job.login}]

SaveAccess(outcome) ==
    /\ stateFile' = AtomicWrite(stateFile, Recording.new, outcome)
    /\ state' = MemoryAfter(state, Recording.new, outcome)

AccessSaved ==
    /\ job # None /\ job.op \in AccessOps /\ Step = "save"
    /\ SaveAccess("ok")
    /\ Continue(job, <<>>)
    /\ accepted' = [accepted EXCEPT ![job.login] = job.key]
    /\ parted' = IF job.op = "deleteLogin" THEN parted ELSE parted \ {job.login}
    /\ undone' = undone \ {job.login}
    /\ UNCHANGED <<hostVars, ops, faults>>

\* The rollback follows whether or not the record is in the file.
AccessSaveFails(outcome) ==
    /\ job # None /\ job.op \in AccessOps /\ Step = "save"
    /\ outcome # "ok" /\ Fault
    /\ SaveAccess(outcome)
    /\ GiveUp(Undo("save"))
    /\ parted' = IF job.op = "deleteLogin" \/ IsCommitted(outcome)
                 THEN parted \cup {job.login} ELSE parted
    /\ undone' = undone \cup {job.login}
    /\ UNCHANGED <<hostVars, accepted, ops>>

AccessCommand ==
    \/ \E k \in PublicKeys : \E requireAbsent \in BOOLEAN : applyKey(k, requireAbsent)
    \/ RevokeKey
    \/ \E l \in Labels :
          \/ \E k \in PublicKeys : CreateFTPUser(l, k) \/ UpdateFTPKey(l, k)
          \/ DeleteFTPUser(l)

AccessNext ==
    \/ AccessCommand
    \/ AccessStep \/ AccessStepFails \/ AccessSaved
    \/ \E outcome \in Outcomes : AccessSaveFails(outcome)
-----------------------------------------------------------------------------
\* A command that answers success leaves the login as ordered, so that sshd
\* lets it in: the key on disk is the accepted one and the login's own file,
\* the running sshd has the block, and record, account and ACL entries agree.
\* A command that answers an error leaves all that as it was, but for the two
\* things no rollback restores: the owner of the key file, and the entry of a
\* login that was not made.  Excepted are logins parted by a restart, by a
\* second failure, by an interrupted deletion, or by the rollback of a save
\* that had already committed, until a command that applies or revokes a key
\* succeeds.
LoginsMatchRecord ==
    job = None =>
        \A l \in Logins \ parted :
            LET active == accepted[l] # None
            IN  /\ KeyOf(l) = accepted[l]
                /\ (l \in confs) = active
                /\ (l \in loaded) = active
                /\ (l \in state.logins) = active
                /\ active /\ l \notin undone => keys[l].owned
                /\ l \in Labels =>
                      /\ (l \in accounts) = active
                      /\ active => {l} \X {"site", "parent"} \subseteq acls
                      /\ <<l, "site">> \in acls => active \/ l \in undone
=============================================================================
