----------------------------- MODULE SiteRecord ------------------------------
(***************************************************************************)
(* One site's entry of sites.json, as far as the database and the access   *)
(* manager keep it (internal/site/state.go), and the command that edits    *)
(* it.  The executor's fence gives a site one command at a time            *)
(* (OneMutatorPerSite), and sites share no database, user or login: one    *)
(* site shows what any of them does.                                       *)
(*                                                                         *)
(* A command is a program: the steps that are left, and after a failure    *)
(* the steps that undo what was done.                                      *)
(***************************************************************************)
EXTENDS Durable, Integers, Sequences

CONSTANTS
    Databases, Roles,
    Labels,     \* names of the additional SFTP logins
    Own,        \* the login of the site's own user
    PublicKeys,
    MaxOps,     \* bound: commands started
    MaxFaults   \* bound: failing steps and restarts

Logins == Labels \cup {Own}

\* Databases and logins are names of different things.
ASSUME SiteRecordAssumption ==
    /\ MaxOps \in Nat /\ MaxFaults \in Nat
    /\ Own \notin Labels /\ None \notin PublicKeys
    /\ Logins \cap Databases = {}

VARIABLES
    state,      \* the entry of FileStateStore.states
    stateFile,  \* the entry of sites.json
    job,        \* the command that holds the fence
    ops, faults,
    parted      \* history: logins and databases that a restart, a failing
                \* rollback or a rollback of a saved record has parted from the
                \* record

recordVars == <<state, stateFile>>
countVars == <<ops, faults, parted>>

State == [databases: Seq(Databases), users: Seq(Roles),
          grants: SUBSET (Databases \X Roles), logins: SUBSET Logins]

DatabaseOps == {"create", "rotate", "delete", "createUser", "deleteUser", "grant", "revoke"}
AccessOps == {"applyKey", "revokeKey", "createLogin", "applyLogin", "deleteLogin"}

\* The steps of the two managers' commands, those that undo included.
Steps ==
    {"createSQL", "rotateSQL", "createUserSQL", "dropDatabase", "dropRole", "grantSQL",
     "revokeSQL", "useradd", "passwd", "acl", "writeKey", "chown", "writeConf", "reload",
     "rmKey", "rmConf", "rmAcl", "userdel", "restoreKey", "restoreConf", "save"}

\* new is the command's own copy of the entry; oldKey and oldConf are what the
\* access manager read before it wrote.
Job == [op: DatabaseOps \cup AccessOps, new: State, todo: Seq(Steps), undoing: BOOLEAN,
        database: Databases \cup {None}, role: Roles \cup {None},
        login: Logins \cup {None}, key: PublicKeys \cup {None},
        oldKey: PublicKeys \cup {None}, oldConf: BOOLEAN]

ASSUME NoneIsNoJob == None \notin Job

RecordTypeOK ==
    /\ state \in State /\ stateFile \in State
    /\ job \in Job \cup {None}
    /\ ops \in 0 .. MaxOps /\ faults \in 0 .. MaxFaults
    /\ parted \subseteq Logins \cup Databases

NewJob(op, todo) ==
    [op |-> op, new |-> state, todo |-> todo, undoing |-> FALSE, database |-> None,
     role |-> None, login |-> None, key |-> None, oldKey |-> None, oldConf |-> FALSE]

Begin(j) ==
    /\ job = None /\ ops < MaxOps
    /\ job' = j
    /\ ops' = ops + 1
    /\ UNCHANGED <<recordVars, faults, parted>>

Step == Head(job.todo)

\* A step is done, todo is what is left of job j.
Continue(j, todo) == job' = IF todo = <<>> THEN None ELSE [j EXCEPT !.todo = todo]

\* The command gives up: undo, and the answer is an error.
GiveUp(undo) == Continue([job EXCEPT !.undoing = TRUE], undo)

Fault == faults < MaxFaults /\ faults' = faults + 1

\* FileStateStore.Save of the command's copy.
Save(outcome) ==
    /\ stateFile' = AtomicWrite(stateFile, job.new, outcome)
    /\ state' = MemoryAfter(state, job.new, outcome)

\* What is between two of its states while the command runs: the login, or
\* the database that is being deleted.
Parts(j) ==
    CASE j.op \in AccessOps -> {j.login}
      [] j.op = "delete" -> {j.database}
      [] OTHER -> {}

\* The daemon dies and starts again: the command ends where it is, the entry
\* is read from the file.
Restart ==
    /\ Fault
    /\ parted' = parted \cup (IF job = None THEN {} ELSE Parts(job))
    /\ state' = stateFile
    /\ job' = None
    /\ UNCHANGED <<stateFile, ops>>
=============================================================================
