------------------------------ MODULE Databases ------------------------------
(***************************************************************************)
(* internal/database: a site's databases, its database users and their     *)
(* grants, on MariaDB.  The server is external: a user's three accounts,   *)
(* one for each host it may connect from, are taken as one, which exists,  *)
(* or has a privilege, when all three do.  Dropping a database keeps the   *)
(* privileges on its name; dropping a user drops the user's.               *)
(***************************************************************************)
EXTENDS SiteRecord, FiniteSets

VARIABLES
    databases,      \* databases on the server
    roles,          \* users on the server
    privileges,     \* GRANTs on the server
    lost            \* history: accesses taken away by a command that failed, or
                    \* was cut short, and left them in the record

serverVars == <<databases, roles, privileges, lost>>

DatabaseTypeOK ==
    /\ databases \subseteq Databases
    /\ roles \subseteq Roles
    /\ privileges \subseteq Databases \X Roles
    /\ lost \subseteq Databases \X Roles

contains(seq, x) == \E i \in DOMAIN seq : seq[i] = x

appendUnique(seq, x) == IF contains(seq, x) THEN seq ELSE Append(seq, x)

\* remove(values, target), and what it leaves in the slice it was given: the
\* result is built in place, so the tail keeps its old values.
kept(seq, x) == {i \in DOMAIN seq : seq[i] # x}
position(seq, x, i) == Cardinality({j \in kept(seq, x) : j <= i})
remove(seq, x) ==
    [n \in 1 .. Cardinality(kept(seq, x)) |->
        seq[CHOOSE i \in kept(seq, x) : position(seq, x, i) = n]]
Clobbered(seq, x) ==
    [i \in DOMAIN seq |-> IF i <= Len(remove(seq, x)) THEN remove(seq, x)[i] ELSE seq[i]]

granted(grants, r) == \E d \in Databases : <<d, r>> \in grants

DatabaseInit ==
    /\ databases = {d \in Databases : contains(state.databases, d)}
    /\ roles = {r \in Roles : contains(state.users, r)}
    /\ privileges = state.grants
    /\ lost = {}
-----------------------------------------------------------------------------
(* The commands up to their first statement.  A command that finds its     *)
(* work done, or that does not belong to the site, changes nothing.        *)

DatabaseJob(op, d, r, todo) == [NewJob(op, todo) EXCEPT !.database = d, !.role = r]

Create(d, r) ==
    /\ ~contains(state.databases, d)
    /\ Begin(DatabaseJob("create", d, r, <<"createSQL", "save">>))
    /\ UNCHANGED serverVars

RotatePassword(d, r) ==
    /\ contains(state.databases, d)
    /\ Begin(DatabaseJob("rotate", d, r, <<"rotateSQL">>))
    /\ UNCHANGED serverVars

\* Whether the role goes too is decided after the database is dropped.
Delete(d, r) ==
    /\ contains(state.databases, d)
    /\ Begin(DatabaseJob("delete", d, r, <<"dropDatabase", "dropRole", "save">>))
    /\ UNCHANGED serverVars

CreateUser(r) ==
    /\ ~contains(state.users, r)
    /\ Begin(DatabaseJob("createUser", None, r, <<"createUserSQL", "save">>))
    /\ UNCHANGED serverVars

DeleteUser(r) ==
    /\ contains(state.users, r)
    /\ Begin(DatabaseJob("deleteUser", None, r, <<"dropRole", "save">>))
    /\ UNCHANGED serverVars

pair(d, r) == contains(state.databases, d) /\ contains(state.users, r)

Grant(d, r) ==
    /\ pair(d, r) /\ <<d, r>> \notin state.grants
    /\ Begin(DatabaseJob("grant", d, r, <<"grantSQL", "save">>))
    /\ UNCHANGED serverVars

Revoke(d, r) ==
    /\ pair(d, r) /\ <<d, r>> \in state.grants
    /\ Begin(DatabaseJob("revoke", d, r, <<"revokeSQL", "save">>))
    /\ UNCHANGED serverVars
-----------------------------------------------------------------------------
(* The statements.                                                         *)

Statements == {"createSQL", "rotateSQL", "createUserSQL", "dropDatabase", "dropRole",
               "grantSQL", "revokeSQL"}

Access == <<job.database, job.role>>

\* The server refuses a grant to a missing user and the revocation of what was
\* not granted; the other statements say IF EXISTS or IF NOT EXISTS.
Accepts ==
    CASE Step = "grantSQL" -> job.role \in roles
      [] Step = "revokeSQL" -> Access \in privileges
      [] OTHER -> TRUE

SQL ==
    /\ databases' = CASE Step = "createSQL" -> databases \cup {job.database}
                      [] Step = "dropDatabase" -> databases \ {job.database}
                      [] OTHER -> databases
    /\ roles' = CASE Step \in {"createSQL", "rotateSQL", "createUserSQL"} -> roles \cup {job.role}
                  [] Step = "dropRole" -> roles \ {job.role}
                  [] OTHER -> roles
    /\ privileges' = CASE Step \in {"createSQL", "grantSQL"} -> privileges \cup {Access}
                       [] Step = "revokeSQL" -> privileges \ {Access}
                       [] Step = "dropRole" -> {p \in privileges : p[2] # job.role}
                       [] OTHER -> privileges

\* The edits a manager makes to its copy of the entry after a statement ...
Edited ==
    CASE Step = "createSQL" ->
            [job.new EXCEPT !.databases = Append(@, job.database),
                            !.users = appendUnique(@, job.role),
                            !.grants = @ \cup {Access}]
      [] Step = "createUserSQL" -> [job.new EXCEPT !.users = appendUnique(@, job.role)]
      [] Step = "dropDatabase" ->
            [job.new EXCEPT !.databases = remove(@, job.database),
                            !.grants = {g \in @ : g[1] # job.database}]
      [] Step = "dropRole" ->
            [job.new EXCEPT !.users = remove(@, job.role),
                            !.grants = IF job.op = "delete" THEN @
                                       ELSE {g \in @ : g[2] # job.role}]
      [] Step = "grantSQL" -> [job.new EXCEPT !.grants = @ \cup {Access}]
      [] Step = "revokeSQL" -> [job.new EXCEPT !.grants = @ \ {Access}]
      [] OTHER -> job.new

\* ... and what of them the store shows at once, because Get hands out its own
\* slices and map: a removal shifts the slice, an append stays invisible, the
\* map is the same one unless there was none.
Shows ==
    [databases: {IF Step = "dropDatabase"
                 THEN Clobbered(state.databases, job.database) ELSE state.databases},
     users: {IF Step = "dropRole" THEN Clobbered(state.users, job.role) ELSE state.users},
     grants: {Edited.grants} \cup (IF state.grants = {} THEN {{}} ELSE {}),
     logins: {state.logins}]

\* Delete drops the role unless another database is reachable through it.
AfterDropUnasked(new) == <<"dropRole", "save">>
AfterDrop(new) ==
    IF granted(new.grants, job.role) THEN <<"save">> ELSE <<"dropRole", "save">>

Statement ==
    /\ job # None /\ Step \in Statements /\ Accepts
    /\ SQL
    /\ IF job.undoing
       THEN Continue(job, Tail(job.todo)) /\ UNCHANGED state
       ELSE /\ state' \in Shows
            /\ Continue([job EXCEPT !.new = Edited],
                        IF Step = "dropDatabase" THEN AfterDrop(Edited) ELSE Tail(job.todo))
    /\ UNCHANGED <<stateFile, countVars, lost>>

\* The accesses a command's statements take away: Create's when it is undone.
Taken ==
    CASE job.op \in {"create", "deleteUser"} -> Databases \X {job.role}
      [] job.op = "revoke" -> {Access}
      [] OTHER -> {}

\* The command or the server fails somewhere in the batch: a user has been
\* created, by createSQL the database too, and not all privileges granted, or
\* the user or the access is gone for one host at least.  The commands undo
\* nothing here.
StatementFails ==
    /\ job # None /\ Step \in Statements
    /\ IF Accepts THEN Fault ELSE UNCHANGED faults
    /\ \/ UNCHANGED serverVars
       \/ /\ Step \in {"createSQL", "rotateSQL", "createUserSQL"}
          /\ roles' = roles \cup {job.role}
          /\ \/ UNCHANGED databases
             \/ Step = "createSQL" /\ databases' = databases \cup {job.database}
          /\ UNCHANGED <<privileges, lost>>
       \/ /\ Step \in {"dropRole", "revokeSQL"} /\ Accepts
          /\ SQL
          /\ lost' = lost \cup Taken
    /\ GiveUp(IF job.undoing THEN Tail(job.todo) ELSE <<>>)
    /\ parted' = IF job.op = "delete" /\ Step = "dropRole"
                 THEN parted \cup {job.database} ELSE parted
    /\ UNCHANGED <<recordVars, ops>>

SaveRecord ==
    /\ job # None /\ job.op \in DatabaseOps /\ Step = "save"
    /\ Save("ok")
    /\ Continue(job, <<>>)
    /\ parted' = IF job.op \in {"create", "delete"} THEN parted \ {job.database} ELSE parted
    /\ lost' = lost \ CASE job.op \in {"create", "grant", "revoke"} -> {Access}
                         [] job.op = "delete" -> {job.database} \X Roles
                         [] job.op = "deleteUser" -> Databases \X {job.role}
                         [] OTHER -> {}
    /\ UNCHANGED <<databases, roles, privileges, ops, faults>>

\* What Create and CreateUser undo; the other commands just return the error.
UndoSave ==
    CASE job.op = "create" -> <<"dropDatabase", "dropRole">>
      [] job.op = "createUser" -> <<"dropRole">>
      [] OTHER -> <<>>

\* Create's rollback drops the role, which takes it from every other database
\* it opens; the record may already have the new one.
SaveRecordFails(outcome) ==
    /\ job # None /\ job.op \in DatabaseOps /\ Step = "save"
    /\ outcome # "ok" /\ Fault
    /\ Save(outcome)
    /\ GiveUp(UndoSave)
    /\ parted' = parted \cup (IF job.op \in {"create", "delete"} THEN {job.database} ELSE {})
    /\ lost' = lost \cup (IF job.op = "create" THEN Taken ELSE {})
    /\ UNCHANGED <<databases, roles, privileges, ops>>

\* A new process reads accesses from the file that memory had given up.
RestartLoses ==
    /\ lost' = lost \cup (stateFile.grants \ state.grants)
    /\ UNCHANGED <<databases, roles, privileges>>

DatabaseCommand ==
    \/ \E d \in Databases, r \in Roles :
          Create(d, r) \/ RotatePassword(d, r) \/ Delete(d, r) \/ Grant(d, r) \/ Revoke(d, r)
    \/ \E r \in Roles : CreateUser(r) \/ DeleteUser(r)

DatabaseNext ==
    \/ DatabaseCommand
    \/ Statement \/ StatementFails \/ SaveRecord
    \/ \E outcome \in Outcomes : SaveRecordFails(outcome)
-----------------------------------------------------------------------------
\* Every access the record promises works on the server: no deletion takes a
\* user away from a database that is reached through it, a command that fails
\* hurts no access but those it was to take away, and no failing save leaves
\* the entry in memory promising what the statements took.  Excepted are the
\* accesses of a user that Create's rollback dropped, those whose deletion or
\* revocation failed in the middle of its batch, and those a restart brings
\* back from a file that lacks a removal; and a database may be gone whose
\* deletion or creation failed.
RecordedAccessWorks ==
    job = None =>
        \A g \in state.grants \ lost :
            /\ g[2] \in roles /\ g \in privileges
            /\ g[1] \in databases \cup parted
=============================================================================
