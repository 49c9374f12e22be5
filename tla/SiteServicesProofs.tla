------------------------- MODULE SiteServicesProofs --------------------------
(***************************************************************************)
(* Proofs about the database and the access manager of a site.             *)
(*                                                                         *)
(* A command is the program of the steps it has left, so the invariants    *)
(* say what is true of the host and of the record at each point of each    *)
(* program, forwards and while it is undone.                               *)
(***************************************************************************)
EXTENDS SiteServices, FiniteSetTheorems, SequenceTheorems, TLAPS

(***************************************************************************)
(* The programs.                                                           *)
(***************************************************************************)
DatabaseShape(j) ==
    /\ j.role \in Roles
    /\ j.op \notin {"createUser", "deleteUser"} => j.database \in Databases
    /\ ~j.undoing =>
        /\ j.op = "create" => j.todo \in {<<"createSQL", "save">>, <<"save">>}
        /\ j.op = "rotate" => j.todo = <<"rotateSQL">>
        /\ j.op = "delete" => j.todo \in {<<"dropDatabase", "dropRole", "save">>,
                                          <<"dropRole", "save">>, <<"save">>}
        /\ j.op = "createUser" => j.todo \in {<<"createUserSQL", "save">>, <<"save">>}
        /\ j.op = "deleteUser" => j.todo \in {<<"dropRole", "save">>, <<"save">>}
        /\ j.op = "grant" => j.todo \in {<<"grantSQL", "save">>, <<"save">>}
        /\ j.op = "revoke" => j.todo \in {<<"revokeSQL", "save">>, <<"save">>}
    /\ j.undoing =>
        \/ j.op = "create" /\ j.todo \in {<<"dropDatabase", "dropRole">>, <<"dropRole">>}
        \/ j.op = "createUser" /\ j.todo = <<"dropRole">>

KeyTails ==
    {<<"writeKey", "chown", "writeConf", "reload", "save">>,
     <<"chown", "writeConf", "reload", "save">>, <<"writeConf", "reload", "save">>,
     <<"reload", "save">>, <<"save">>}

LoginTails ==
    KeyTails \cup {<<"acl", "writeKey", "chown", "writeConf", "reload", "save">>}

NewLoginTails ==
    LoginTails \cup
    {<<"useradd", "passwd", "acl", "writeKey", "chown", "writeConf", "reload", "save">>,
     <<"passwd", "acl", "writeKey", "chown", "writeConf", "reload", "save">>}

RevokeTails ==
    {<<"rmKey", "rmConf", "reload", "save">>, <<"rmConf", "reload", "save">>,
     <<"reload", "save">>, <<"save">>}

DeleteTails ==
    {<<"rmConf", "rmKey", "reload", "rmAcl", "userdel", "save">>,
     <<"rmKey", "reload", "rmAcl", "userdel", "save">>,
     <<"reload", "rmAcl", "userdel", "save">>, <<"rmAcl", "userdel", "save">>,
     <<"userdel", "save">>, <<"save">>}

UndoTails ==
    {<<"restoreKey">>, <<"restoreKey", "restoreConf">>,
     <<"restoreKey", "restoreConf", "reload">>, <<"restoreConf">>,
     <<"restoreConf", "reload">>, <<"reload">>}

UndoNewTails ==
    {<<"restoreKey", "userdel">>, <<"restoreKey", "restoreConf", "userdel">>,
     <<"restoreKey", "restoreConf", "reload", "userdel">>, <<"restoreConf", "userdel">>,
     <<"restoreConf", "reload", "userdel">>, <<"reload", "userdel">>, <<"userdel">>}

AccessShape(j) ==
    /\ j.op \in {"applyKey", "revokeKey"} => j.login = Own
    /\ j.op \in {"createLogin", "applyLogin", "deleteLogin"} => j.login \in Labels
    /\ j.op \in {"applyKey", "createLogin", "applyLogin"} => j.key \in PublicKeys
    /\ j.op \in {"revokeKey", "deleteLogin"} => j.key = None
    /\ ~j.undoing =>
        /\ j.op = "applyKey" => j.todo \in KeyTails
        /\ j.op = "applyLogin" => j.todo \in LoginTails
        /\ j.op = "createLogin" => j.todo \in NewLoginTails
        /\ j.op = "revokeKey" => j.todo \in RevokeTails
        /\ j.op = "deleteLogin" => j.todo \in DeleteTails
    /\ j.undoing =>
        /\ j.op # "deleteLogin"
        /\ j.op = "createLogin" => j.todo \in UndoNewTails
        /\ j.op # "createLogin" => j.todo \in UndoTails

(***************************************************************************)
(* The record.  A command works on the entry it read: no other command     *)
(* changes the logins of the record meanwhile, and an access command's     *)
(* copy is the entry itself until it saves.                                *)
(***************************************************************************)
RecordInv ==
    /\ stateFile.logins = state.logins
    /\ job # None /\ ~job.undoing =>
        /\ job.new.logins = state.logins
        /\ job.op \in AccessOps => job.new = state

JobInv ==
    job # None =>
        /\ job.op \in DatabaseOps => DatabaseShape(job)
        /\ job.op \in AccessOps => AccessShape(job)

(***************************************************************************)
(* The database manager.                                                   *)
(***************************************************************************)
\* The access the grants promise works.
Works(grants) ==
    \A g \in grants \ lost :
        g[2] \in roles /\ g \in privileges /\ g[1] \in databases \cup parted

\* Grants are to users of the record.
ToUsers(st) == \A g \in st.grants \ lost : contains(st.users, g[2])

\* The grants Create shows before it saves are to users, but for its own.
OthersToUsers(st, r) ==
    \A g \in st.grants \ lost : g[2] = r \/ contains(st.users, g[2])

\* No access that counts is of user r.
NoneOf(grants, r) == \A g \in grants \ lost : g[2] # r

\* A statement that begins a command: the copy is still the entry.
Fresh(j) == Head(j.todo) \in Statements /\ ~(j.op = "delete" /\ Head(j.todo) = "dropRole")

GrantsWork ==
    /\ Works(state.grants)
    /\ job # None /\ ~job.undoing => Works(job.new.grants)

GrantsToUsers ==
    /\ ~(job # None /\ job.op = "create" /\ job.todo = <<"save">>) => ToUsers(state)
    /\ job # None /\ ~job.undoing => ToUsers(job.new)
    /\ ToUsers(stateFile)

\* The database a deletion has dropped may still be in the entry.
Dropping(d) == job # None /\ job.op = "delete" /\ Step # "dropDatabase" /\ d = job.database

RecordedExist ==
    /\ \A d \in Databases :
            contains(state.databases, d) \/ contains(stateFile.databases, d) =>
                d \in databases \cup parted \/ Dropping(d)
    /\ job # None /\ ~job.undoing =>
            \A d \in Databases :
                contains(job.new.databases, d) => d \in databases \cup parted

\* The access a command has just given, and what one has just taken.
Given ==
    /\ job.role \in roles /\ Access \in privileges
    /\ job.database \in databases \cup parted
    /\ contains(job.new.users, job.role)

\* What a command knows when its next statement or its save is due.
CommandFacts ==
    job # None =>
        /\ ~job.undoing /\ Fresh(job) => job.new = state
        /\ job.op = "createUser" =>
              /\ NoneOf(state.grants, job.role)
              /\ ~job.undoing => NoneOf(job.new.grants, job.role)
        /\ ~job.undoing /\ Step = "save" =>
              /\ job.op \in {"create", "grant"} => Given
              /\ job.op = "create" =>
                    job.database \in databases /\ OthersToUsers(state, job.role)
        /\ job.op = "create" /\ job.undoing =>
              job.database \in parted /\ NoneOf(state.grants, job.role)
        /\ job.op = "delete" /\ Step # "dropDatabase" =>
              /\ \A g \in job.new.grants : g[1] # job.database
              /\ ~contains(job.new.databases, job.database)
        /\ job.op = "delete" /\ Step = "dropRole" =>
              /\ \A g \in state.grants \cup job.new.grants : g[2] # job.role
              /\ state.users = job.new.users
        /\ job.op = "grant" /\ Step = "grantSQL" => pair(job.database, job.role)
        /\ job.op = "deleteUser" /\ Step = "save" => \A g \in job.new.grants : g[2] # job.role
        /\ job.op = "revoke" /\ Step = "save" => Access \notin job.new.grants

DatabaseInv == GrantsWork /\ GrantsToUsers /\ RecordedExist /\ CommandFacts

(***************************************************************************)
(* The access manager.                                                     *)
(***************************************************************************)
KeyCommands == {"applyKey", "createLogin", "applyLogin"}

\* What the steps that are done have achieved, whatever was there before.
ForwardInv ==
    job # None /\ ~job.undoing =>
        /\ job.op \in KeyCommands =>
            /\ Step \in {"chown", "writeConf", "reload", "save"} =>
                  keys[job.login] \in KeyFile /\ keys[job.login].key = job.key
            /\ Step \in {"reload", "save"} => job.login \in confs
            /\ Step = "save" => job.login \in loaded
            /\ job.op # "applyKey" /\ Step \notin {"useradd", "passwd", "acl"} =>
                  job.login \in accounts
        /\ job.op = "revokeKey" =>
            /\ Step # "rmKey" => keys[job.login] = None
            /\ Step \in {"reload", "save"} => job.login \notin confs
            /\ Step = "save" => job.login \notin loaded

Active(l) == accepted[l] # None

Match(l) ==
    /\ KeyOf(l) = accepted[l]
    /\ (l \in confs) = Active(l)
    /\ (l \in loaded) = Active(l)
    /\ (l \in state.logins) = Active(l)
    /\ l \in Labels => (l \in accounts) = Active(l)

\* The parts of a login that are as they were before the command: not touched
\* yet, or restored.
KeyAsBefore ==
    IF job.undoing THEN Step # "restoreKey"
    ELSE Step \in {"useradd", "passwd", "acl", "writeKey", "rmKey"}

\* The block, and sshd's copy of it, when t is left of the undoing.
ConfUndone(t) ==
    t \in {<<"restoreKey">>, <<"restoreKey", "userdel">>} \/ Head(t) \in {"reload", "userdel"}

LoadedUndone(t) ==
    \/ t \in {<<"restoreKey">>, <<"restoreKey", "userdel">>, <<"restoreKey", "restoreConf">>,
              <<"restoreKey", "restoreConf", "userdel">>, <<"restoreConf">>,
              <<"restoreConf", "userdel">>}
    \/ Head(t) = "userdel"

ConfAsBefore == IF job.undoing THEN ConfUndone(job.todo) ELSE Step \notin {"reload", "save"}

LoadedAsBefore == IF job.undoing THEN LoadedUndone(job.todo) ELSE Step # "save"

\* A deletion is not undone: what its steps have achieved.
DeletionFacts(l) ==
    /\ Step # "rmConf" => l \notin confs
    /\ Step \notin {"rmConf", "rmKey"} => keys[l] = None
    /\ Step \notin {"rmConf", "rmKey", "reload"} => l \notin loaded
    /\ Step = "save" => l \notin accounts

\* The login of the command that runs, when nothing has parted it.
Held(l) ==
    /\ (l \in state.logins) = Active(l)
    /\ job.oldKey = accepted[l] /\ job.oldConf = Active(l)
    /\ job.op = "createLogin" => ~Active(l) /\ (Step = "useradd" => l \notin accounts)
    /\ job.op = "applyLogin" => (l \in accounts) = Active(l)
    /\ IF job.op = "deleteLogin"
       THEN DeletionFacts(l)
       ELSE /\ KeyAsBefore => KeyOf(l) = accepted[l]
            /\ ConfAsBefore => (l \in confs) = Active(l)
            /\ LoadedAsBefore => (l \in loaded) = Active(l)

Busy(l) == job # None /\ job.op \in AccessOps /\ l = job.login

LoginInv == \A l \in Logins \ parted : IF Busy(l) THEN Held(l) ELSE Match(l)

\* What the steps that are done have achieved for the owner of the key file and
\* for the ACL entries.
Entries(l) == {l} \X {"site", "parent"}

ReachForward ==
    job # None /\ job.op \in AccessOps =>
        /\ job.undoing => job.login \in undone
        /\ ~job.undoing /\ job.op \in KeyCommands /\ Step \in {"writeConf", "reload", "save"} =>
              keys[job.login].owned
        /\ ~job.undoing /\ job.op \in {"createLogin", "applyLogin"}
              /\ Step \notin {"useradd", "passwd", "acl"} => Entries(job.login) \subseteq acls
        /\ job.op = "deleteLogin" /\ Step \in {"userdel", "save"} /\ job.login \notin parted =>
              <<job.login, "site">> \notin acls

\* The entries of a login only go with its deletion; its key file is its own,
\* and a label without a login has no entry, when no rollback came between.
ReachInv ==
    /\ ReachForward
    /\ \A l \in Labels \ parted :
          Active(l) /\ ~(Busy(l) /\ job.op = "deleteLogin") => Entries(l) \subseteq acls
    /\ \A l \in Logins \ (parted \cup undone) :
          ~Busy(l) => IF Active(l) THEN keys[l].owned ELSE <<l, "site">> \notin acls

ServicesInv ==
    ServicesTypeOK /\ JobInv /\ RecordInv /\ ForwardInv /\ DatabaseInv /\ LoginInv

(***************************************************************************)
(* Lists: contains, appendUnique, remove and the slice remove leaves.      *)
(***************************************************************************)
LEMMA ListDomain ==
    ASSUME NEW S, NEW s \in Seq(S)
    PROVE  /\ Len(s) \in Nat /\ DOMAIN s = 1 .. Len(s)
           /\ \A i \in DOMAIN s : i \in Nat /\ s[i] \in S
<1>1. Len(s) \in Nat /\ s \in [1 .. Len(s) -> S] /\ DOMAIN s = 1 .. Len(s)
  BY LenProperties
<1> QED BY <1>1

LEMMA KeptFinite ==
    ASSUME NEW S, NEW s \in Seq(S), NEW x
    PROVE  /\ IsFiniteSet(kept(s, x)) /\ Cardinality(kept(s, x)) \in Nat
           /\ \A i \in kept(s, x) :
                 LET upTo == {j \in kept(s, x) : j <= i}
                 IN  /\ IsFiniteSet(upTo)
                     /\ position(s, x, i) \in Nat
                     /\ position(s, x, i) <= Cardinality(kept(s, x))
<1>1. Len(s) \in Nat /\ DOMAIN s = 1 .. Len(s) /\ 1 \in Int
  BY ListDomain
<1>2. IsFiniteSet(1 .. Len(s))
  BY <1>1, FS_Interval
<1>3. kept(s, x) \in SUBSET (1 .. Len(s))
  BY <1>1 DEF kept
<1>4. IsFiniteSet(kept(s, x))
  BY <1>2, <1>3, FS_Subset
<1>5. Cardinality(kept(s, x)) \in Nat
  BY <1>4, FS_CardinalityType
<1>6. ASSUME NEW i \in kept(s, x)
      PROVE  /\ IsFiniteSet({j \in kept(s, x) : j <= i})
             /\ position(s, x, i) \in Nat
             /\ position(s, x, i) <= Cardinality(kept(s, x))
  <2>1. {j \in kept(s, x) : j <= i} \in SUBSET kept(s, x)
    OBVIOUS
  <2>2. /\ IsFiniteSet({j \in kept(s, x) : j <= i})
        /\ Cardinality({j \in kept(s, x) : j <= i}) <= Cardinality(kept(s, x))
    BY <1>4, <2>1, FS_Subset
  <2>3. Cardinality({j \in kept(s, x) : j <= i}) \in Nat
    BY <2>2, FS_CardinalityType
  <2> QED BY <2>2, <2>3 DEF position
<1> QED BY <1>4, <1>5, <1>6

\* A later kept element has a larger position.
LEMMA PositionGrows ==
    ASSUME NEW S, NEW s \in Seq(S), NEW x,
           NEW i \in kept(s, x), NEW k \in kept(s, x), i < k
    PROVE  position(s, x, i) # position(s, x, k)
<1> DEFINE A == {j \in kept(s, x) : j <= i}
           B == {j \in kept(s, x) : j <= k}
<1>1. kept(s, x) \subseteq Nat
  BY ListDomain DEF kept
<1>2. A \in SUBSET B
  BY <1>1
<1>3. k \in B /\ k \notin A
  BY <1>1
<1>4. IsFiniteSet(B)
  BY KeptFinite
<1>5. Cardinality(B) # Cardinality(A)
  <2> HIDE DEF A, B
  <2> QED BY <1>2, <1>3, <1>4, FS_Subset
<1> QED BY <1>5 DEF position

\* An element that is kept is at least the first.
LEMMA PositionPositive ==
    ASSUME NEW S, NEW s \in Seq(S), NEW x, NEW i \in kept(s, x)
    PROVE  position(s, x, i) \in 1 .. Cardinality(kept(s, x))
<1> DEFINE A == {j \in kept(s, x) : j <= i}
<1>1. i \in A
  BY ListDomain DEF kept
<1>2. IsFiniteSet(A)
  BY KeptFinite
<1>3. Cardinality(A) # 0
  <2> HIDE DEF A
  <2> QED BY <1>1, <1>2, FS_EmptySet
<1>4. /\ Cardinality(kept(s, x)) \in Nat
      /\ position(s, x, i) \in Nat /\ position(s, x, i) <= Cardinality(kept(s, x))
  BY KeptFinite
<1>5. position(s, x, i) # 0
  BY <1>3 DEF position
<1> QED BY <1>4, <1>5

\* The positions of the kept elements are all those of the result.
LEMMA PositionsFill ==
    ASSUME NEW S, NEW s \in Seq(S), NEW x, NEW n \in 1 .. Cardinality(kept(s, x))
    PROVE  \E i \in kept(s, x) : position(s, x, i) = n
<1> DEFINE K == kept(s, x)
           C == Cardinality(K)
           f == [i \in K |-> position(s, x, i)]
<1>1. IsFiniteSet(K) /\ C \in Nat
  BY KeptFinite
<1>2. f \in [K -> 1 .. C]
  BY PositionPositive
<1>3. ASSUME NEW i \in K, NEW k \in K, f[i] = f[k] PROVE i = k
  <2>1. i \in Nat /\ k \in Nat
    BY ListDomain DEF kept
  <2>2. position(s, x, i) = position(s, x, k)
    BY <1>3
  <2>3. ~(i < k) /\ ~(k < i)
    BY <2>2, PositionGrows
  <2> QED BY <2>1, <2>3
<1>4. f \in Injection(K, 1 .. C)
  <2> HIDE DEF f, K, C
  <2> QED BY <1>2, <1>3 DEF Injection, IsInjective
<1>5. IsFiniteSet(1 .. C) /\ Cardinality(1 .. C) = C
  <2> HIDE DEF K, C
  <2> 1 \in Int /\ C \in Int
    BY <1>1
  <2>1. IsFiniteSet(1 .. C) /\ Cardinality(1 .. C) = IF 1 > C THEN 0 ELSE C - 1 + 1
    BY FS_Interval
  <2> QED BY <1>1, <2>1
<1>6. f \in Surjection(K, 1 .. C)
  <2>1. Cardinality(K) = Cardinality(1 .. C)
    BY <1>5
  <2> HIDE DEF f, K, C
  <2> QED BY <1>4, <1>5, <2>1, FS_Injection
<1>7. \E i \in K : f[i] = n
  <2>1. n \in 1 .. C
    OBVIOUS
  <2> HIDE DEF f, K, C
  <2> QED BY <1>6, <2>1 DEF Surjection
<1> QED BY <1>7

LEMMA KeptBound ==
    ASSUME NEW S, NEW s \in Seq(S), NEW x
    PROVE  Cardinality(kept(s, x)) <= Len(s)
<1> DEFINE n == Len(s)
<1>1. n \in Nat /\ DOMAIN s = 1 .. n
  BY ListDomain
<1>2. kept(s, x) \in SUBSET (1 .. n)
  BY <1>1 DEF kept
<1> HIDE DEF n
<1> 1 \in Int /\ n \in Int
  BY <1>1
<1>3. IsFiniteSet(1 .. n) /\ Cardinality(1 .. n) = IF 1 > n THEN 0 ELSE n - 1 + 1
  BY FS_Interval
<1>4. Cardinality(1 .. n) = n
  BY <1>1, <1>3
<1>5. Cardinality(kept(s, x)) <= n
  BY <1>2, <1>3, <1>4, FS_Subset
<1> QED BY <1>5 DEF n

\* The element of the result at n is the one whose position is n.
LEMMA RemoveAt ==
    ASSUME NEW S, NEW s \in Seq(S), NEW x, NEW n \in 1 .. Cardinality(kept(s, x))
    PROVE  \E i \in kept(s, x) : position(s, x, i) = n /\ remove(s, x)[n] = s[i]
<1> DEFINE i == CHOOSE i \in kept(s, x) : position(s, x, i) = n
<1>1. i \in kept(s, x) /\ position(s, x, i) = n
  BY PositionsFill
<1>2. remove(s, x)[n] = s[i]
  BY DEF remove
<1> HIDE DEF i
<1> QED BY <1>1, <1>2

LEMMA RemoveType ==
    ASSUME NEW S, NEW s \in Seq(S), NEW x
    PROVE  /\ remove(s, x) \in Seq(S)
           /\ Len(remove(s, x)) = Cardinality(kept(s, x))
           /\ DOMAIN remove(s, x) = 1 .. Cardinality(kept(s, x))
<1> DEFINE c == Cardinality(kept(s, x))
<1>1. c \in Nat
  BY KeptFinite
<1>2. \A n \in 1 .. c : remove(s, x)[n] \in S
  <2> TAKE n \in 1 .. c
  <2>1. PICK i \in kept(s, x) : remove(s, x)[n] = s[i]
    BY RemoveAt
  <2>2. s[i] \in S
    BY ListDomain DEF kept
  <2> QED BY <2>1, <2>2
<1>3. remove(s, x) \in [1 .. c -> S] /\ DOMAIN remove(s, x) = 1 .. c
  BY <1>2 DEF remove
<1> HIDE DEF c
<1>4. remove(s, x) \in Seq(S) /\ Len(remove(s, x)) = c
  BY <1>1, <1>3
<1> QED BY <1>3, <1>4 DEF c

LEMMA ClobberedAt ==
    ASSUME NEW S, NEW s \in Seq(S), NEW x
    PROVE  /\ Clobbered(s, x) \in Seq(S)
           /\ DOMAIN Clobbered(s, x) = DOMAIN s
           /\ \A n \in DOMAIN s :
                 Clobbered(s, x)[n] = IF n \in DOMAIN remove(s, x) THEN remove(s, x)[n] ELSE s[n]
           /\ DOMAIN remove(s, x) \subseteq DOMAIN s
<1>1. PICK m : m = Len(s)
  OBVIOUS
<1>2. m \in Nat /\ DOMAIN s = 1 .. m /\ \A i \in DOMAIN s : s[i] \in S
  BY <1>1, ListDomain
<1>3. PICK c : c = Cardinality(kept(s, x))
  OBVIOUS
<1>4. /\ remove(s, x) \in Seq(S) /\ Len(remove(s, x)) = c
      /\ DOMAIN remove(s, x) = 1 .. c /\ c \in Nat /\ c <= m
  BY <1>1, <1>3, RemoveType, KeptFinite, KeptBound
<1>5. \A n \in DOMAIN remove(s, x) : remove(s, x)[n] \in S
  BY <1>4, ListDomain
<1>6. /\ DOMAIN Clobbered(s, x) = 1 .. m
      /\ \A n \in 1 .. m :
            Clobbered(s, x)[n] = IF n \in DOMAIN remove(s, x) THEN remove(s, x)[n] ELSE s[n]
  BY <1>2, <1>4 DEF Clobbered
<1>7. Clobbered(s, x) = [n \in 1 .. m |-> Clobbered(s, x)[n]]
  BY <1>2 DEF Clobbered
<1>8. Clobbered(s, x) \in [1 .. m -> S]
  BY <1>2, <1>4, <1>5, <1>6, <1>7
<1>9. Clobbered(s, x) \in Seq(S)
  BY <1>2, <1>8
<1> QED BY <1>2, <1>4, <1>6, <1>9

\* remove keeps every other element, and nothing else; the slice it leaves
\* keeps them too.
LEMMA RemoveContains ==
    ASSUME NEW S, NEW s \in Seq(S), NEW x, NEW y
    PROVE  /\ contains(remove(s, x), y) <=> contains(s, y) /\ y # x
           /\ contains(s, y) /\ y # x => contains(Clobbered(s, x), y)
           /\ contains(Clobbered(s, x), y) => contains(s, y)
<1>0. DOMAIN remove(s, x) = 1 .. Cardinality(kept(s, x))
  BY RemoveType
<1>1. ASSUME contains(remove(s, x), y) PROVE contains(s, y) /\ y # x
  <2>1. PICK n \in DOMAIN remove(s, x) : remove(s, x)[n] = y
    BY <1>1 DEF contains
  <2>2. PICK i \in kept(s, x) : remove(s, x)[n] = s[i]
    <3>1. n \in 1 .. Cardinality(kept(s, x))
      BY <1>0, <2>1
    <3> QED BY <3>1, RemoveAt
  <2> QED BY <2>1, <2>2 DEF kept, contains
<1>2. ASSUME contains(s, y), y # x PROVE contains(remove(s, x), y)
  <2>1. PICK i \in kept(s, x) : s[i] = y
    BY <1>2 DEF contains, kept
  <2>2. PICK n : n = position(s, x, i)
    OBVIOUS
  <2>3. n \in 1 .. Cardinality(kept(s, x))
    BY <2>2, PositionPositive
  <2>4. PICK k \in kept(s, x) : position(s, x, k) = n /\ remove(s, x)[n] = s[k]
    BY <2>3, RemoveAt
  <2>5. i \in Nat /\ k \in Nat
    BY ListDomain DEF kept
  <2>6. ~(i < k) /\ ~(k < i)
    BY <2>2, <2>4, PositionGrows
  <2>7. i = k
    BY <2>5, <2>6
  <2> QED BY <1>0, <2>1, <2>3, <2>4, <2>7 DEF contains
<1>3. ASSUME contains(remove(s, x), y) PROVE contains(Clobbered(s, x), y)
  <2>1. PICK n \in DOMAIN remove(s, x) : remove(s, x)[n] = y
    BY <1>3 DEF contains
  <2>2. n \in DOMAIN Clobbered(s, x) /\ Clobbered(s, x)[n] = y
    BY <2>1, ClobberedAt
  <2> QED BY <2>2 DEF contains
<1>4. ASSUME contains(Clobbered(s, x), y) PROVE contains(s, y)
  <2>1. PICK n \in DOMAIN s : Clobbered(s, x)[n] = y
    BY <1>4, ClobberedAt DEF contains
  <2>2. CASE n \in DOMAIN remove(s, x)
    <3>1. remove(s, x)[n] = y
      BY <2>1, <2>2, ClobberedAt
    <3>2. contains(remove(s, x), y)
      BY <2>2, <3>1 DEF contains
    <3> QED BY <3>2, <1>1
  <2>3. CASE n \notin DOMAIN remove(s, x)
    <3>1. s[n] = y
      BY <2>1, <2>3, ClobberedAt
    <3> QED BY <3>1, <2>1 DEF contains
  <2> QED BY <2>2, <2>3
<1> QED BY <1>1, <1>2, <1>3, <1>4

LEMMA AppendContains ==
    ASSUME NEW S, NEW s \in Seq(S), NEW x \in S
    PROVE  /\ Append(s, x) \in Seq(S) /\ appendUnique(s, x) \in Seq(S)
           /\ \A y : contains(Append(s, x), y) <=> contains(s, y) \/ y = x
           /\ \A y : contains(appendUnique(s, x), y) <=> contains(s, y) \/ y = x
<1>1. PICK m : m = Len(s)
  OBVIOUS
<1>2. m \in Nat /\ DOMAIN s = 1 .. m
  BY <1>1, ListDomain
<1>3. /\ Append(s, x) \in Seq(S) /\ Len(Append(s, x)) = m + 1
      /\ \A i \in 1 .. m : Append(s, x)[i] = s[i]
      /\ Append(s, x)[m + 1] = x
  BY <1>1, AppendProperties
<1>4. DOMAIN Append(s, x) = 1 .. (m + 1)
  BY <1>3, ListDomain
<1>5. \A y : contains(Append(s, x), y) <=> contains(s, y) \/ y = x
  <2>1. 1 .. (m + 1) = (1 .. m) \cup {m + 1}
    BY <1>2
  <2> QED BY <1>2, <1>3, <1>4, <2>1 DEF contains
<1> QED BY <1>3, <1>5 DEF appendUnique

(***************************************************************************)
(* Programs: concatenation, heads, tails.                                  *)
(***************************************************************************)
\* The list built element by element from the two parts is their
\* concatenation.
\* u is s followed by t.
Joins(s, t, u, m, n) ==
    /\ Len(s) = m /\ Len(t) = n /\ Len(u) = m + n
    /\ \A i \in 1 .. m : u[i] = s[i]
    /\ \A i \in 1 .. n : u[m + i] = t[i]

LEMMA ConcatIs ==
    ASSUME NEW s \in Seq(Steps), NEW t \in Seq(Steps), NEW u \in Seq(Steps),
           NEW m \in Nat, NEW n \in Nat, Joins(s, t, u, m, n)
    PROVE  s \o t = u
<1> USE DEF Joins
<1>1. /\ s \o t \in Seq(Steps) /\ Len(s \o t) = m + n
      /\ \A i \in 1 .. m + n : (s \o t)[i] = IF i <= m THEN s[i] ELSE t[i - m]
  BY ConcatProperties
<1>2. ASSUME NEW i \in 1 .. m + n PROVE (s \o t)[i] = u[i]
  <2>1. CASE i <= m
    BY <1>1, <2>1
  <2>2. CASE ~(i <= m)
    <3>1. PICK k \in 1 .. n : k = i - m
      BY <2>2
    <3>2. i = m + k
      BY <3>1
    <3> QED BY <1>1, <2>2, <3>1, <3>2
  <2> QED BY <2>1, <2>2
<1> QED BY <1>1, <1>2, SeqEqual

LEMMA ForwardPrograms ==
    /\ <<"acl">> \o KeySteps
          = <<"acl", "writeKey", "chown", "writeConf", "reload", "save">>
    /\ <<"useradd", "passwd", "acl">> \o KeySteps
          = <<"useradd", "passwd", "acl", "writeKey", "chown", "writeConf", "reload", "save">>
<1> DEFINE t == <<"writeKey", "chown", "writeConf", "reload", "save">>
<1>1. t \in Seq(Steps) /\ Len(t) = 5
  BY DEF Steps
<1>2. /\ t[1] = "writeKey" /\ t[2] = "chown" /\ t[3] = "writeConf"
      /\ t[4] = "reload" /\ t[5] = "save"
  OBVIOUS
<1> HIDE DEF t
<1>3. <<"acl">> \o t = <<"acl", "writeKey", "chown", "writeConf", "reload", "save">>
  <2> DEFINE s == <<"acl">>
             u == <<"acl", "writeKey", "chown", "writeConf", "reload", "save">>
  <2>1. s \in Seq(Steps) /\ u \in Seq(Steps) /\ Len(s) = 1 /\ Len(u) = 6
    BY DEF Steps
  <2>2. u[1] = s[1]
    OBVIOUS
  <2>3. /\ u[1 + 1] = t[1] /\ u[1 + 2] = t[2] /\ u[1 + 3] = t[3] /\ u[1 + 4] = t[4]
        /\ u[1 + 5] = t[5]
    BY <1>2
  <2> HIDE DEF s, u
  <2>4. PICK m \in Nat, n \in Nat : m = 1 /\ n = 5
    OBVIOUS
  <2>5. Joins(s, t, u, m, n)
    BY <1>1, <2>1, <2>2, <2>3, <2>4 DEF Joins
  <2>6. s \o t = u
    BY <1>1, <2>1, <2>5, ConcatIs, Zenon
  <2> QED BY <2>6 DEF s, u
<1>4. <<"useradd", "passwd", "acl">> \o t
        = <<"useradd", "passwd", "acl", "writeKey", "chown", "writeConf", "reload", "save">>
  <2> DEFINE s == <<"useradd", "passwd", "acl">>
             u == <<"useradd", "passwd", "acl", "writeKey", "chown", "writeConf", "reload", "save">>
  <2>1. s \in Seq(Steps) /\ u \in Seq(Steps) /\ Len(s) = 3 /\ Len(u) = 8
    BY DEF Steps
  <2>2. u[1] = s[1] /\ u[2] = s[2] /\ u[3] = s[3]
    OBVIOUS
  <2>3. /\ u[3 + 1] = t[1] /\ u[3 + 2] = t[2] /\ u[3 + 3] = t[3] /\ u[3 + 4] = t[4]
        /\ u[3 + 5] = t[5]
    BY <1>2
  <2> HIDE DEF s, u
  <2>4. PICK m \in Nat, n \in Nat : m = 3 /\ n = 5
    OBVIOUS
  <2>5. Joins(s, t, u, m, n)
    BY <1>1, <2>1, <2>2, <2>3, <2>4 DEF Joins
  <2>6. s \o t = u
    BY <1>1, <2>1, <2>5, ConcatIs, Zenon
  <2> QED BY <2>6 DEF s, u
<1> QED BY <1>3, <1>4 DEF KeySteps, t

LEMMA UndoPrograms ==
    /\ <<>> \o <<"userdel">> = <<"userdel">>
    /\ <<"restoreKey">> \o <<"userdel">> = <<"restoreKey", "userdel">>
    /\ <<"restoreKey", "restoreConf">> \o <<"userdel">>
          = <<"restoreKey", "restoreConf", "userdel">>
    /\ <<"restoreKey", "restoreConf", "reload">> \o <<"userdel">>
          = <<"restoreKey", "restoreConf", "reload", "userdel">>
<1>1. /\ <<"userdel">> \in Seq(Steps) /\ <<"restoreKey">> \in Seq(Steps)
      /\ <<"restoreKey", "restoreConf">> \in Seq(Steps)
      /\ <<"restoreKey", "restoreConf", "reload">> \in Seq(Steps)
      /\ "userdel" \in Steps
  BY DEF Steps
<1>2. <<>> \o <<"userdel">> = <<"userdel">>
  BY <1>1, ConcatEmptySeq
<1>3. \A s \in Seq(Steps) : s \o <<"userdel">> = Append(s, "userdel")
  BY <1>1, AppendIsConcat
<1>4. Append(<<"restoreKey">>, "userdel")
        = <<"restoreKey", "userdel">>
  <2> DEFINE s == <<"restoreKey">>
             a == Append(s, "userdel")
             u == <<"restoreKey", "userdel">>
  <2>1. s \in Seq(Steps) /\ u \in Seq(Steps) /\ "userdel" \in Steps
    BY DEF Steps
  <2>2. Len(s) = 1 /\ Len(u) = 2 /\ u[1] = "restoreKey" /\ u[2] = "userdel"
    OBVIOUS
  <2>3. s[1] = "restoreKey"
    OBVIOUS
  <2> HIDE DEF s, u
  <2>4. /\ a \in Seq(Steps) /\ Len(a) = Len(s) + 1
        /\ \A i \in 1 .. Len(s) : a[i] = s[i]
        /\ a[Len(s) + 1] = "userdel"
    BY <2>1, AppendProperties
  <2>5. Len(a) = 2 /\ a[1] = "restoreKey" /\ a[2] = "userdel"
    BY <2>2, <2>3, <2>4
  <2>6. Len(a) = Len(u) /\ \A i \in 1 .. Len(a) : a[i] = u[i]
    BY <2>2, <2>5
  <2>7. a = u
    <3> HIDE DEF a
    <3> QED BY <2>1, <2>4, <2>6, SeqEqual
  <2> QED BY <2>7 DEF s, u
<1>5. Append(<<"restoreKey", "restoreConf">>, "userdel")
        = <<"restoreKey", "restoreConf", "userdel">>
  <2> DEFINE s == <<"restoreKey", "restoreConf">>
             a == Append(s, "userdel")
             u == <<"restoreKey", "restoreConf", "userdel">>
  <2>1. s \in Seq(Steps) /\ u \in Seq(Steps) /\ "userdel" \in Steps
    BY DEF Steps
  <2>2. /\ Len(s) = 2 /\ Len(u) = 3 /\ u[1] = "restoreKey" /\ u[2] = "restoreConf"
        /\ u[3] = "userdel"
    OBVIOUS
  <2>3. s[1] = "restoreKey" /\ s[2] = "restoreConf"
    OBVIOUS
  <2> HIDE DEF s, u
  <2>4. /\ a \in Seq(Steps) /\ Len(a) = Len(s) + 1
        /\ \A i \in 1 .. Len(s) : a[i] = s[i]
        /\ a[Len(s) + 1] = "userdel"
    BY <2>1, AppendProperties
  <2>5. Len(a) = 3 /\ a[1] = "restoreKey" /\ a[2] = "restoreConf" /\ a[3] = "userdel"
    BY <2>2, <2>3, <2>4
  <2>6. Len(a) = Len(u) /\ \A i \in 1 .. Len(a) : a[i] = u[i]
    BY <2>2, <2>5
  <2>7. a = u
    <3> HIDE DEF a
    <3> QED BY <2>1, <2>4, <2>6, SeqEqual
  <2> QED BY <2>7 DEF s, u
<1>6. Append(<<"restoreKey", "restoreConf", "reload">>, "userdel")
        = <<"restoreKey", "restoreConf", "reload", "userdel">>
  <2> DEFINE s == <<"restoreKey", "restoreConf", "reload">>
             a == Append(s, "userdel")
             u == <<"restoreKey", "restoreConf", "reload", "userdel">>
  <2>1. s \in Seq(Steps) /\ u \in Seq(Steps) /\ "userdel" \in Steps
    BY DEF Steps
  <2>2. /\ Len(s) = 3 /\ Len(u) = 4 /\ u[1] = "restoreKey" /\ u[2] = "restoreConf"
        /\ u[3] = "reload" /\ u[4] = "userdel"
    OBVIOUS
  <2>3. s[1] = "restoreKey" /\ s[2] = "restoreConf" /\ s[3] = "reload"
    OBVIOUS
  <2> HIDE DEF s, u
  <2>4. /\ a \in Seq(Steps) /\ Len(a) = Len(s) + 1
        /\ \A i \in 1 .. Len(s) : a[i] = s[i]
        /\ a[Len(s) + 1] = "userdel"
    BY <2>1, AppendProperties
  <2>5. /\ Len(a) = 4 /\ a[1] = "restoreKey" /\ a[2] = "restoreConf" /\ a[3] = "reload"
        /\ a[4] = "userdel"
    BY <2>2, <2>3, <2>4
  <2>6. Len(a) = Len(u) /\ \A i \in 1 .. Len(a) : a[i] = u[i]
    BY <2>2, <2>5
  <2>7. a = u
    <3> HIDE DEF a
    <3> QED BY <2>1, <2>4, <2>6, SeqEqual
  <2> QED BY <2>7 DEF s, u
<1> QED BY <1>1, <1>2, <1>3, <1>4, <1>5, <1>6, Zenon

\* What is left of a database command: its next step and the rest.
LEMMA DatabasePrograms ==
    ASSUME NEW j, DatabaseShape(j), j.op \in DatabaseOps, j.undoing \in BOOLEAN
    PROVE  /\ ~j.undoing =>
              \/ /\ j.op = "create" /\ Head(j.todo) = "createSQL"
                 /\ j.todo = <<"createSQL", "save">> /\ Tail(j.todo) = <<"save">>
              \/ j.op = "rotate" /\ Head(j.todo) = "rotateSQL" /\ Tail(j.todo) = <<>>
              \/ /\ j.op = "delete" /\ Head(j.todo) = "dropDatabase"
                 /\ Tail(j.todo) = <<"dropRole", "save">>
              \/ /\ j.op \in {"delete", "deleteUser"} /\ Head(j.todo) = "dropRole"
                 /\ Tail(j.todo) = <<"save">>
              \/ j.op = "createUser" /\ Head(j.todo) = "createUserSQL" /\ Tail(j.todo) = <<"save">>
              \/ j.op = "grant" /\ Head(j.todo) = "grantSQL" /\ Tail(j.todo) = <<"save">>
              \/ j.op = "revoke" /\ Head(j.todo) = "revokeSQL" /\ Tail(j.todo) = <<"save">>
              \/ j.op # "rotate" /\ Head(j.todo) = "save" /\ j.todo = <<"save">>
           /\ j.undoing =>
              \/ /\ j.op = "create" /\ Head(j.todo) = "dropDatabase"
                 /\ Tail(j.todo) = <<"dropRole">> /\ j.todo = <<"dropDatabase", "dropRole">>
              \/ /\ j.op \in {"create", "createUser"} /\ Head(j.todo) = "dropRole"
                 /\ Tail(j.todo) = <<>> /\ j.todo = <<"dropRole">>
<1>1. /\ Tail(<<"createSQL", "save">>) = <<"save">> /\ Tail(<<"rotateSQL">>) = <<>>
      /\ Tail(<<"dropDatabase", "dropRole", "save">>) = <<"dropRole", "save">>
      /\ Tail(<<"dropRole", "save">>) = <<"save">>
      /\ Tail(<<"createUserSQL", "save">>) = <<"save">>
      /\ Tail(<<"grantSQL", "save">>) = <<"save">> /\ Tail(<<"revokeSQL", "save">>) = <<"save">>
      /\ Tail(<<"dropDatabase", "dropRole">>) = <<"dropRole">> /\ Tail(<<"dropRole">>) = <<>>
  OBVIOUS
<1>2. /\ Head(<<"createSQL", "save">>) = "createSQL" /\ Head(<<"rotateSQL">>) = "rotateSQL"
      /\ Head(<<"dropDatabase", "dropRole", "save">>) = "dropDatabase"
      /\ Head(<<"dropRole", "save">>) = "dropRole" /\ Head(<<"save">>) = "save"
      /\ Head(<<"createUserSQL", "save">>) = "createUserSQL"
      /\ Head(<<"grantSQL", "save">>) = "grantSQL"
      /\ Head(<<"revokeSQL", "save">>) = "revokeSQL"
      /\ Head(<<"dropDatabase", "dropRole">>) = "dropDatabase"
      /\ Head(<<"dropRole">>) = "dropRole"
  OBVIOUS
<1>3. ASSUME ~j.undoing
      PROVE  \/ /\ j.op = "create" /\ Head(j.todo) = "createSQL"
                /\ j.todo = <<"createSQL", "save">> /\ Tail(j.todo) = <<"save">>
             \/ j.op = "rotate" /\ Head(j.todo) = "rotateSQL" /\ Tail(j.todo) = <<>>
             \/ /\ j.op = "delete" /\ Head(j.todo) = "dropDatabase"
                /\ Tail(j.todo) = <<"dropRole", "save">>
             \/ /\ j.op \in {"delete", "deleteUser"} /\ Head(j.todo) = "dropRole"
                /\ Tail(j.todo) = <<"save">>
             \/ j.op = "createUser" /\ Head(j.todo) = "createUserSQL" /\ Tail(j.todo) = <<"save">>
             \/ j.op = "grant" /\ Head(j.todo) = "grantSQL" /\ Tail(j.todo) = <<"save">>
             \/ j.op = "revoke" /\ Head(j.todo) = "revokeSQL" /\ Tail(j.todo) = <<"save">>
             \/ j.op # "rotate" /\ Head(j.todo) = "save" /\ j.todo = <<"save">>
  BY <1>1, <1>2, <1>3, Zenon DEF DatabaseShape, DatabaseOps
<1>4. ASSUME j.undoing
      PROVE  \/ /\ j.op = "create" /\ Head(j.todo) = "dropDatabase"
                /\ Tail(j.todo) = <<"dropRole">> /\ j.todo = <<"dropDatabase", "dropRole">>
             \/ /\ j.op \in {"create", "createUser"} /\ Head(j.todo) = "dropRole"
                /\ Tail(j.todo) = <<>> /\ j.todo = <<"dropRole">>
  BY <1>1, <1>2, <1>4, Zenon DEF DatabaseShape
<1> QED BY <1>3, <1>4, Zenon

\* The next step of an access command and the one after it.
Leads(t, first, second) == Head(t) = first /\ Tail(t) # <<>> /\ Head(Tail(t)) = second

LEMMA KeyPrograms ==
    ASSUME NEW j, AccessShape(j), j.op \in KeyCommands, ~j.undoing
    PROVE  /\ \/ j.op = "createLogin" /\ Leads(j.todo, "useradd", "passwd")
              \/ j.op = "createLogin" /\ Leads(j.todo, "passwd", "acl")
              \/ j.op # "applyKey" /\ Leads(j.todo, "acl", "writeKey")
              \/ Leads(j.todo, "writeKey", "chown")
              \/ Leads(j.todo, "chown", "writeConf")
              \/ Leads(j.todo, "writeConf", "reload")
              \/ Leads(j.todo, "reload", "save")
              \/ Head(j.todo) = "save" /\ j.todo = <<"save">>
           /\ Head(j.todo) # "save" =>
                /\ j.op = "applyKey" => Tail(j.todo) \in KeyTails
                /\ j.op = "applyLogin" => Tail(j.todo) \in LoginTails
                /\ j.op = "createLogin" => Tail(j.todo) \in NewLoginTails
<1> DEFINE K1 == <<"save">>
           K2 == <<"reload", "save">>
           K3 == <<"writeConf", "reload", "save">>
           K4 == <<"chown", "writeConf", "reload", "save">>
           K5 == <<"writeKey", "chown", "writeConf", "reload", "save">>
           K6 == <<"acl", "writeKey", "chown", "writeConf", "reload", "save">>
           K7 == <<"passwd", "acl", "writeKey", "chown", "writeConf", "reload", "save">>
           K8 == <<"useradd", "passwd", "acl", "writeKey", "chown", "writeConf", "reload", "save">>
<1>1. /\ Head(K8) = "useradd" /\ Head(K7) = "passwd" /\ Head(K6) = "acl"
      /\ Head(K5) = "writeKey"
      /\ Head(K4) = "chown" /\ Head(K3) = "writeConf" /\ Head(K2) = "reload"
      /\ Head(K1) = "save"
  OBVIOUS
<1>2. /\ Tail(K8) = K7 /\ Tail(K7) = K6 /\ Tail(K6) = K5 /\ Tail(K5) = K4 /\ Tail(K4) = K3
      /\ Tail(K3) = K2 /\ Tail(K2) = K1
  OBVIOUS
<1>3. /\ K1 # <<>> /\ K2 # <<>> /\ K3 # <<>> /\ K4 # <<>> /\ K5 # <<>> /\ K6 # <<>> /\ K7 # <<>>
  OBVIOUS
<1>4. /\ KeyTails = {K5, K4, K3, K2, K1} /\ LoginTails = KeyTails \cup {K6}
      /\ NewLoginTails = LoginTails \cup {K8, K7}
  BY Zenon DEF KeyTails, LoginTails, NewLoginTails
<1> HIDE DEF K1, K2, K3, K4, K5, K6, K7, K8
<1>5. /\ j.op = "applyKey" => j.todo \in KeyTails
      /\ j.op = "applyLogin" => j.todo \in LoginTails
      /\ j.op = "createLogin" => j.todo \in NewLoginTails
      /\ j.op \in {"applyKey", "createLogin", "applyLogin"}
  BY Zenon DEF AccessShape, KeyCommands
<1>6. \/ j.op = "createLogin" /\ j.todo \in {K8, K7}
      \/ j.op \in {"createLogin", "applyLogin"} /\ j.todo = K6
      \/ j.todo \in {K5, K4, K3, K2, K1}
  BY <1>4, <1>5
<1>7. j.op = "createLogin" /\ j.todo = K8 =>
         Leads(j.todo, "useradd", "passwd") /\ Tail(j.todo) \in NewLoginTails
  BY <1>1, <1>2, <1>3, <1>4 DEF Leads
<1>8. j.op = "createLogin" /\ j.todo = K7 =>
         Leads(j.todo, "passwd", "acl") /\ Tail(j.todo) \in NewLoginTails
  BY <1>1, <1>2, <1>3, <1>4 DEF Leads
<1>9. j.todo = K6 => Leads(j.todo, "acl", "writeKey") /\ Tail(j.todo) \in KeyTails
  BY <1>1, <1>2, <1>3, <1>4 DEF Leads
<1>10. j.todo = K5 => Leads(j.todo, "writeKey", "chown") /\ Tail(j.todo) \in KeyTails
  BY <1>1, <1>2, <1>3, <1>4 DEF Leads
<1>11. j.todo = K4 => Leads(j.todo, "chown", "writeConf") /\ Tail(j.todo) \in KeyTails
  BY <1>1, <1>2, <1>3, <1>4 DEF Leads
<1>12. j.todo = K3 => Leads(j.todo, "writeConf", "reload") /\ Tail(j.todo) \in KeyTails
  BY <1>1, <1>2, <1>3, <1>4 DEF Leads
<1>13. j.todo = K2 => Leads(j.todo, "reload", "save") /\ Tail(j.todo) \in KeyTails
  BY <1>1, <1>2, <1>3, <1>4 DEF Leads
<1>14. j.todo = K1 => Head(j.todo) = "save" /\ j.todo = <<"save">>
  BY <1>1 DEF K1
<1>15. KeyTails \subseteq LoginTails /\ LoginTails \subseteq NewLoginTails
  BY <1>4
<1>16. j.op \in {"createLogin", "applyLogin"} => j.op # "applyKey"
  OBVIOUS
<1> QED
  BY <1>5, <1>6, <1>7, <1>8, <1>9, <1>10, <1>11, <1>12, <1>13, <1>14, <1>15, <1>16

LEMMA RevokePrograms ==
    ASSUME NEW j, AccessShape(j), j.op = "revokeKey", ~j.undoing
    PROVE  /\ \/ Leads(j.todo, "rmKey", "rmConf")
              \/ Leads(j.todo, "rmConf", "reload")
              \/ Leads(j.todo, "reload", "save")
              \/ Head(j.todo) = "save" /\ j.todo = <<"save">>
           /\ Head(j.todo) # "save" => Tail(j.todo) \in RevokeTails
<1> DEFINE K1 == <<"save">>
           K2 == <<"reload", "save">>
           K3 == <<"rmConf", "reload", "save">>
           K4 == <<"rmKey", "rmConf", "reload", "save">>
<1>1. Head(K4) = "rmKey" /\ Head(K3) = "rmConf" /\ Head(K2) = "reload" /\ Head(K1) = "save"
  OBVIOUS
<1>2. Tail(K4) = K3 /\ Tail(K3) = K2 /\ Tail(K2) = K1
  OBVIOUS
<1>3. K1 # <<>> /\ K2 # <<>> /\ K3 # <<>>
  OBVIOUS
<1>4. RevokeTails = {K4, K3, K2, K1}
  BY Zenon DEF RevokeTails
<1>5. j.todo \in {K4, K3, K2, K1}
  BY <1>4, Zenon DEF AccessShape
<1>6. j.todo = K1 => j.todo = <<"save">>
  OBVIOUS
<1> HIDE DEF K1, K2, K3, K4
<1> QED BY <1>1, <1>2, <1>3, <1>4, <1>5, <1>6 DEF Leads

LEMMA DeletePrograms ==
    ASSUME NEW j, AccessShape(j), j.op = "deleteLogin", j.undoing \in BOOLEAN
    PROVE  /\ ~j.undoing
           /\ \/ Leads(j.todo, "rmConf", "rmKey")
              \/ Leads(j.todo, "rmKey", "reload")
              \/ Leads(j.todo, "reload", "rmAcl")
              \/ Leads(j.todo, "rmAcl", "userdel")
              \/ Leads(j.todo, "userdel", "save")
              \/ Head(j.todo) = "save" /\ j.todo = <<"save">>
           /\ Head(j.todo) # "save" => Tail(j.todo) \in DeleteTails
<1> DEFINE K1 == <<"save">>
           K2 == <<"userdel", "save">>
           K3 == <<"rmAcl", "userdel", "save">>
           K4 == <<"reload", "rmAcl", "userdel", "save">>
           K5 == <<"rmKey", "reload", "rmAcl", "userdel", "save">>
           K6 == <<"rmConf", "rmKey", "reload", "rmAcl", "userdel", "save">>
<1>1. /\ Head(K6) = "rmConf" /\ Head(K5) = "rmKey" /\ Head(K4) = "reload"
      /\ Head(K3) = "rmAcl" /\ Head(K2) = "userdel" /\ Head(K1) = "save"
  OBVIOUS
<1>2. Tail(K6) = K5 /\ Tail(K5) = K4 /\ Tail(K4) = K3 /\ Tail(K3) = K2 /\ Tail(K2) = K1
  OBVIOUS
<1>3. K1 # <<>> /\ K2 # <<>> /\ K3 # <<>> /\ K4 # <<>> /\ K5 # <<>>
  OBVIOUS
<1>4. DeleteTails = {K6, K5, K4, K3, K2, K1}
  BY Zenon DEF DeleteTails
<1>5. ~j.undoing
  BY Zenon DEF AccessShape
<1>6. j.todo \in {K6, K5, K4, K3, K2, K1}
  BY <1>4, <1>5, Zenon DEF AccessShape
<1>7. j.todo = K1 => j.todo = <<"save">>
  OBVIOUS
<1> HIDE DEF K1, K2, K3, K4, K5, K6
<1> QED BY <1>1, <1>2, <1>3, <1>4, <1>5, <1>6, <1>7 DEF Leads

\* A program that undoes is <<t>>, whose next step is first and whose rest is
\* rest.
Is(t, first, rest) == Head(t) = first /\ Tail(t) = rest

LEMMA UndoSteps ==
    ASSUME NEW j, AccessShape(j), j.op \in AccessOps, j.undoing
    PROVE  /\ j.op # "deleteLogin"
           /\ j.op # "createLogin" =>
              \/ j.todo = <<"restoreKey">> /\ Is(j.todo, "restoreKey", <<>>)
              \/ /\ j.todo = <<"restoreKey", "restoreConf">>
                 /\ Is(j.todo, "restoreKey", <<"restoreConf">>)
              \/ /\ j.todo = <<"restoreKey", "restoreConf", "reload">>
                 /\ Is(j.todo, "restoreKey", <<"restoreConf", "reload">>)
              \/ j.todo = <<"restoreConf">> /\ Is(j.todo, "restoreConf", <<>>)
              \/ /\ j.todo = <<"restoreConf", "reload">>
                 /\ Is(j.todo, "restoreConf", <<"reload">>)
              \/ j.todo = <<"reload">> /\ Is(j.todo, "reload", <<>>)
           /\ j.op = "createLogin" =>
              \/ /\ j.todo = <<"restoreKey", "userdel">>
                 /\ Is(j.todo, "restoreKey", <<"userdel">>)
              \/ /\ j.todo = <<"restoreKey", "restoreConf", "userdel">>
                 /\ Is(j.todo, "restoreKey", <<"restoreConf", "userdel">>)
              \/ /\ j.todo = <<"restoreKey", "restoreConf", "reload", "userdel">>
                 /\ Is(j.todo, "restoreKey", <<"restoreConf", "reload", "userdel">>)
              \/ /\ j.todo = <<"restoreConf", "userdel">>
                 /\ Is(j.todo, "restoreConf", <<"userdel">>)
              \/ /\ j.todo = <<"restoreConf", "reload", "userdel">>
                 /\ Is(j.todo, "restoreConf", <<"reload", "userdel">>)
              \/ /\ j.todo = <<"reload", "userdel">>
                 /\ Is(j.todo, "reload", <<"userdel">>)
              \/ j.todo = <<"userdel">> /\ Is(j.todo, "userdel", <<>>)
<1>1. /\ Is(<<"restoreKey">>, "restoreKey", <<>>)
      /\ Is(<<"restoreKey", "restoreConf">>, "restoreKey", <<"restoreConf">>)
      /\ Is(<<"restoreKey", "restoreConf", "reload">>, "restoreKey", <<"restoreConf", "reload">>)
      /\ Is(<<"restoreConf">>, "restoreConf", <<>>)
      /\ Is(<<"restoreConf", "reload">>, "restoreConf", <<"reload">>)
      /\ Is(<<"reload">>, "reload", <<>>)
  BY DEF Is
<1>2. /\ Is(<<"restoreKey", "userdel">>, "restoreKey", <<"userdel">>)
      /\ Is(<<"restoreKey", "restoreConf", "userdel">>, "restoreKey", <<"restoreConf", "userdel">>)
      /\ Is(<<"restoreKey", "restoreConf", "reload", "userdel">>,
            "restoreKey", <<"restoreConf", "reload", "userdel">>)
      /\ Is(<<"restoreConf", "userdel">>, "restoreConf", <<"userdel">>)
      /\ Is(<<"restoreConf", "reload", "userdel">>, "restoreConf", <<"reload", "userdel">>)
      /\ Is(<<"reload", "userdel">>, "reload", <<"userdel">>)
      /\ Is(<<"userdel">>, "userdel", <<>>)
  BY DEF Is
<1>3. /\ j.op # "deleteLogin"
      /\ j.op # "createLogin" => j.todo \in UndoTails
      /\ j.op = "createLogin" => j.todo \in UndoNewTails
  BY Zenon DEF AccessShape
<1> HIDE DEF Is
<1>4. j.op # "createLogin" =>
              \/ j.todo = <<"restoreKey">> /\ Is(j.todo, "restoreKey", <<>>)
              \/ /\ j.todo = <<"restoreKey", "restoreConf">>
                 /\ Is(j.todo, "restoreKey", <<"restoreConf">>)
              \/ /\ j.todo = <<"restoreKey", "restoreConf", "reload">>
                 /\ Is(j.todo, "restoreKey", <<"restoreConf", "reload">>)
              \/ j.todo = <<"restoreConf">> /\ Is(j.todo, "restoreConf", <<>>)
              \/ /\ j.todo = <<"restoreConf", "reload">>
                 /\ Is(j.todo, "restoreConf", <<"reload">>)
              \/ j.todo = <<"reload">> /\ Is(j.todo, "reload", <<>>)
  BY <1>1, <1>3, Zenon DEF UndoTails
<1>5. j.op = "createLogin" =>
              \/ /\ j.todo = <<"restoreKey", "userdel">>
                 /\ Is(j.todo, "restoreKey", <<"userdel">>)
              \/ /\ j.todo = <<"restoreKey", "restoreConf", "userdel">>
                 /\ Is(j.todo, "restoreKey", <<"restoreConf", "userdel">>)
              \/ /\ j.todo = <<"restoreKey", "restoreConf", "reload", "userdel">>
                 /\ Is(j.todo, "restoreKey", <<"restoreConf", "reload", "userdel">>)
              \/ /\ j.todo = <<"restoreConf", "userdel">>
                 /\ Is(j.todo, "restoreConf", <<"userdel">>)
              \/ /\ j.todo = <<"restoreConf", "reload", "userdel">>
                 /\ Is(j.todo, "restoreConf", <<"reload", "userdel">>)
              \/ /\ j.todo = <<"reload", "userdel">>
                 /\ Is(j.todo, "reload", <<"userdel">>)
              \/ j.todo = <<"userdel">> /\ Is(j.todo, "userdel", <<>>)
  BY <1>2, <1>3, Zenon DEF UndoNewTails
<1> QED BY <1>3, <1>4, <1>5

(***************************************************************************)
(* The commands begin.                                                     *)
(***************************************************************************)
LEMMA DatabaseJobFields ==
    ASSUME state \in State, NEW op \in DatabaseOps, NEW d \in Databases \cup {None},
           NEW r \in Roles, NEW todo \in Seq(Steps)
    PROVE  LET j == DatabaseJob(op, d, r, todo)
           IN  /\ j \in Job /\ j.op = op /\ j.new = state /\ j.todo = todo
               /\ ~j.undoing /\ j.database = d /\ j.role = r
BY DEF DatabaseJob, NewJob, Job

\* What is known of a database command that has just begun.
BegunDatabase(j) ==
    /\ j \in Job /\ j.op \in DatabaseOps /\ ~j.undoing /\ j.new = state
    /\ DatabaseShape(j) /\ Head(j.todo) \in Statements
    /\ j.op = "delete" => Head(j.todo) = "dropDatabase"
    /\ j.op = "create" => j.todo # <<"save">> /\ Head(j.todo) = "createSQL"
    /\ j.op = "createUser" => ~contains(state.users, j.role)
    /\ j.op = "grant" => pair(j.database, j.role)

LEMMA DatabaseBegins ==
    ASSUME ServicesTypeOK, DatabaseCommand
    PROVE  /\ UNCHANGED serverVars
           /\ \E j : BegunDatabase(j) /\ Begin(j)
<1> USE DEF ServicesTypeOK, RecordTypeOK
<1> DEFINE C == <<"createSQL", "save">>
           P == <<"rotateSQL">>
           D == <<"dropDatabase", "dropRole", "save">>
           U == <<"createUserSQL", "save">>
           X == <<"dropRole", "save">>
           G == <<"grantSQL", "save">>
           R == <<"revokeSQL", "save">>
<1>p. /\ C \in Seq(Steps) /\ P \in Seq(Steps)
      /\ D \in Seq(Steps)
      /\ U \in Seq(Steps) /\ X \in Seq(Steps)
      /\ G \in Seq(Steps) /\ R \in Seq(Steps)
  BY DEF Steps
<1>h. /\ Head(C) = "createSQL" /\ Head(P) = "rotateSQL"
      /\ Head(D) = "dropDatabase"
      /\ Head(X) = "dropRole"
      /\ Head(U) = "createUserSQL"
      /\ Head(G) = "grantSQL" /\ Head(R) = "revokeSQL"
      /\ C # <<"save">>
  OBVIOUS
<1>n. None \in Databases \cup {None} /\ Databases \subseteq Databases \cup {None}
  OBVIOUS
<1> HIDE DEF C, P, D, U, X, G, R
<1>1. ASSUME NEW d \in Databases, NEW r \in Roles, Create(d, r)
      PROVE  UNCHANGED serverVars /\ \E j : BegunDatabase(j) /\ Begin(j)
  <2> DEFINE j == DatabaseJob("create", d, r, C)
  <2>1. j \in Job /\ j.op = "create" /\ j.new = state /\ j.todo = C
        /\ ~j.undoing /\ j.database = d /\ j.role = r
    BY <1>p, <1>n, DatabaseJobFields DEF DatabaseOps
  <2>2. Begin(j) /\ UNCHANGED serverVars
    BY <1>1 DEF Create, C
  <2> HIDE DEF j
  <2>3. DatabaseShape(j)
    BY <2>1 DEF DatabaseShape, C
  <2>4. BegunDatabase(j)
    BY <1>h, <2>1, <2>3 DEF BegunDatabase, DatabaseOps, Statements
  <2> QED BY <2>2, <2>4
<1>2. ASSUME NEW d \in Databases, NEW r \in Roles, RotatePassword(d, r)
      PROVE  UNCHANGED serverVars /\ \E j : BegunDatabase(j) /\ Begin(j)
  <2> DEFINE j == DatabaseJob("rotate", d, r, P)
  <2>1. j \in Job /\ j.op = "rotate" /\ j.new = state /\ j.todo = P
        /\ ~j.undoing /\ j.database = d /\ j.role = r
    BY <1>p, <1>n, DatabaseJobFields DEF DatabaseOps
  <2>2. Begin(j) /\ UNCHANGED serverVars
    BY <1>2 DEF RotatePassword, P
  <2> HIDE DEF j
  <2>3. DatabaseShape(j)
    BY <2>1 DEF DatabaseShape, P
  <2>4. BegunDatabase(j)
    BY <1>h, <2>1, <2>3 DEF BegunDatabase, DatabaseOps, Statements
  <2> QED BY <2>2, <2>4
<1>3. ASSUME NEW d \in Databases, NEW r \in Roles, Delete(d, r)
      PROVE  UNCHANGED serverVars /\ \E j : BegunDatabase(j) /\ Begin(j)
  <2> DEFINE j == DatabaseJob("delete", d, r, D)
  <2>1. j \in Job /\ j.op = "delete" /\ j.new = state
        /\ j.todo = D
        /\ ~j.undoing /\ j.database = d /\ j.role = r
    BY <1>p, <1>n, DatabaseJobFields DEF DatabaseOps
  <2>2. Begin(j) /\ UNCHANGED serverVars
    BY <1>3 DEF Delete, D
  <2> HIDE DEF j
  <2>3. DatabaseShape(j)
    BY <2>1 DEF DatabaseShape, D
  <2>4. BegunDatabase(j)
    BY <1>h, <2>1, <2>3 DEF BegunDatabase, DatabaseOps, Statements
  <2> QED BY <2>2, <2>4
<1>4. ASSUME NEW d \in Databases, NEW r \in Roles, Grant(d, r)
      PROVE  UNCHANGED serverVars /\ \E j : BegunDatabase(j) /\ Begin(j)
  <2> DEFINE j == DatabaseJob("grant", d, r, G)
  <2>1. j \in Job /\ j.op = "grant" /\ j.new = state /\ j.todo = G
        /\ ~j.undoing /\ j.database = d /\ j.role = r
    BY <1>p, <1>n, DatabaseJobFields DEF DatabaseOps
  <2>2. Begin(j) /\ UNCHANGED serverVars /\ pair(d, r)
    BY <1>4 DEF Grant, G
  <2> HIDE DEF j
  <2>3. DatabaseShape(j)
    BY <2>1 DEF DatabaseShape, G
  <2>4. BegunDatabase(j)
    BY <1>h, <2>1, <2>2, <2>3 DEF BegunDatabase, DatabaseOps, Statements
  <2> QED BY <2>2, <2>4
<1>5. ASSUME NEW d \in Databases, NEW r \in Roles, Revoke(d, r)
      PROVE  UNCHANGED serverVars /\ \E j : BegunDatabase(j) /\ Begin(j)
  <2> DEFINE j == DatabaseJob("revoke", d, r, R)
  <2>1. j \in Job /\ j.op = "revoke" /\ j.new = state /\ j.todo = R
        /\ ~j.undoing /\ j.database = d /\ j.role = r
    BY <1>p, <1>n, DatabaseJobFields DEF DatabaseOps
  <2>2. Begin(j) /\ UNCHANGED serverVars
    BY <1>5 DEF Revoke, R
  <2> HIDE DEF j
  <2>3. DatabaseShape(j)
    BY <2>1 DEF DatabaseShape, R
  <2>4. BegunDatabase(j)
    BY <1>h, <2>1, <2>3 DEF BegunDatabase, DatabaseOps, Statements
  <2> QED BY <2>2, <2>4
<1>6. ASSUME NEW r \in Roles, CreateUser(r)
      PROVE  UNCHANGED serverVars /\ \E j : BegunDatabase(j) /\ Begin(j)
  <2>0. PICK d \in Databases \cup {None} : d = None
    BY <1>n
  <2> DEFINE j == DatabaseJob("createUser", d, r, U)
  <2>1. j \in Job /\ j.op = "createUser" /\ j.new = state
        /\ j.todo = U /\ ~j.undoing /\ j.role = r
    BY <1>p, <2>0 DEF DatabaseOps, DatabaseJob, NewJob, Job
  <2>2. Begin(j) /\ UNCHANGED serverVars /\ ~contains(state.users, r)
    BY <1>6, <2>0 DEF CreateUser, U
  <2> HIDE DEF j
  <2>3. DatabaseShape(j)
    BY <2>1 DEF DatabaseShape, U
  <2>4. BegunDatabase(j)
    BY <1>h, <2>1, <2>2, <2>3 DEF BegunDatabase, DatabaseOps, Statements
  <2> QED BY <2>2, <2>4
<1>7. ASSUME NEW r \in Roles, DeleteUser(r)
      PROVE  UNCHANGED serverVars /\ \E j : BegunDatabase(j) /\ Begin(j)
  <2>0. PICK d \in Databases \cup {None} : d = None
    BY <1>n
  <2> DEFINE j == DatabaseJob("deleteUser", d, r, X)
  <2>1. j \in Job /\ j.op = "deleteUser" /\ j.new = state
        /\ j.todo = X /\ ~j.undoing /\ j.role = r
    BY <1>p, <2>0 DEF DatabaseOps, DatabaseJob, NewJob, Job
  <2>2. Begin(j) /\ UNCHANGED serverVars
    BY <1>7, <2>0 DEF DeleteUser, X
  <2> HIDE DEF j
  <2>3. DatabaseShape(j)
    BY <2>1 DEF DatabaseShape, X
  <2>4. BegunDatabase(j)
    BY <1>h, <2>1, <2>3 DEF BegunDatabase, DatabaseOps, Statements
  <2> QED BY <2>2, <2>4
<1> QED BY <1>1, <1>2, <1>3, <1>4, <1>5, <1>6, <1>7 DEF DatabaseCommand

\* The key of a command, None when it takes the key away.
MaybeKey == PublicKeys \cup {None}

LEMMA KeyOfType ==
    ASSUME AccessTypeOK, NEW l \in Logins
    PROVE  KeyOf(l) \in PublicKeys \cup {None}
<1>1. keys[l] \in KeyFile \cup {None}
  BY DEF AccessTypeOK
<1> QED BY <1>1 DEF KeyOf, KeyFile

LEMMA AccessJobFields ==
    ASSUME state \in State, AccessTypeOK, NEW op \in AccessOps, NEW l \in Logins,
           NEW k \in MaybeKey, NEW todo \in Seq(Steps)
    PROVE  LET j == AccessJob(op, l, k, todo)
           IN  /\ j \in Job /\ j.op = op /\ j.new = state /\ j.todo = todo
               /\ ~j.undoing /\ j.login = l /\ j.key = k
               /\ j.oldKey = KeyOf(l) /\ j.oldConf = (l \in confs)
<1>1. PICK old \in PublicKeys \cup {None} : old = KeyOf(l)
  BY KeyOfType
<1>0. (l \in confs) \in BOOLEAN
  OBVIOUS
<1>2. PICK conf \in BOOLEAN : conf = (l \in confs)
  BY <1>0, Zenon
<1>3. AccessJob(op, l, k, todo) =
        [NewJob(op, todo) EXCEPT !.login = l, !.key = k, !.oldKey = old, !.oldConf = conf]
  BY <1>1, <1>2 DEF AccessJob
<1>4. AccessJob(op, l, k, todo) =
        [op |-> op, new |-> state, todo |-> todo, undoing |-> FALSE, database |-> None,
         role |-> None, login |-> l, key |-> k, oldKey |-> old, oldConf |-> conf]
  BY <1>3 DEF NewJob
<1>5. AccessJob(op, l, k, todo) \in Job
  BY <1>4 DEF Job, MaybeKey
<1>6. /\ AccessJob(op, l, k, todo).op = op /\ AccessJob(op, l, k, todo).new = state
      /\ AccessJob(op, l, k, todo).todo = todo /\ ~AccessJob(op, l, k, todo).undoing
      /\ AccessJob(op, l, k, todo).login = l /\ AccessJob(op, l, k, todo).key = k
      /\ AccessJob(op, l, k, todo).oldKey = KeyOf(l)
  BY <1>1, <1>4
<1>7. AccessJob(op, l, k, todo).oldConf = (l \in confs)
  BY <1>2, <1>4
<1> QED BY <1>5, <1>6, <1>7

\* What is known of an access command that has just begun.
BegunAccess(j) ==
    /\ j \in Job /\ j.op \in AccessOps /\ ~j.undoing /\ j.new = state /\ AccessShape(j)
    /\ j.login \in Logins
    /\ j.oldKey = KeyOf(j.login) /\ j.oldConf = (j.login \in confs)
    /\ j.op = "applyKey" => Head(j.todo) = "writeKey"
    /\ j.op = "revokeKey" => Head(j.todo) = "rmKey"
    /\ j.op = "createLogin" => Head(j.todo) = "useradd" /\ j.login \notin state.logins
    /\ j.op = "applyLogin" => Head(j.todo) = "acl" /\ j.login \in state.logins
    /\ j.op = "deleteLogin" => Head(j.todo) = "rmConf"

LEMMA AccessBegins ==
    ASSUME ServicesTypeOK, AccessCommand
    PROVE  /\ UNCHANGED accessVars
           /\ \E j : BegunAccess(j) /\ Begin(j)
<1> USE DEF ServicesTypeOK, RecordTypeOK
<1> DEFINE A == <<"acl", "writeKey", "chown", "writeConf", "reload", "save">>
           N == <<"useradd", "passwd", "acl", "writeKey", "chown", "writeConf", "reload", "save">>
           R == <<"rmKey", "rmConf", "reload", "save">>
           D == <<"rmConf", "rmKey", "reload", "rmAcl", "userdel", "save">>
<1>p. KeySteps \in Seq(Steps) /\ A \in Seq(Steps) /\ N \in Seq(Steps) /\ R \in Seq(Steps)
      /\ D \in Seq(Steps)
  BY DEF Steps, KeySteps
<1>h. /\ Head(KeySteps) = "writeKey" /\ Head(A) = "acl" /\ Head(N) = "useradd"
      /\ Head(R) = "rmKey" /\ Head(D) = "rmConf"
  BY DEF KeySteps
<1>t. /\ KeySteps \in KeyTails /\ A \in LoginTails /\ N \in NewLoginTails
      /\ R \in RevokeTails /\ D \in DeleteTails
  BY DEF KeySteps, KeyTails, LoginTails, NewLoginTails, RevokeTails, DeleteTails
<1>c. <<"acl">> \o KeySteps = A /\ <<"useradd", "passwd", "acl">> \o KeySteps = N
  BY ForwardPrograms
<1>l. Own \in Logins /\ Labels \subseteq Logins /\ PublicKeys \subseteq MaybeKey
      /\ None \in MaybeKey
  BY DEF Logins, MaybeKey
<1> HIDE DEF A, N, R, D
<1>1. ASSUME NEW k \in PublicKeys, NEW a \in BOOLEAN, applyKey(k, a)
      PROVE  UNCHANGED accessVars /\ \E j : BegunAccess(j) /\ Begin(j)
  <2> DEFINE j == AccessJob("applyKey", Own, k, KeySteps)
  <2>1. j \in Job /\ j.op = "applyKey" /\ j.new = state /\ j.todo = KeySteps
        /\ ~j.undoing /\ j.login = Own /\ j.key = k
        /\ j.oldKey = KeyOf(Own) /\ j.oldConf = (Own \in confs)
    BY <1>p, <1>l, AccessJobFields DEF AccessOps
  <2>2. Begin(j) /\ UNCHANGED accessVars
    BY <1>1 DEF applyKey
  <2> HIDE DEF j
  <2>3. AccessShape(j)
    BY <1>t, <2>1 DEF AccessShape
  <2>4. BegunAccess(j)
    BY <1>h, <1>l, <2>1, <2>3 DEF BegunAccess, AccessOps
  <2> QED BY <2>2, <2>4
<1>2. ASSUME RevokeKey
      PROVE  UNCHANGED accessVars /\ \E j : BegunAccess(j) /\ Begin(j)
  <2>0. PICK k \in MaybeKey : k = None
    BY <1>l
  <2>a. PICK l \in Logins : l = Own
    BY <1>l
  <2> DEFINE j == AccessJob("revokeKey", l, k, R)
  <2>1. j \in Job /\ j.op = "revokeKey" /\ j.new = state /\ j.todo = R
        /\ ~j.undoing /\ j.login = l /\ j.key = k
        /\ j.oldKey = KeyOf(l) /\ j.oldConf = (l \in confs)
    BY <1>p, <1>l, AccessJobFields DEF AccessOps
  <2>2. Begin(j) /\ UNCHANGED accessVars
    BY <1>2, <2>0, <2>a DEF RevokeKey, R
  <2> HIDE DEF j
  <2>3. AccessShape(j)
    BY <1>t, <2>0, <2>a, <2>1 DEF AccessShape
  <2>4. BegunAccess(j)
    BY <1>h, <1>l, <2>1, <2>3 DEF BegunAccess, AccessOps
  <2> QED BY <2>2, <2>4
<1>3. ASSUME NEW l \in Labels, NEW k \in PublicKeys,
             l \in state.logins, Begin(AccessJob("applyLogin", l, k, A)),
             UNCHANGED accessVars
      PROVE  UNCHANGED accessVars /\ \E j : BegunAccess(j) /\ Begin(j)
  <2> DEFINE j == AccessJob("applyLogin", l, k, A)
  <2>1. j \in Job /\ j.op = "applyLogin" /\ j.new = state /\ j.todo = A
        /\ ~j.undoing /\ j.login = l /\ j.key = k
        /\ j.oldKey = KeyOf(l) /\ j.oldConf = (l \in confs)
    BY <1>p, <1>l, AccessJobFields DEF AccessOps
  <2>2. Begin(j)
    BY <1>3
  <2> HIDE DEF j
  <2>3. AccessShape(j)
    BY <1>t, <2>1 DEF AccessShape
  <2>4. BegunAccess(j)
    BY <1>h, <1>l, <1>3, <2>1, <2>3 DEF BegunAccess, AccessOps
  <2> QED BY <1>3, <2>2, <2>4
<1>4. ASSUME NEW l \in Labels, NEW k \in PublicKeys, CreateFTPUser(l, k)
      PROVE  UNCHANGED accessVars /\ \E j : BegunAccess(j) /\ Begin(j)
  <2> DEFINE j == AccessJob("createLogin", l, k, N)
  <2>1. UNCHANGED accessVars
    BY <1>4 DEF CreateFTPUser
  <2>2. CASE l \in state.logins
    <3>1. Begin(AccessJob("applyLogin", l, k, A))
      BY <1>4, <1>c, <2>2 DEF CreateFTPUser
    <3> QED BY <1>3, <2>1, <2>2, <3>1
  <2>3. CASE l \notin state.logins
    <3>1. j \in Job /\ j.op = "createLogin" /\ j.new = state /\ j.todo = N
          /\ ~j.undoing /\ j.login = l /\ j.key = k
          /\ j.oldKey = KeyOf(l) /\ j.oldConf = (l \in confs)
      BY <1>p, <1>l, AccessJobFields DEF AccessOps
    <3>2. Begin(j)
      BY <1>4, <1>c, <2>3 DEF CreateFTPUser
    <3> HIDE DEF j
    <3>3. AccessShape(j)
      BY <1>t, <3>1 DEF AccessShape
    <3>4. BegunAccess(j)
      BY <1>h, <1>l, <2>3, <3>1, <3>3 DEF BegunAccess, AccessOps
    <3> QED BY <2>1, <3>2, <3>4
  <2> QED BY <2>2, <2>3
<1>5. ASSUME NEW l \in Labels, NEW k \in PublicKeys, UpdateFTPKey(l, k)
      PROVE  UNCHANGED accessVars /\ \E j : BegunAccess(j) /\ Begin(j)
  BY <1>3, <1>5, <1>c DEF UpdateFTPKey
<1>6. ASSUME NEW l \in Labels, DeleteFTPUser(l)
      PROVE  UNCHANGED accessVars /\ \E j : BegunAccess(j) /\ Begin(j)
  <2>0. PICK k \in MaybeKey : k = None
    BY <1>l
  <2> DEFINE j == AccessJob("deleteLogin", l, k, D)
  <2>1. j \in Job /\ j.op = "deleteLogin" /\ j.new = state /\ j.todo = D
        /\ ~j.undoing /\ j.login = l /\ j.key = k
        /\ j.oldKey = KeyOf(l) /\ j.oldConf = (l \in confs)
    BY <1>p, <1>l, AccessJobFields DEF AccessOps
  <2>2. Begin(j) /\ UNCHANGED accessVars
    BY <1>6, <2>0 DEF DeleteFTPUser, D
  <2> HIDE DEF j
  <2>3. AccessShape(j)
    BY <1>t, <2>0, <2>1 DEF AccessShape
  <2>4. BegunAccess(j)
    BY <1>h, <1>l, <2>1, <2>3 DEF BegunAccess, AccessOps
  <2> QED BY <2>2, <2>4
<1> QED BY <1>1, <1>2, <1>4, <1>5, <1>6 DEF AccessCommand

(***************************************************************************)
(* What a step leaves of the job.                                          *)
(***************************************************************************)
SameCommand(i, j) ==
    /\ i.op = j.op /\ i.database = j.database /\ i.role = j.role /\ i.login = j.login
    /\ i.key = j.key /\ i.oldKey = j.oldKey /\ i.oldConf = j.oldConf

LEMMA JobAdvances ==
    ASSUME NEW j \in Job, NEW t \in Seq(Steps)
    PROVE  LET i == [j EXCEPT !.todo = t]
           IN  /\ i \in Job /\ SameCommand(i, j)
               /\ i.new = j.new /\ i.todo = t /\ i.undoing = j.undoing
BY DEF Job, SameCommand

LEMMA JobGivesUp ==
    ASSUME NEW j \in Job, NEW t \in Seq(Steps)
    PROVE  LET i == [[j EXCEPT !.undoing = TRUE] EXCEPT !.todo = t]
           IN  /\ i \in Job /\ SameCommand(i, j)
               /\ i.new = j.new /\ i.todo = t /\ i.undoing
BY DEF Job, SameCommand

\* A job is in one manager's hands, and which one shows in its next step.
LEMMA JobTyped ==
    ASSUME ServicesTypeOK, JobInv, job # None
    PROVE  /\ job \in Job /\ job.new \in State /\ job.todo \in Seq(Steps)
           /\ job.undoing \in BOOLEAN /\ job.op \in DatabaseOps \cup AccessOps
           /\ job.op \in DatabaseOps <=> job.op \notin AccessOps
           /\ job.op \in DatabaseOps => DatabaseShape(job)
           /\ job.op \in AccessOps => AccessShape(job)
<1>1. job \in Job
  BY DEF ServicesTypeOK, RecordTypeOK
<1>2. /\ job.new \in State /\ job.todo \in Seq(Steps) /\ job.undoing \in BOOLEAN
      /\ job.op \in DatabaseOps \cup AccessOps
  BY <1>1 DEF Job
<1>3. job.op \in DatabaseOps <=> job.op \notin AccessOps
  BY <1>2 DEF DatabaseOps, AccessOps
<1> QED BY <1>1, <1>2, <1>3 DEF JobInv

LEMMA AccessSteps ==
    ASSUME ServicesTypeOK, JobInv, job # None, job.op \in AccessOps
    PROVE  /\ Step \notin Statements
           /\ AccessShape(job) /\ job \in Job /\ job.undoing \in BOOLEAN
           /\ job.login \in Logins
           /\ job.undoing => Step # "save"
<1>1. AccessShape(job) /\ job \in Job /\ job.undoing \in BOOLEAN
  BY JobTyped
<1>2. job.login \in Logins
  BY <1>1 DEF AccessShape, AccessOps, Logins
<1>3. job.undoing => Step \in {"restoreKey", "restoreConf", "reload", "userdel"}
  BY <1>1, UndoSteps DEF Is, Step
<1>4. ~job.undoing /\ job.op \in KeyCommands =>
        Step \in {"useradd", "passwd", "acl", "writeKey", "chown", "writeConf", "reload", "save"}
  BY <1>1, KeyPrograms DEF Leads, Step
<1>5. ~job.undoing /\ job.op = "revokeKey" => Step \in {"rmKey", "rmConf", "reload", "save"}
  BY <1>1, RevokePrograms DEF Leads, Step
<1>6. ~job.undoing /\ job.op = "deleteLogin" =>
        Step \in {"rmConf", "rmKey", "reload", "rmAcl", "userdel", "save"}
  BY <1>1, DeletePrograms DEF Leads, Step
<1>7. job.op \in KeyCommands \/ job.op = "revokeKey" \/ job.op = "deleteLogin"
  BY DEF AccessOps, KeyCommands
<1> QED BY <1>1, <1>2, <1>3, <1>4, <1>5, <1>6, <1>7 DEF Statements

(***************************************************************************)
(* Steps of one manager leave the other's part of the invariant alone.     *)
(***************************************************************************)
LEMMA LoginsKept ==
    ASSUME LoginInv, UNCHANGED <<keys, confs, loaded, accounts, accepted>>,
           state'.logins = state.logins,
           \A l \in Logins \ parted' : l \notin parted /\ ~Busy(l) /\ ~Busy(l)'
    PROVE  LoginInv'
<1> SUFFICES ASSUME NEW l \in Logins \ parted' PROVE (IF Busy(l) THEN Held(l) ELSE Match(l))'
  BY DEF LoginInv
<1>1. l \in Logins \ parted /\ ~Busy(l) /\ ~Busy(l)'
  OBVIOUS
<1>2. Match(l)
  BY <1>1 DEF LoginInv
<1>3. Match(l)'
  BY <1>2 DEF Match, KeyOf, Active
<1> QED BY <1>1, <1>3

\* Two entries agree on databases, users and grants.
SameDatabases(f, h) ==
    f.grants = h.grants /\ f.users = h.users /\ f.databases = h.databases

LEMMA DatabaseKept ==
    ASSUME ServicesTypeOK, ServicesTypeOK', DatabaseInv, RecordInv',
           job = None \/ job.op \in AccessOps, job' = None \/ job'.op \in AccessOps,
           UNCHANGED serverVars, SameDatabases(state', state),
           SameDatabases(stateFile', state) \/ SameDatabases(stateFile', stateFile),
           \A d \in Databases : d \in parted => d \in parted'
    PROVE  DatabaseInv'
<1> USE DEF SameDatabases
<1>1. GrantsWork /\ GrantsToUsers /\ RecordedExist
  BY DEF DatabaseInv
<1>2. state.grants \subseteq Databases \X Roles
  BY DEF ServicesTypeOK, RecordTypeOK, State
<1>3. Works(state.grants) /\ ToUsers(state) /\ ToUsers(stateFile)
      /\ \A d \in Databases : contains(state.databases, d) \/ contains(stateFile.databases, d)
            => d \in databases \cup parted
  BY <1>1 DEF GrantsWork, GrantsToUsers, RecordedExist, Dropping, AccessOps
<1>4. Works(state.grants)'
  BY <1>2, <1>3 DEF Works, serverVars
<1>5. ToUsers(state)' /\ ToUsers(stateFile)'
  BY <1>3 DEF ToUsers, serverVars
<1>6. \A d \in Databases : contains(state'.databases, d) \/ contains(stateFile'.databases, d)
         => d \in databases' \cup parted'
  BY <1>3 DEF serverVars
<1>7. job' # None /\ ~job'.undoing => job'.new = state'
  BY DEF RecordInv
<1>8. GrantsWork'
  BY <1>4, <1>7 DEF GrantsWork, Works
<1>9. GrantsToUsers'
  BY <1>5, <1>7 DEF GrantsToUsers, ToUsers
<1>10. RecordedExist'
  BY <1>6, <1>7 DEF RecordedExist
<1>11. CommandFacts'
  BY <1>7 DEF CommandFacts, AccessOps
<1> QED BY <1>8, <1>9, <1>10, <1>11 DEF DatabaseInv

(***************************************************************************)
(* The invariant holds initially, and the beginning of a command keeps it. *)
(***************************************************************************)
LEMMA ServicesInitInv == ServicesInit => ServicesInv
<1> SUFFICES ASSUME ServicesInit PROVE ServicesInv
  OBVIOUS
<1> USE DEF ServicesInit, DatabaseInit, AccessInit
<1>1. NewState \in State
  BY EmptySeq DEF NewState, State
<1>2. state.grants = {} /\ state.logins = {} /\ state.databases = <<>> /\ stateFile = state
      /\ lost = {}
  BY DEF NewState
<1>3. RecordTypeOK
  BY <1>1, SiteRecordAssumption DEF RecordTypeOK
<1>4. DatabaseTypeOK /\ AccessTypeOK
  BY <1>2 DEF DatabaseTypeOK, AccessTypeOK
<1>5. ~ \E d : contains(state.databases, d)
  <2>1. DOMAIN state.databases = {}
    BY <1>2
  <2> QED BY <2>1 DEF contains
<1>6. DatabaseInv
  BY <1>2, <1>5 DEF DatabaseInv, GrantsWork, GrantsToUsers, RecordedExist, CommandFacts,
        Works, ToUsers
<1>7. LoginInv
  BY <1>2 DEF LoginInv, Busy, Match, KeyOf, Active, Logins
<1> QED
  BY <1>2, <1>3, <1>4, <1>6, <1>7
     DEF ServicesInv, ServicesTypeOK, JobInv, RecordInv, ForwardInv

LEMMA DatabaseBeginKeeps ==
    ASSUME ServicesInv, DatabaseCommand, UNCHANGED accessVars
    PROVE  ServicesInv'
<1> USE DEF ServicesInv
<1>1. UNCHANGED serverVars
  BY DatabaseBegins
<1>2. PICK j : BegunDatabase(j) /\ Begin(j)
  BY DatabaseBegins
<1>3. /\ job = None /\ job' = j /\ state' = state /\ stateFile' = stateFile
      /\ faults' = faults /\ parted' = parted /\ ops < MaxOps /\ ops' = ops + 1
  BY <1>2 DEF Begin, recordVars
<1>4. j \in Job /\ j # None
  BY <1>2, NoneIsNoJob DEF BegunDatabase
<1>5. ServicesTypeOK'
  <2>1. ops' \in 0 .. MaxOps
    BY <1>3, SiteRecordAssumption DEF ServicesTypeOK, RecordTypeOK
  <2>2. RecordTypeOK'
    BY <1>3, <1>4, <2>1 DEF ServicesTypeOK, RecordTypeOK
  <2> QED
    BY <1>1, <2>2 DEF ServicesTypeOK, DatabaseTypeOK, AccessTypeOK, serverVars, accessVars, hostVars
<1>6. j.op \notin AccessOps
  BY <1>2 DEF BegunDatabase, DatabaseOps, AccessOps
<1>7. JobInv'
  BY <1>2, <1>3, <1>6 DEF JobInv, BegunDatabase, DatabaseShape
<1>8. RecordInv'
  BY <1>2, <1>3, <1>6 DEF RecordInv, BegunDatabase
<1>9. ForwardInv'
  BY <1>3, <1>6 DEF ForwardInv, KeyCommands, AccessOps
<1>10. LoginInv'
  BY <1>3, <1>6, LoginsKept DEF accessVars, hostVars, Busy
<1>11. DatabaseInv'
  <2>1. GrantsWork /\ GrantsToUsers /\ RecordedExist
    BY <1>3 DEF DatabaseInv
  <2>2. ToUsers(state)
    BY <1>3, <2>1 DEF GrantsToUsers
  <2>3. j.new = state /\ ~j.undoing
    BY <1>2 DEF BegunDatabase
  <2>4. GrantsWork'
    BY <1>1, <1>3, <2>1, <2>3 DEF GrantsWork, Works, serverVars
  <2>5. GrantsToUsers'
    BY <1>1, <1>3, <2>1, <2>2, <2>3 DEF GrantsToUsers, ToUsers, serverVars
  <2>6. RecordedExist'
    BY <1>1, <1>3, <2>1, <2>3 DEF RecordedExist, Dropping, serverVars
  <2>7. j.op = "createUser" => NoneOf(state.grants, j.role)
    BY <1>2, <2>2 DEF ToUsers, NoneOf, BegunDatabase
  <2>8. CommandFacts'
    BY <1>1, <1>2, <1>3, <2>3, <2>7
       DEF CommandFacts, BegunDatabase, Step, pair, NoneOf, serverVars, Statements
  <2> QED BY <2>4, <2>5, <2>6, <2>8 DEF DatabaseInv
<1> QED BY <1>5, <1>7, <1>8, <1>9, <1>10, <1>11

LEMMA AccessBeginKeeps ==
    ASSUME ServicesInv, AccessCommand, UNCHANGED serverVars
    PROVE  ServicesInv'
<1> USE DEF ServicesInv
<1>1. UNCHANGED accessVars
  BY AccessBegins
<1>2. PICK j : BegunAccess(j) /\ Begin(j)
  BY AccessBegins
<1>3. /\ job = None /\ job' = j /\ state' = state /\ stateFile' = stateFile
      /\ faults' = faults /\ parted' = parted /\ ops < MaxOps /\ ops' = ops + 1
  BY <1>2 DEF Begin, recordVars
<1>4. j \in Job /\ j # None /\ j.op \in AccessOps /\ ~j.undoing /\ j.new = state
      /\ j.login \in Logins
  BY <1>2, NoneIsNoJob DEF BegunAccess
<1>5. ServicesTypeOK'
  <2>1. ops' \in 0 .. MaxOps
    BY <1>3, SiteRecordAssumption DEF ServicesTypeOK, RecordTypeOK
  <2>2. RecordTypeOK'
    BY <1>3, <1>4, <2>1 DEF ServicesTypeOK, RecordTypeOK
  <2> QED
    BY <1>1, <2>2 DEF ServicesTypeOK, DatabaseTypeOK, AccessTypeOK, serverVars, accessVars, hostVars
<1>6. j.op \notin DatabaseOps
  BY <1>4 DEF DatabaseOps, AccessOps
<1>7. JobInv'
  BY <1>2, <1>3, <1>6 DEF JobInv, BegunAccess, AccessShape
<1>8. RecordInv'
  BY <1>3, <1>4 DEF RecordInv
<1>9. ForwardInv'
  BY <1>2, <1>3, <1>4 DEF ForwardInv, KeyCommands, BegunAccess, Step
<1>10. DatabaseInv'
  BY <1>3, <1>4, <1>5, <1>8, DatabaseKept DEF SameDatabases
<1>11. LoginInv'
  <2> SUFFICES ASSUME NEW l \in Logins \ parted' PROVE (IF Busy(l) THEN Held(l) ELSE Match(l))'
    BY DEF LoginInv
  <2>1. Match(l)
    BY <1>3 DEF LoginInv, Busy
  <2>2. Match(l)'
    BY <1>1, <1>3, <2>1 DEF Match, KeyOf, Active, accessVars, hostVars
  <2>3. ASSUME l = j.login PROVE Held(l)'
    <3>1. /\ j.oldKey = accepted[l] /\ j.oldConf = (l \in confs)
          /\ (l \in confs) = Active(l) /\ (l \in state.logins) = Active(l)
      BY <1>2, <2>1, <2>3 DEF BegunAccess, Match
    <3>2. j.op = "createLogin" => ~Active(l) /\ l \notin accounts
      BY <1>2, <2>1, <2>3 DEF BegunAccess, Match, AccessShape
    <3>3. j.op = "applyLogin" => (l \in accounts) = Active(l)
      BY <1>2, <2>1, <2>3 DEF BegunAccess, Match, AccessShape
    <3>4. j.op = "deleteLogin" => DeletionFacts(l)'
      BY <1>2, <1>3 DEF BegunAccess, DeletionFacts, Step
    <3>5. /\ (l \in state'.logins) = Active(l)'
          /\ job'.oldKey = accepted'[l] /\ job'.oldConf = Active(l)'
      BY <1>1, <1>3, <3>1 DEF Active, accessVars, hostVars
    <3>6. /\ job'.op = "createLogin" => ~Active(l)' /\ l \notin accounts'
          /\ job'.op = "applyLogin" => (l \in accounts') = Active(l)'
      BY <1>1, <1>3, <3>2, <3>3 DEF Active, accessVars, hostVars
    <3> QED
      BY <1>3, <2>2, <3>4, <3>5, <3>6 DEF Held, Match
  <2> QED BY <1>3, <2>2, <2>3 DEF Busy
<1> QED BY <1>5, <1>7, <1>8, <1>9, <1>10, <1>11

(***************************************************************************)
(* The steps of an access command.                                         *)
(***************************************************************************)
LEMMA AccessStepJob ==
    ASSUME ServicesInv, AccessStep
    PROVE  /\ job # None /\ job \in Job /\ job.op \in AccessOps /\ AccessShape(job)
           /\ job.login \in Logins /\ job.undoing \in BOOLEAN
           /\ state' = state /\ stateFile' = stateFile /\ ops' = ops /\ faults' = faults
           /\ parted' = parted /\ accepted' = accepted
           /\ Tail(job.todo) = <<>> => job' = None
           /\ Tail(job.todo) # <<>> =>
                /\ job' \in Job /\ job' # None /\ SameCommand(job', job)
                /\ job'.new = job.new /\ job'.todo = Tail(job.todo)
                /\ job'.undoing = job.undoing
<1>1. job # None /\ job.op \in AccessOps
  BY DEF AccessStep
<1>2. /\ job \in Job /\ AccessShape(job) /\ job.login \in Logins /\ job.undoing \in BOOLEAN
      /\ job.todo \in Seq(Steps)
  BY <1>1, AccessSteps, JobTyped DEF ServicesInv
<1>3. job' = IF Tail(job.todo) = <<>> THEN None ELSE [job EXCEPT !.todo = Tail(job.todo)]
  BY DEF AccessStep, Continue
<1>4. job.todo # <<>> => Tail(job.todo) \in Seq(Steps)
  BY <1>2, HeadTailProperties
<1>5. job.todo # <<>>
  <2>1. /\ <<>> \notin KeyTails /\ <<>> \notin LoginTails /\ <<>> \notin NewLoginTails
        /\ <<>> \notin RevokeTails /\ <<>> \notin DeleteTails
        /\ <<>> \notin UndoTails /\ <<>> \notin UndoNewTails
    BY DEF KeyTails, LoginTails, NewLoginTails, RevokeTails, DeleteTails, UndoTails, UndoNewTails
  <2> QED BY <1>1, <1>2, <2>1 DEF AccessShape, AccessOps
<1>6. Tail(job.todo) # <<>> =>
         /\ job' \in Job /\ job' # None /\ SameCommand(job', job)
         /\ job'.new = job.new /\ job'.todo = Tail(job.todo) /\ job'.undoing = job.undoing
  BY <1>2, <1>3, <1>4, <1>5, JobAdvances, NoneIsNoJob
<1> QED BY <1>1, <1>2, <1>3, <1>6 DEF AccessStep, recordVars, countVars

LEMMA RestoredType ==
    ASSUME job \in Job
    PROVE  /\ Restored \in KeyFile \cup {None}
           /\ (IF Restored = None THEN None ELSE Restored.key) = job.oldKey
<1>1. job.oldKey \in PublicKeys \cup {None}
  BY DEF Job
<1>2. CASE job.oldKey = None
  BY <1>2 DEF Restored
<1>3. CASE job.oldKey # None
  <2>1. Restored = [key |-> job.oldKey, owned |-> FALSE] /\ job.oldKey \in PublicKeys
    BY <1>1, <1>3 DEF Restored
  <2>2. Restored \in KeyFile
    BY <2>1 DEF KeyFile
  <2> QED BY <2>1, <2>2, NoneIsNoKeyFile
<1> QED BY <1>2, <1>3

LEMMA AccessStepTypes ==
    ASSUME ServicesInv, AccessStep, UNCHANGED serverVars
    PROVE  ServicesTypeOK'
<1> USE DEF ServicesInv
<1>1. /\ job # None /\ job \in Job /\ job.op \in AccessOps /\ AccessShape(job)
      /\ job.login \in Logins /\ job.undoing \in BOOLEAN
      /\ state' = state /\ stateFile' = stateFile /\ ops' = ops /\ faults' = faults
      /\ parted' = parted /\ accepted' = accepted
      /\ job' = None \/ job' \in Job
  BY AccessStepJob
<1>2. RecordTypeOK'
  BY <1>1 DEF ServicesTypeOK, RecordTypeOK
<1>3. DatabaseTypeOK'
  BY DEF ServicesTypeOK, DatabaseTypeOK, serverVars
<1>4. Do
  BY DEF AccessStep
<1>5. Step = "writeKey" => job.key \in PublicKeys
  <2>1. ~job.undoing /\ job.op \in KeyCommands => job.key \in PublicKeys
    BY <1>1 DEF AccessShape, KeyCommands
  <2>2. job.undoing => Step # "writeKey"
    BY <1>1, UndoSteps DEF Is, Step
  <2>3. ~job.undoing /\ job.op = "revokeKey" => Step # "writeKey"
    BY <1>1, RevokePrograms DEF Leads, Step
  <2>4. ~job.undoing /\ job.op = "deleteLogin" => Step # "writeKey"
    BY <1>1, DeletePrograms DEF Leads, Step
  <2> QED BY <1>1, <2>1, <2>2, <2>3, <2>4 DEF AccessOps, KeyCommands
<1>6. Step = "chown" => keys[job.login] \in KeyFile
  <2>1. ~job.undoing /\ job.op \in KeyCommands /\ Step = "chown" => keys[job.login] \in KeyFile
    BY <1>1 DEF ForwardInv
  <2>2. job.undoing => Step # "chown"
    BY <1>1, UndoSteps DEF Is, Step
  <2>3. ~job.undoing /\ job.op = "revokeKey" => Step # "chown"
    BY <1>1, RevokePrograms DEF Leads, Step
  <2>4. ~job.undoing /\ job.op = "deleteLogin" => Step # "chown"
    BY <1>1, DeletePrograms DEF Leads, Step
  <2> QED BY <1>1, <2>1, <2>2, <2>3, <2>4 DEF AccessOps, KeyCommands
<1>t. AccessTypeOK
  BY DEF ServicesTypeOK
<1>7. keys' \in [Logins -> KeyFile \cup {None}]
  <2>1. keys \in [Logins -> KeyFile \cup {None}]
    BY <1>t DEF AccessTypeOK
  <2>2. CASE Step = "writeKey"
    <3>1. [key |-> job.key, owned |-> FALSE] \in KeyFile
      BY <1>5, <2>2 DEF KeyFile
    <3>2. keys' = [keys EXCEPT ![job.login] = [key |-> job.key, owned |-> FALSE]]
      BY <1>4, <2>2 DEF Do
    <3> QED BY <1>1, <2>1, <3>1, <3>2
  <2>3. CASE Step = "chown"
    <3>1. [keys[job.login] EXCEPT !.owned = TRUE] \in KeyFile
      BY <1>6, <2>3 DEF KeyFile
    <3>2. keys' = [keys EXCEPT ![job.login] = [keys[job.login] EXCEPT !.owned = TRUE]]
      BY <1>4, <2>3 DEF Do
    <3> QED BY <1>1, <2>1, <3>1, <3>2
  <2>4. CASE Step = "rmKey"
    BY <1>1, <1>4, <2>1, <2>4 DEF Do
  <2>5. CASE Step = "restoreKey"
    <3>1. keys' = [keys EXCEPT ![job.login] = Restored]
      BY <1>4, <2>5 DEF Do
    <3> QED BY <1>1, <2>1, <3>1, RestoredType
  <2>6. CASE Step \notin {"writeKey", "chown", "rmKey", "restoreKey"}
    BY <1>4, <2>1, <2>6 DEF Do
  <2> QED BY <2>2, <2>3, <2>4, <2>5, <2>6
<1>8. confs' \subseteq Logins /\ loaded' \subseteq Logins
  <2>1. confs \subseteq Logins /\ loaded \subseteq Logins
    BY <1>t DEF AccessTypeOK
  <2>2. confs' \in {confs, confs \cup {job.login}, confs \ {job.login}}
    BY <1>4 DEF Do
  <2>3. loaded' \in {confs, loaded}
    BY <1>4 DEF Do
  <2> QED BY <1>1, <2>1, <2>2, <2>3
<1>9. accounts' \subseteq Labels
  <2>1. Step = "useradd" => job.login \in Labels
    <3>1. job.undoing => Step # "useradd"
      BY <1>1, UndoSteps DEF Is, Step
    <3>2. ~job.undoing /\ job.op = "revokeKey" => Step # "useradd"
      BY <1>1, RevokePrograms DEF Leads, Step
    <3>3. ~job.undoing /\ job.op \in KeyCommands /\ Step = "useradd" => job.op = "createLogin"
      BY <1>1, KeyPrograms DEF Leads, Step
    <3>4. job.op \in {"createLogin", "deleteLogin"} => job.login \in Labels
      BY <1>1 DEF AccessShape
    <3> QED BY <1>1, <3>1, <3>2, <3>3, <3>4 DEF AccessOps, KeyCommands
  <2>2. accounts \subseteq Labels
    BY <1>t DEF AccessTypeOK
  <2>3. CASE Step = "useradd"
    <3>1. accounts' = accounts \cup {job.login}
      BY <1>4, <2>3 DEF Do
    <3> QED BY <2>1, <2>2, <2>3, <3>1
  <2>4. CASE Step # "useradd"
    <3>1. accounts' \in {accounts, accounts \ {job.login}}
      BY <1>4, <2>4 DEF Do
    <3> QED BY <2>2, <3>1
  <2> QED BY <2>3, <2>4
<1>10. acls' \subseteq Labels \X {"site", "parent"}
  <2>1. acls \subseteq Labels \X {"site", "parent"}
    BY <1>t DEF AccessTypeOK
  <2>2. Step = "acl" => job.login \in Labels
    <3>1. job.undoing => Step # "acl"
      BY <1>1, UndoSteps DEF Is, Step
    <3>2. ~job.undoing /\ job.op = "revokeKey" => Step # "acl"
      BY <1>1, RevokePrograms DEF Leads, Step
    <3>3. ~job.undoing /\ job.op \in KeyCommands /\ Step = "acl" => job.op # "applyKey"
      BY <1>1, KeyPrograms DEF Leads, Step
    <3>4. job.op \in {"createLogin", "applyLogin", "deleteLogin"} => job.login \in Labels
      BY <1>1 DEF AccessShape
    <3> QED BY <1>1, <3>1, <3>2, <3>3, <3>4 DEF AccessOps, KeyCommands
  <2>3. CASE Step = "acl"
    <3>1. acls' = acls \cup ({job.login} \X {"site", "parent"})
      BY <1>4, <2>3 DEF Do
    <3> QED BY <2>1, <2>2, <2>3, <3>1
  <2>4. CASE Step # "acl"
    <3>1. acls' \subseteq acls
      BY <1>4, <2>4 DEF Do
    <3> QED BY <2>1, <3>1
  <2> QED BY <2>3, <2>4
<1>11. AccessTypeOK'
  <2>1. undone' = undone
    BY DEF AccessStep
  <2> QED BY <1>1, <1>t, <1>7, <1>8, <1>9, <1>10, <2>1 DEF AccessTypeOK
<1> QED BY <1>2, <1>3, <1>11 DEF ServicesTypeOK

\* What a step does to the logins of other commands: a reload at most, which
\* gives sshd the blocks that are there.
LEMMA AccessStepOthers ==
    ASSUME ServicesInv, AccessStep, NEW m \in Logins \ parted, m # job.login
    PROVE  Match(m)'
<1> USE DEF ServicesInv
<1>1. /\ job # None /\ job.op \in AccessOps /\ job.login \in Logins
      /\ state' = state /\ accepted' = accepted
  BY AccessStepJob
<1>2. Match(m)
  BY DEF LoginInv, Busy
<1>3. Do
  BY DEF AccessStep
<1>4. keys \in [Logins -> KeyFile \cup {None}]
  BY DEF ServicesTypeOK, AccessTypeOK
<1>5. keys'[m] = keys[m]
  BY <1>3, <1>4 DEF Do
<1>6. (m \in confs' <=> m \in confs) /\ (m \in accounts' <=> m \in accounts)
  <2>1. confs' \in {confs, confs \cup {job.login}, confs \ {job.login}}
    BY <1>3 DEF Do
  <2>2. accounts' \in {accounts, accounts \cup {job.login}, accounts \ {job.login}}
    BY <1>3 DEF Do
  <2> QED BY <2>1, <2>2
<1>7. loaded' \in {confs, loaded}
  BY <1>3 DEF Do
<1>8. KeyOf(m)' = KeyOf(m) /\ Active(m)' = Active(m)
  BY <1>1, <1>5 DEF KeyOf, Active
<1> QED BY <1>1, <1>2, <1>6, <1>7, <1>8 DEF Match

\* What is to be shown of a step that is not the last of its program.
AccessProgress ==
    /\ ForwardInv'
    /\ \A l \in Logins \ parted : l = job.login => Held(l)'

LEMMA KeyStepProgress ==
    ASSUME ServicesInv, AccessStep, ~job.undoing, job.op \in KeyCommands
    PROVE  AccessProgress /\ job' # None
<1> USE DEF ServicesInv
<1>1. /\ job # None /\ job \in Job /\ job.op \in AccessOps /\ AccessShape(job)
      /\ job.login \in Logins /\ job.undoing \in BOOLEAN
      /\ state' = state /\ accepted' = accepted /\ parted' = parted
  BY AccessStepJob
<1>2. PICK l : l = job.login
  OBVIOUS
<1>3. PICK op : op = job.op
  OBVIOUS
<1>4. Do /\ Possible /\ Step # "save"
  BY DEF AccessStep
<1>5. Tail(job.todo) # <<>>
  BY <1>1, <1>4, KeyPrograms DEF Leads, Step
<1>6. /\ job' # None /\ job'.op = op /\ job'.login = l /\ job'.key = job.key
      /\ job'.oldKey = job.oldKey /\ job'.oldConf = job.oldConf
      /\ job'.todo = Tail(job.todo) /\ ~job'.undoing
  BY <1>2, <1>3, <1>5, AccessStepJob DEF SameCommand
<1>7. Step' = Head(Tail(job.todo))
  BY <1>6 DEF Step
<1>8. keys \in [Logins -> KeyFile \cup {None}] /\ l \in Logins
  BY <1>1, <1>2 DEF ServicesTypeOK, AccessTypeOK
<1>9. job.key \in PublicKeys
  BY <1>1 DEF AccessShape, KeyCommands
<1>10. op \in KeyCommands /\ (op # "applyKey" => l \in Labels /\ l # Own)
  BY <1>1, <1>2, <1>3, SiteRecordAssumption DEF AccessShape, KeyCommands
<1>11. /\ Step \in {"chown", "writeConf", "reload", "save"} =>
            keys[l] \in KeyFile /\ keys[l].key = job.key
       /\ Step \in {"reload", "save"} => l \in confs
       /\ op # "applyKey" /\ Step \notin {"useradd", "passwd", "acl"} => l \in accounts
  BY <1>1, <1>2, <1>3 DEF ForwardInv
<1>12. l \notin parted =>
         /\ (l \in state.logins) = Active(l)
         /\ job.oldKey = accepted[l] /\ job.oldConf = Active(l)
         /\ op = "createLogin" => ~Active(l)
         /\ op = "applyLogin" => (l \in accounts) = Active(l)
         /\ Step \in {"useradd", "passwd", "acl", "writeKey"} => KeyOf(l) = accepted[l]
         /\ Step \notin {"reload", "save"} => (l \in confs) = Active(l)
         /\ Step # "save" => (l \in loaded) = Active(l)
  <2> SUFFICES ASSUME l \notin parted
               PROVE  /\ (l \in state.logins) = Active(l)
                      /\ job.oldKey = accepted[l] /\ job.oldConf = Active(l)
                      /\ op = "createLogin" => ~Active(l)
                      /\ op = "applyLogin" => (l \in accounts) = Active(l)
                      /\ Step \in {"useradd", "passwd", "acl", "writeKey"} => KeyOf(l) = accepted[l]
                      /\ Step \notin {"reload", "save"} => (l \in confs) = Active(l)
                      /\ Step # "save" => (l \in loaded) = Active(l)
    OBVIOUS
  <2>1. Held(l)
    BY <1>1, <1>2, <1>8 DEF LoginInv, Busy
  <2> QED BY <1>3, <2>1 DEF Held, KeyAsBefore, ConfAsBefore, LoadedAsBefore, KeyCommands
<1>13. Active(l)' = Active(l)
  BY <1>1 DEF Active
<1>14. SUFFICES
         /\ Step' \in {"chown", "writeConf", "reload", "save"} =>
               keys'[l] \in KeyFile /\ keys'[l].key = job.key
         /\ Step' \in {"reload", "save"} => l \in confs'
         /\ Step' = "save" => l \in loaded'
         /\ op # "applyKey" /\ Step' \notin {"useradd", "passwd", "acl"} => l \in accounts'
         /\ Step' # "useradd"
         /\ l \notin parted =>
               /\ op = "applyLogin" => (l \in accounts') = Active(l)
               /\ Step' \in {"passwd", "acl", "writeKey", "rmKey"} => KeyOf(l)' = accepted[l]
               /\ Step' \notin {"reload", "save"} => (l \in confs') = Active(l)
               /\ Step' # "save" => (l \in loaded') = Active(l)
  <2>1. ForwardInv'
    BY <1>6, <1>10, <1>14 DEF ForwardInv, KeyCommands
  <2>2. l \notin parted => Held(l)'
    BY <1>1, <1>6, <1>10, <1>12, <1>13, <1>14
       DEF Held, KeyAsBefore, ConfAsBefore, LoadedAsBefore, KeyCommands
  <2> QED BY <1>2, <1>6, <2>1, <2>2 DEF AccessProgress
<1>15. CASE op = "createLogin" /\ Leads(job.todo, "useradd", "passwd")
  <2>1. Step = "useradd" /\ Step' = "passwd"
    BY <1>7, <1>15 DEF Leads, Step
  <2>2. keys' = keys /\ confs' = confs /\ loaded' = loaded /\ accounts' = accounts \cup {l}
    BY <1>2, <1>4, <2>1 DEF Do
  <2>3. KeyOf(l)' = KeyOf(l)
    BY <2>2 DEF KeyOf
  <2> QED BY <1>12, <1>15, <2>1, <2>2, <2>3
<1>16. CASE op = "createLogin" /\ Leads(job.todo, "passwd", "acl")
  <2>1. Step = "passwd" /\ Step' = "acl"
    BY <1>7, <1>16 DEF Leads, Step
  <2>2. keys' = keys /\ confs' = confs /\ loaded' = loaded /\ accounts' = accounts
    BY <1>4, <2>1 DEF Do
  <2>3. KeyOf(l)' = KeyOf(l)
    BY <2>2 DEF KeyOf
  <2> QED BY <1>12, <1>16, <2>1, <2>2, <2>3
<1>17. CASE op # "applyKey" /\ Leads(job.todo, "acl", "writeKey")
  <2>1. Step = "acl" /\ Step' = "writeKey"
    BY <1>7, <1>17 DEF Leads, Step
  <2>2. keys' = keys /\ confs' = confs /\ loaded' = loaded /\ accounts' = accounts
    BY <1>4, <2>1 DEF Do
  <2>3. KeyOf(l)' = KeyOf(l)
    BY <2>2 DEF KeyOf
  <2>4. l \in accounts
    BY <1>2, <1>4, <1>10, <1>17, <2>1 DEF Possible
  <2> QED BY <1>12, <1>17, <2>1, <2>2, <2>3, <2>4
<1>18. CASE Leads(job.todo, "writeKey", "chown")
  <2>1. Step = "writeKey" /\ Step' = "chown"
    BY <1>7, <1>18 DEF Leads, Step
  <2>2. /\ keys' = [keys EXCEPT ![l] = [key |-> job.key, owned |-> FALSE]]
        /\ confs' = confs /\ loaded' = loaded /\ accounts' = accounts
    BY <1>2, <1>4, <2>1 DEF Do
  <2>3. keys'[l] = [key |-> job.key, owned |-> FALSE]
    BY <1>8, <2>2
  <2>4. keys'[l] \in KeyFile /\ keys'[l].key = job.key
    BY <1>9, <2>3 DEF KeyFile
  <2> QED BY <1>11, <1>12, <2>1, <2>2, <2>4
<1>19. CASE Leads(job.todo, "chown", "writeConf")
  <2>1. Step = "chown" /\ Step' = "writeConf"
    BY <1>7, <1>19 DEF Leads, Step
  <2>2. /\ keys' = [keys EXCEPT ![l] = [keys[l] EXCEPT !.owned = TRUE]]
        /\ confs' = confs /\ loaded' = loaded /\ accounts' = accounts
    BY <1>2, <1>4, <2>1 DEF Do
  <2>3. keys[l] \in KeyFile /\ keys[l].key = job.key
    BY <1>11, <2>1
  <2>4. keys'[l] = [keys[l] EXCEPT !.owned = TRUE]
    BY <1>8, <2>2
  <2>5. keys'[l] \in KeyFile /\ keys'[l].key = job.key
    BY <2>3, <2>4 DEF KeyFile
  <2> QED BY <1>11, <1>12, <2>1, <2>2, <2>5
<1>20. CASE Leads(job.todo, "writeConf", "reload")
  <2>1. Step = "writeConf" /\ Step' = "reload"
    BY <1>7, <1>20 DEF Leads, Step
  <2>2. keys' = keys /\ confs' = confs \cup {l} /\ loaded' = loaded /\ accounts' = accounts
    BY <1>2, <1>4, <2>1 DEF Do
  <2> QED BY <1>11, <1>12, <2>1, <2>2
<1>21. CASE Leads(job.todo, "reload", "save")
  <2>1. Step = "reload" /\ Step' = "save"
    BY <1>7, <1>21 DEF Leads, Step
  <2>2. keys' = keys /\ confs' = confs /\ loaded' = confs /\ accounts' = accounts
    BY <1>4, <2>1 DEF Do
  <2> QED BY <1>11, <1>12, <2>1, <2>2
<1>22. \/ op = "createLogin" /\ Leads(job.todo, "useradd", "passwd")
       \/ op = "createLogin" /\ Leads(job.todo, "passwd", "acl")
       \/ op # "applyKey" /\ Leads(job.todo, "acl", "writeKey")
       \/ Leads(job.todo, "writeKey", "chown") \/ Leads(job.todo, "chown", "writeConf")
       \/ Leads(job.todo, "writeConf", "reload") \/ Leads(job.todo, "reload", "save")
  BY <1>1, <1>3, <1>4, KeyPrograms DEF Step
<1> QED BY <1>15, <1>16, <1>17, <1>18, <1>19, <1>20, <1>21, <1>22

LEMMA RevokeStepProgress ==
    ASSUME ServicesInv, AccessStep, ~job.undoing, job.op = "revokeKey"
    PROVE  AccessProgress /\ job' # None
<1> USE DEF ServicesInv
<1>1. /\ job # None /\ job \in Job /\ job.op \in AccessOps /\ AccessShape(job)
      /\ job.login \in Logins /\ job.undoing \in BOOLEAN
      /\ state' = state /\ accepted' = accepted /\ parted' = parted
  BY AccessStepJob
<1>2. PICK l : l = job.login
  OBVIOUS
<1>4. Do /\ Step # "save"
  BY DEF AccessStep
<1>5. Tail(job.todo) # <<>>
  BY <1>1, <1>4, RevokePrograms DEF Leads, Step
<1>6. /\ job' # None /\ job'.op = "revokeKey" /\ job'.login = l
      /\ job'.oldKey = job.oldKey /\ job'.oldConf = job.oldConf
      /\ job'.todo = Tail(job.todo) /\ ~job'.undoing
  BY <1>2, <1>5, AccessStepJob DEF SameCommand
<1>7. Step' = Head(Tail(job.todo))
  BY <1>6 DEF Step
<1>8. keys \in [Logins -> KeyFile \cup {None}] /\ l \in Logins
  BY <1>1, <1>2 DEF ServicesTypeOK, AccessTypeOK
<1>11. /\ Step # "rmKey" => keys[l] = None
       /\ Step \in {"reload", "save"} => l \notin confs
  BY <1>1, <1>2 DEF ForwardInv, KeyCommands
<1>12. l \notin parted =>
         /\ (l \in state.logins) = Active(l)
         /\ job.oldKey = accepted[l] /\ job.oldConf = Active(l)
         /\ Step \notin {"reload", "save"} => (l \in confs) = Active(l)
         /\ Step # "save" => (l \in loaded) = Active(l)
  <2> SUFFICES ASSUME l \notin parted
               PROVE  /\ (l \in state.logins) = Active(l)
                      /\ job.oldKey = accepted[l] /\ job.oldConf = Active(l)
                      /\ Step \notin {"reload", "save"} => (l \in confs) = Active(l)
                      /\ Step # "save" => (l \in loaded) = Active(l)
    OBVIOUS
  <2>1. Held(l)
    BY <1>1, <1>2, <1>8 DEF LoginInv, Busy
  <2> QED BY <2>1 DEF Held, ConfAsBefore, LoadedAsBefore
<1>13. Active(l)' = Active(l)
  BY <1>1 DEF Active
<1>14. SUFFICES
         /\ Step' \in {"rmConf", "reload", "save"}
         /\ keys'[l] = None
         /\ Step' \in {"reload", "save"} => l \notin confs'
         /\ Step' = "save" => l \notin loaded'
         /\ l \notin parted =>
               /\ Step' \notin {"reload", "save"} => (l \in confs') = Active(l)
               /\ Step' # "save" => (l \in loaded') = Active(l)
  <2>1. ForwardInv'
    BY <1>6, <1>14 DEF ForwardInv, KeyCommands
  <2>2. l \notin parted => Held(l)'
    BY <1>1, <1>6, <1>12, <1>13, <1>14
       DEF Held, KeyAsBefore, ConfAsBefore, LoadedAsBefore
  <2> QED BY <1>2, <1>6, <2>1, <2>2 DEF AccessProgress
<1>15. CASE Leads(job.todo, "rmKey", "rmConf")
  <2>1. Step = "rmKey" /\ Step' = "rmConf"
    BY <1>7, <1>15 DEF Leads, Step
  <2>2. keys' = [keys EXCEPT ![l] = None] /\ confs' = confs /\ loaded' = loaded
    BY <1>2, <1>4, <2>1 DEF Do
  <2> QED BY <1>8, <1>12, <2>1, <2>2
<1>16. CASE Leads(job.todo, "rmConf", "reload")
  <2>1. Step = "rmConf" /\ Step' = "reload"
    BY <1>7, <1>16 DEF Leads, Step
  <2>2. keys' = keys /\ confs' = confs \ {l} /\ loaded' = loaded
    BY <1>2, <1>4, <2>1 DEF Do
  <2> QED BY <1>11, <1>12, <2>1, <2>2
<1>17. CASE Leads(job.todo, "reload", "save")
  <2>1. Step = "reload" /\ Step' = "save"
    BY <1>7, <1>17 DEF Leads, Step
  <2>2. keys' = keys /\ confs' = confs /\ loaded' = confs
    BY <1>4, <2>1 DEF Do
  <2> QED BY <1>11, <1>12, <2>1, <2>2
<1>18. \/ Leads(job.todo, "rmKey", "rmConf") \/ Leads(job.todo, "rmConf", "reload")
       \/ Leads(job.todo, "reload", "save")
  BY <1>1, <1>4, RevokePrograms DEF Step
<1> QED BY <1>15, <1>16, <1>17, <1>18

LEMMA DeleteStepProgress ==
    ASSUME ServicesInv, AccessStep, job.op = "deleteLogin"
    PROVE  AccessProgress /\ job' # None
<1> USE DEF ServicesInv
<1>1. /\ job # None /\ job \in Job /\ job.op \in AccessOps /\ AccessShape(job)
      /\ job.login \in Logins /\ job.undoing \in BOOLEAN
      /\ state' = state /\ accepted' = accepted /\ parted' = parted
  BY AccessStepJob
<1>2. PICK l : l = job.login
  OBVIOUS
<1>4. Do /\ Step # "save"
  BY DEF AccessStep
<1>5. Tail(job.todo) # <<>>
  BY <1>1, <1>4, DeletePrograms DEF Leads, Step
<1>6. /\ job' # None /\ job'.op = "deleteLogin" /\ job'.login = l
      /\ job'.oldKey = job.oldKey /\ job'.oldConf = job.oldConf
      /\ job'.todo = Tail(job.todo)
  BY <1>2, <1>5, AccessStepJob DEF SameCommand
<1>7. Step' = Head(Tail(job.todo))
  BY <1>6 DEF Step
<1>8. keys \in [Logins -> KeyFile \cup {None}] /\ l \in Logins
  BY <1>1, <1>2 DEF ServicesTypeOK, AccessTypeOK
<1>9. ForwardInv'
  BY <1>6 DEF ForwardInv, KeyCommands
<1>12. l \notin parted =>
         /\ (l \in state.logins) = Active(l)
         /\ job.oldKey = accepted[l] /\ job.oldConf = Active(l)
         /\ DeletionFacts(l)
  <2> SUFFICES ASSUME l \notin parted
               PROVE  /\ (l \in state.logins) = Active(l)
                      /\ job.oldKey = accepted[l] /\ job.oldConf = Active(l)
                      /\ DeletionFacts(l)
    OBVIOUS
  <2>1. Held(l)
    BY <1>1, <1>2, <1>8 DEF LoginInv, Busy
  <2> QED BY <2>1 DEF Held
<1>13. Active(l)' = Active(l)
  BY <1>1 DEF Active
<1>14. SUFFICES ASSUME l \notin parted PROVE DeletionFacts(l)'
  <2>1. l \notin parted => Held(l)'
    BY <1>1, <1>6, <1>12, <1>13, <1>14 DEF Held
  <2> QED BY <1>2, <1>6, <1>9, <2>1 DEF AccessProgress
<1>20. DeletionFacts(l)
  BY <1>12, <1>14
<1>15. CASE Leads(job.todo, "rmConf", "rmKey")
  <2>1. Step = "rmConf" /\ Step' = "rmKey"
    BY <1>7, <1>15 DEF Leads, Step
  <2>2. confs' = confs \ {l}
    BY <1>2, <1>4, <2>1 DEF Do
  <2> QED BY <2>1, <2>2 DEF DeletionFacts
<1>16. CASE Leads(job.todo, "rmKey", "reload")
  <2>1. Step = "rmKey" /\ Step' = "reload"
    BY <1>7, <1>16 DEF Leads, Step
  <2>2. keys' = [keys EXCEPT ![l] = None] /\ confs' = confs
    BY <1>2, <1>4, <2>1 DEF Do
  <2> QED BY <1>8, <1>20, <2>1, <2>2 DEF DeletionFacts
<1>17. CASE Leads(job.todo, "reload", "rmAcl")
  <2>1. Step = "reload" /\ Step' = "rmAcl"
    BY <1>7, <1>17 DEF Leads, Step
  <2>2. keys' = keys /\ confs' = confs /\ loaded' = confs
    BY <1>4, <2>1 DEF Do
  <2> QED BY <1>20, <2>1, <2>2 DEF DeletionFacts
<1>18. CASE Leads(job.todo, "rmAcl", "userdel")
  <2>1. Step = "rmAcl" /\ Step' = "userdel"
    BY <1>7, <1>18 DEF Leads, Step
  <2>2. keys' = keys /\ confs' = confs /\ loaded' = loaded
    BY <1>4, <2>1 DEF Do
  <2> QED BY <1>20, <2>1, <2>2 DEF DeletionFacts
<1>19. CASE Leads(job.todo, "userdel", "save")
  <2>1. Step = "userdel" /\ Step' = "save"
    BY <1>7, <1>19 DEF Leads, Step
  <2>2. keys' = keys /\ confs' = confs /\ loaded' = loaded /\ accounts' = accounts \ {l}
    BY <1>2, <1>4, <2>1 DEF Do
  <2> QED BY <1>20, <2>1, <2>2 DEF DeletionFacts
<1>21. \/ Leads(job.todo, "rmConf", "rmKey") \/ Leads(job.todo, "rmKey", "reload")
       \/ Leads(job.todo, "reload", "rmAcl") \/ Leads(job.todo, "rmAcl", "userdel")
       \/ Leads(job.todo, "userdel", "save")
  BY <1>1, <1>4, DeletePrograms DEF Step
<1> QED BY <1>15, <1>16, <1>17, <1>18, <1>19, <1>21

LEMMA UndoneFlags ==
    /\ ConfUndone(<<"restoreKey">>) /\ LoadedUndone(<<"restoreKey">>)
    /\ Head(<<"restoreKey">>) = "restoreKey" /\ <<"restoreKey">> # <<>>
    /\ ~ConfUndone(<<"restoreKey", "restoreConf">>)
    /\ LoadedUndone(<<"restoreKey", "restoreConf">>)
    /\ Head(<<"restoreKey", "restoreConf">>) = "restoreKey"
    /\ <<"restoreKey", "restoreConf">> # <<>>
    /\ ~ConfUndone(<<"restoreKey", "restoreConf", "reload">>)
    /\ ~LoadedUndone(<<"restoreKey", "restoreConf", "reload">>)
    /\ Head(<<"restoreKey", "restoreConf", "reload">>) = "restoreKey"
    /\ <<"restoreKey", "restoreConf", "reload">> # <<>>
    /\ ~ConfUndone(<<"restoreConf">>) /\ LoadedUndone(<<"restoreConf">>)
    /\ Head(<<"restoreConf">>) = "restoreConf" /\ <<"restoreConf">> # <<>>
    /\ ~ConfUndone(<<"restoreConf", "reload">>) /\ ~LoadedUndone(<<"restoreConf", "reload">>)
    /\ Head(<<"restoreConf", "reload">>) = "restoreConf"
    /\ <<"restoreConf", "reload">> # <<>>
    /\ ConfUndone(<<"reload">>) /\ ~LoadedUndone(<<"reload">>)
    /\ Head(<<"reload">>) = "reload" /\ <<"reload">> # <<>>
    /\ ConfUndone(<<"restoreKey", "userdel">>) /\ LoadedUndone(<<"restoreKey", "userdel">>)
    /\ Head(<<"restoreKey", "userdel">>) = "restoreKey" /\ <<"restoreKey", "userdel">> # <<>>
    /\ ~ConfUndone(<<"restoreKey", "restoreConf", "userdel">>)
    /\ LoadedUndone(<<"restoreKey", "restoreConf", "userdel">>)
    /\ Head(<<"restoreKey", "restoreConf", "userdel">>) = "restoreKey"
    /\ <<"restoreKey", "restoreConf", "userdel">> # <<>>
    /\ ~ConfUndone(<<"restoreKey", "restoreConf", "reload", "userdel">>)
    /\ ~LoadedUndone(<<"restoreKey", "restoreConf", "reload", "userdel">>)
    /\ Head(<<"restoreKey", "restoreConf", "reload", "userdel">>) = "restoreKey"
    /\ <<"restoreKey", "restoreConf", "reload", "userdel">> # <<>>
    /\ ~ConfUndone(<<"restoreConf", "userdel">>) /\ LoadedUndone(<<"restoreConf", "userdel">>)
    /\ Head(<<"restoreConf", "userdel">>) = "restoreConf"
    /\ <<"restoreConf", "userdel">> # <<>>
    /\ ~ConfUndone(<<"restoreConf", "reload", "userdel">>)
    /\ ~LoadedUndone(<<"restoreConf", "reload", "userdel">>)
    /\ Head(<<"restoreConf", "reload", "userdel">>) = "restoreConf"
    /\ <<"restoreConf", "reload", "userdel">> # <<>>
    /\ ConfUndone(<<"reload", "userdel">>) /\ ~LoadedUndone(<<"reload", "userdel">>)
    /\ Head(<<"reload", "userdel">>) = "reload" /\ <<"reload", "userdel">> # <<>>
    /\ ConfUndone(<<"userdel">>) /\ LoadedUndone(<<"userdel">>)
    /\ Head(<<"userdel">>) = "userdel" /\ <<"userdel">> # <<>>
BY DEF ConfUndone, LoadedUndone

\* An undo step restores its part, and with the last one the login is as it
\* was before the command.
LEMMA UndoStepProgress ==
    ASSUME ServicesInv, AccessStep, job.undoing
    PROVE  /\ ForwardInv'
           /\ \A l \in Logins \ parted : l = job.login =>
                 (job' # None => Held(l)') /\ (job' = None => Match(l)')
<1> USE DEF ServicesInv
<1>1. /\ job # None /\ job \in Job /\ job.op \in AccessOps /\ AccessShape(job)
      /\ job.login \in Logins
      /\ state' = state /\ accepted' = accepted /\ parted' = parted
  BY AccessStepJob
<1>2. PICK l : l = job.login
  OBVIOUS
<1>3. PICK op : op = job.op
  OBVIOUS
<1>4. Do
  BY DEF AccessStep
<1>5. Tail(job.todo) = <<>> => job' = None
  BY AccessStepJob
<1>6. Tail(job.todo) # <<>> =>
        /\ job' # None /\ job'.op = op /\ job'.login = l
        /\ job'.oldKey = job.oldKey /\ job'.oldConf = job.oldConf
        /\ job'.todo = Tail(job.todo) /\ job'.undoing
  BY <1>2, <1>3, AccessStepJob DEF SameCommand
<1>7. ForwardInv'
  BY <1>5, <1>6 DEF ForwardInv
<1>8. keys \in [Logins -> KeyFile \cup {None}] /\ l \in Logins
  BY <1>1, <1>2 DEF ServicesTypeOK, AccessTypeOK
<1>9. SUFFICES ASSUME l \notin parted
               PROVE  (job' # None => Held(l)') /\ (job' = None => Match(l)')
  BY <1>2, <1>7
<1>10. Held(l)
  BY <1>1, <1>2, <1>8, <1>9 DEF LoginInv, Busy
<1>11. op # "deleteLogin"
  BY <1>1, <1>3, UndoSteps
<1>12. /\ (l \in state.logins) = Active(l)
       /\ job.oldKey = accepted[l] /\ job.oldConf = Active(l)
       /\ op = "createLogin" => ~Active(l)
       /\ op = "applyLogin" => (l \in accounts) = Active(l)
       /\ Step # "restoreKey" => KeyOf(l) = accepted[l]
       /\ ConfUndone(job.todo) => (l \in confs) = Active(l)
       /\ LoadedUndone(job.todo) => (l \in loaded) = Active(l)
  BY <1>3, <1>10, <1>11 DEF Held, KeyAsBefore, ConfAsBefore, LoadedAsBefore
<1>13. Active(l)' = Active(l)
  BY <1>1 DEF Active
<1>14. op \in {"applyKey", "revokeKey"} => l \notin Labels
  BY <1>1, <1>2, <1>3, SiteRecordAssumption DEF AccessShape
<1>15. op \in {"applyKey", "revokeKey", "applyLogin", "createLogin"}
  BY <1>1, <1>3, <1>11 DEF AccessOps
\* What is to be shown of the parts, for the rest of the program.
<1>16. ASSUME NEW t, t # <<>>, Tail(job.todo) = t,
              op = "applyLogin" => accounts' = accounts,
              Head(t) # "useradd",
              Head(t) # "restoreKey" => KeyOf(l)' = accepted[l],
              ConfUndone(t) => (l \in confs') = Active(l),
              LoadedUndone(t) => (l \in loaded') = Active(l)
       PROVE  (job' # None => Held(l)') /\ (job' = None => Match(l)')
  <2>1. job'.todo = t /\ job' # None /\ Step' = Head(t) /\ job'.undoing /\ job'.op = op
    BY <1>6, <1>16 DEF Step
  <2>2. op = "applyLogin" => (l \in accounts') = Active(l)
    BY <1>12, <1>16
  <2>3. /\ KeyAsBefore' => KeyOf(l)' = accepted[l]
        /\ ConfAsBefore' => (l \in confs') = Active(l)
        /\ LoadedAsBefore' => (l \in loaded') = Active(l)
    BY <1>16, <2>1 DEF KeyAsBefore, ConfAsBefore, LoadedAsBefore
  <2>4. Held(l)'
    BY <1>1, <1>6, <1>11, <1>12, <1>13, <1>16, <2>1, <2>2, <2>3 DEF Held
  <2> QED BY <2>1, <2>4
<1>17. ASSUME Tail(job.todo) = <<>>, KeyOf(l)' = accepted[l], (l \in confs') = Active(l),
              (l \in loaded') = Active(l),
              l \in Labels => (l \in accounts') = Active(l)
       PROVE  (job' # None => Held(l)') /\ (job' = None => Match(l)')
  <2>1. job' = None
    BY <1>5, <1>17
  <2>2. Match(l)'
    BY <1>1, <1>12, <1>13, <1>17 DEF Match
  <2> QED BY <2>1, <2>2
\* The effects of the four steps.
<1>18. Step = "restoreKey" =>
          KeyOf(l)' = accepted[l] /\ confs' = confs /\ loaded' = loaded /\ accounts' = accounts
  <2> SUFFICES ASSUME Step = "restoreKey"
               PROVE  /\ KeyOf(l)' = accepted[l] /\ confs' = confs /\ loaded' = loaded
                      /\ accounts' = accounts
    OBVIOUS
  <2>1. /\ keys' = [keys EXCEPT ![l] = Restored] /\ confs' = confs /\ loaded' = loaded
        /\ accounts' = accounts
    BY <1>2, <1>4 DEF Do
  <2>2. keys'[l] = Restored
    BY <1>8, <2>1
  <2>3. KeyOf(l)' = accepted[l]
    BY <1>1, <1>12, <2>2, RestoredType DEF KeyOf
  <2> QED BY <2>1, <2>3
<1>19. Step = "restoreConf" =>
          /\ KeyOf(l)' = KeyOf(l) /\ (l \in confs') = Active(l)
          /\ loaded' = loaded /\ accounts' = accounts
  <2> SUFFICES ASSUME Step = "restoreConf"
               PROVE  /\ KeyOf(l)' = KeyOf(l) /\ (l \in confs') = Active(l)
                      /\ loaded' = loaded /\ accounts' = accounts
    OBVIOUS
  <2>1. /\ confs' = IF job.oldConf THEN confs \cup {l} ELSE confs \ {l}
        /\ keys' = keys /\ loaded' = loaded /\ accounts' = accounts
    BY <1>2, <1>4 DEF Do
  <2>2. Active(l) => l \in confs'
    BY <1>12, <2>1
  <2>3. ~Active(l) => l \notin confs'
    BY <1>12, <2>1
  <2>4. KeyOf(l)' = KeyOf(l)
    BY <2>1 DEF KeyOf
  <2>5. (l \in confs') = Active(l)
    BY <2>2, <2>3 DEF Active
  <2> QED BY <2>1, <2>4, <2>5
<1>20. Step = "reload" =>
          KeyOf(l)' = KeyOf(l) /\ confs' = confs /\ loaded' = confs /\ accounts' = accounts
  BY <1>4 DEF Do, KeyOf
<1>21. Step = "userdel" =>
          /\ KeyOf(l)' = KeyOf(l) /\ confs' = confs /\ loaded' = loaded
          /\ accounts' = accounts \ {l}
  BY <1>2, <1>4 DEF Do, KeyOf
<1>22. CASE /\ op # "createLogin" /\ job.todo = <<"restoreKey">>
            /\ Is(job.todo, "restoreKey", <<>>)
  <2>1. Step = "restoreKey" /\ Tail(job.todo) = <<>>
    BY <1>22 DEF Is, Step
  <2>2. (l \in confs) = Active(l) /\ (l \in loaded) = Active(l)
    BY <1>12, <1>22, UndoneFlags
  <2> QED BY <1>12, <1>14, <1>15, <1>17, <1>18, <1>22, <2>1, <2>2
<1>23. CASE /\ op # "createLogin" /\ job.todo = <<"restoreKey", "restoreConf">>
            /\ Is(job.todo, "restoreKey", <<"restoreConf">>)
  <2>1. Step = "restoreKey" /\ Tail(job.todo) = <<"restoreConf">>
    BY <1>23 DEF Is, Step
  <2>2. (l \in loaded) = Active(l)
    BY <1>12, <1>23, UndoneFlags
  <2>3. /\ <<"restoreConf">> # <<>> /\ Head(<<"restoreConf">>) = "restoreConf"
        /\ ~ConfUndone(<<"restoreConf">>) /\ LoadedUndone(<<"restoreConf">>)
    BY UndoneFlags
  <2> QED BY <1>12, <1>16, <1>18, <1>23, <2>1, <2>2, <2>3
<1>24. CASE /\ op # "createLogin" /\ job.todo = <<"restoreKey", "restoreConf", "reload">>
            /\ Is(job.todo, "restoreKey", <<"restoreConf", "reload">>)
  <2>1. Step = "restoreKey" /\ Tail(job.todo) = <<"restoreConf", "reload">>
    BY <1>24 DEF Is, Step
  <2>2. /\ <<"restoreConf", "reload">> # <<>>
        /\ Head(<<"restoreConf", "reload">>) = "restoreConf"
        /\ ~ConfUndone(<<"restoreConf", "reload">>)
        /\ ~LoadedUndone(<<"restoreConf", "reload">>)
    BY UndoneFlags
  <2> QED BY <1>12, <1>16, <1>18, <1>24, <2>1, <2>2
<1>25. CASE /\ op # "createLogin" /\ job.todo = <<"restoreConf">>
            /\ Is(job.todo, "restoreConf", <<>>)
  <2>1. Step = "restoreConf" /\ Tail(job.todo) = <<>>
    BY <1>25 DEF Is, Step
  <2>2. (l \in loaded) = Active(l)
    BY <1>12, <1>25, UndoneFlags
  <2> QED BY <1>12, <1>14, <1>15, <1>17, <1>19, <1>25, <2>1, <2>2
<1>26. CASE /\ op # "createLogin" /\ job.todo = <<"restoreConf", "reload">>
            /\ Is(job.todo, "restoreConf", <<"reload">>)
  <2>1. Step = "restoreConf" /\ Tail(job.todo) = <<"reload">>
    BY <1>26 DEF Is, Step
  <2>2. /\ <<"reload">> # <<>> /\ Head(<<"reload">>) = "reload" /\ ConfUndone(<<"reload">>)
        /\ ~LoadedUndone(<<"reload">>)
    BY UndoneFlags
  <2> QED BY <1>12, <1>16, <1>19, <1>26, <2>1, <2>2
<1>27. CASE op # "createLogin" /\ job.todo = <<"reload">> /\ Is(job.todo, "reload", <<>>)
  <2>1. Step = "reload" /\ Tail(job.todo) = <<>>
    BY <1>27 DEF Is, Step
  <2>2. (l \in confs) = Active(l)
    BY <1>12, <1>27, UndoneFlags
  <2> QED BY <1>12, <1>14, <1>15, <1>17, <1>20, <1>27, <2>1, <2>2
<1>28. CASE /\ op = "createLogin" /\ job.todo = <<"restoreKey", "userdel">>
            /\ Is(job.todo, "restoreKey", <<"userdel">>)
  <2>1. Step = "restoreKey" /\ Tail(job.todo) = <<"userdel">>
    BY <1>28 DEF Is, Step
  <2>2. (l \in confs) = Active(l) /\ (l \in loaded) = Active(l)
    BY <1>12, <1>28, UndoneFlags
  <2>3. /\ <<"userdel">> # <<>> /\ Head(<<"userdel">>) = "userdel"
        /\ ConfUndone(<<"userdel">>) /\ LoadedUndone(<<"userdel">>)
    BY UndoneFlags
  <2> QED BY <1>12, <1>16, <1>18, <1>28, <2>1, <2>2, <2>3
<1>29. CASE /\ op = "createLogin" /\ job.todo = <<"restoreKey", "restoreConf", "userdel">>
            /\ Is(job.todo, "restoreKey", <<"restoreConf", "userdel">>)
  <2>1. Step = "restoreKey" /\ Tail(job.todo) = <<"restoreConf", "userdel">>
    BY <1>29 DEF Is, Step
  <2>2. (l \in loaded) = Active(l)
    BY <1>12, <1>29, UndoneFlags
  <2>3. /\ <<"restoreConf", "userdel">> # <<>>
        /\ Head(<<"restoreConf", "userdel">>) = "restoreConf"
        /\ ~ConfUndone(<<"restoreConf", "userdel">>)
        /\ LoadedUndone(<<"restoreConf", "userdel">>)
    BY UndoneFlags
  <2> QED BY <1>12, <1>16, <1>18, <1>29, <2>1, <2>2, <2>3
<1>30. CASE /\ op = "createLogin"
            /\ job.todo = <<"restoreKey", "restoreConf", "reload", "userdel">>
            /\ Is(job.todo, "restoreKey", <<"restoreConf", "reload", "userdel">>)
  <2>1. Step = "restoreKey" /\ Tail(job.todo) = <<"restoreConf", "reload", "userdel">>
    BY <1>30 DEF Is, Step
  <2>2. /\ <<"restoreConf", "reload", "userdel">> # <<>>
        /\ Head(<<"restoreConf", "reload", "userdel">>) = "restoreConf"
        /\ ~ConfUndone(<<"restoreConf", "reload", "userdel">>)
        /\ ~LoadedUndone(<<"restoreConf", "reload", "userdel">>)
    BY UndoneFlags
  <2> QED BY <1>12, <1>16, <1>18, <1>30, <2>1, <2>2
<1>31. CASE /\ op = "createLogin" /\ job.todo = <<"restoreConf", "userdel">>
            /\ Is(job.todo, "restoreConf", <<"userdel">>)
  <2>1. Step = "restoreConf" /\ Tail(job.todo) = <<"userdel">>
    BY <1>31 DEF Is, Step
  <2>2. (l \in loaded) = Active(l)
    BY <1>12, <1>31, UndoneFlags
  <2>3. /\ <<"userdel">> # <<>> /\ Head(<<"userdel">>) = "userdel"
        /\ ConfUndone(<<"userdel">>) /\ LoadedUndone(<<"userdel">>)
    BY UndoneFlags
  <2> QED BY <1>12, <1>16, <1>19, <1>31, <2>1, <2>2, <2>3
<1>32. CASE /\ op = "createLogin" /\ job.todo = <<"restoreConf", "reload", "userdel">>
            /\ Is(job.todo, "restoreConf", <<"reload", "userdel">>)
  <2>1. Step = "restoreConf" /\ Tail(job.todo) = <<"reload", "userdel">>
    BY <1>32 DEF Is, Step
  <2>2. /\ <<"reload", "userdel">> # <<>> /\ Head(<<"reload", "userdel">>) = "reload"
        /\ ConfUndone(<<"reload", "userdel">>) /\ ~LoadedUndone(<<"reload", "userdel">>)
    BY UndoneFlags
  <2> QED BY <1>12, <1>16, <1>19, <1>32, <2>1, <2>2
<1>33. CASE /\ op = "createLogin" /\ job.todo = <<"reload", "userdel">>
            /\ Is(job.todo, "reload", <<"userdel">>)
  <2>1. Step = "reload" /\ Tail(job.todo) = <<"userdel">>
    BY <1>33 DEF Is, Step
  <2>2. (l \in confs) = Active(l)
    BY <1>12, <1>33, UndoneFlags
  <2>3. /\ <<"userdel">> # <<>> /\ Head(<<"userdel">>) = "userdel"
        /\ ConfUndone(<<"userdel">>) /\ LoadedUndone(<<"userdel">>)
    BY UndoneFlags
  <2> QED BY <1>12, <1>16, <1>20, <1>33, <2>1, <2>2, <2>3
<1>34. CASE op = "createLogin" /\ job.todo = <<"userdel">> /\ Is(job.todo, "userdel", <<>>)
  <2>1. Step = "userdel" /\ Tail(job.todo) = <<>>
    BY <1>34 DEF Is, Step
  <2>2. (l \in confs) = Active(l) /\ (l \in loaded) = Active(l)
    BY <1>12, <1>34, UndoneFlags
  <2>3. l \notin accounts' /\ ~Active(l)
    BY <1>12, <1>21, <1>34, <2>1
  <2>4. (l \in accounts') = Active(l)
    BY <2>3 DEF Active
  <2> QED BY <1>12, <1>17, <1>21, <1>34, <2>1, <2>2, <2>4
<1> QED
  BY <1>1, <1>3, <1>22, <1>23, <1>24, <1>25, <1>26, <1>27, <1>28,
     <1>29, <1>30, <1>31, <1>32, <1>33, <1>34, UndoSteps

\* A step that is done or skipped leaves the rest of the program.
LEMMA ShapeAdvances ==
    ASSUME NEW j, AccessShape(j), j.op \in AccessOps, j.undoing \in BOOLEAN,
           Head(j.todo) # "save", Tail(j.todo) # <<>>,
           NEW i, SameCommand(i, j), i.undoing = j.undoing, i.todo = Tail(j.todo)
    PROVE  AccessShape(i)
<1>1. /\ i.op \in {"applyKey", "revokeKey"} => i.login = Own
      /\ i.op \in {"createLogin", "applyLogin", "deleteLogin"} => i.login \in Labels
      /\ i.op \in {"applyKey", "createLogin", "applyLogin"} => i.key \in PublicKeys
      /\ i.op \in {"revokeKey", "deleteLogin"} => i.key = None
      /\ i.op = j.op
  BY DEF AccessShape, SameCommand
<1>2. CASE j.undoing
  <2>1. i.op # "deleteLogin"
    BY <1>1, <1>2, UndoSteps
  <2>2. i.op = "createLogin" => i.todo \in UndoNewTails
    BY <1>1, <1>2, UndoSteps, Zenon DEF Is, UndoNewTails
  <2>3. i.op # "createLogin" => i.todo \in UndoTails
    BY <1>1, <1>2, UndoSteps, Zenon DEF Is, UndoTails
  <2> QED BY <1>1, <1>2, <2>1, <2>2, <2>3 DEF AccessShape
<1>3. CASE ~j.undoing
  <2>1. /\ i.op = "applyKey" => i.todo \in KeyTails
        /\ i.op = "applyLogin" => i.todo \in LoginTails
        /\ i.op = "createLogin" => i.todo \in NewLoginTails
    BY <1>1, <1>3, KeyPrograms DEF KeyCommands
  <2>2. i.op = "revokeKey" => i.todo \in RevokeTails
    BY <1>1, <1>3, RevokePrograms
  <2>3. i.op = "deleteLogin" => i.todo \in DeleteTails
    BY <1>1, <1>3, DeletePrograms
  <2> QED BY <1>1, <1>3, <2>1, <2>2, <2>3 DEF AccessShape
<1> QED BY <1>2, <1>3

LEMMA AccessStepKeeps ==
    ASSUME ServicesInv, AccessStep, UNCHANGED serverVars
    PROVE  ServicesInv'
<1> USE DEF ServicesInv
<1>1. /\ job # None /\ job \in Job /\ job.op \in AccessOps /\ AccessShape(job)
      /\ job.login \in Logins /\ job.undoing \in BOOLEAN
      /\ state' = state /\ stateFile' = stateFile /\ parted' = parted
      /\ Tail(job.todo) = <<>> => job' = None
      /\ Tail(job.todo) # <<>> =>
           /\ job' # None /\ SameCommand(job', job)
           /\ job'.new = job.new /\ job'.todo = Tail(job.todo) /\ job'.undoing = job.undoing
  BY AccessStepJob
<1>2. Head(job.todo) # "save"
  BY DEF AccessStep, Step
<1>3. ServicesTypeOK'
  BY AccessStepTypes
<1>4. job' # None => job'.op = job.op /\ job'.login = job.login /\ job'.op \notin DatabaseOps
  BY <1>1 DEF SameCommand, AccessOps, DatabaseOps
<1>5. JobInv'
  <2>1. job' # None => AccessShape(job')
    BY <1>1, <1>2, ShapeAdvances
  <2>2. job' # None => AccessShape(job)'
    BY <2>1 DEF AccessShape
  <2> QED BY <1>4, <2>2 DEF JobInv
<1>6. RecordInv'
  BY <1>1, <1>4 DEF RecordInv
<1>7. DatabaseInv'
  BY <1>1, <1>3, <1>4, <1>6, DatabaseKept DEF SameDatabases
<1>8. /\ ForwardInv'
      /\ \A l \in Logins \ parted : l = job.login =>
            (job' # None => Held(l)') /\ (job' = None => Match(l)')
  <2>1. CASE job.undoing
    BY <2>1, UndoStepProgress
  <2>2. CASE ~job.undoing /\ job.op \in KeyCommands
    BY <2>2, KeyStepProgress DEF AccessProgress
  <2>3. CASE ~job.undoing /\ job.op = "revokeKey"
    BY <2>3, RevokeStepProgress DEF AccessProgress
  <2>4. CASE ~job.undoing /\ job.op = "deleteLogin"
    BY <2>4, DeleteStepProgress DEF AccessProgress
  <2> QED BY <1>1, <2>1, <2>2, <2>3, <2>4 DEF AccessOps, KeyCommands
<1>9. LoginInv'
  <2> SUFFICES ASSUME NEW l \in Logins \ parted' PROVE (IF Busy(l) THEN Held(l) ELSE Match(l))'
    BY DEF LoginInv
  <2>1. CASE l # job.login
    BY <1>1, <1>4, <2>1, AccessStepOthers DEF Busy
  <2>2. CASE l = job.login
    BY <1>1, <1>4, <1>8, <2>2 DEF Busy
  <2> QED BY <2>1, <2>2
<1> QED BY <1>3, <1>5, <1>6, <1>7, <1>8, <1>9

(***************************************************************************)
(* A step of an access command fails.                                      *)
(***************************************************************************)
\* The program that undoes a command when one of its steps fails.
LEMMA UndoIs ==
    ASSUME NEW s
    PROVE  /\ job.op = "deleteLogin" => Undo(s) = <<>>
           /\ job.op \in {"applyKey", "applyLogin", "revokeKey"} =>
                /\ s \in {"chown", "writeConf", "rmConf"} => Undo(s) = <<"restoreKey">>
                /\ s = "reload" => Undo(s) = <<"restoreKey", "restoreConf">>
                /\ s = "save" => Undo(s) = <<"restoreKey", "restoreConf", "reload">>
                /\ s \in {"acl", "writeKey", "rmKey"} => Undo(s) = <<>>
           /\ job.op = "createLogin" =>
                /\ s = "useradd" => Undo(s) = <<>>
                /\ s \in {"passwd", "acl", "writeKey"} => Undo(s) = <<"userdel">>
                /\ s \in {"chown", "writeConf"} => Undo(s) = <<"restoreKey", "userdel">>
                /\ s = "reload" => Undo(s) = <<"restoreKey", "restoreConf", "userdel">>
                /\ s = "save" => Undo(s) = <<"restoreKey", "restoreConf", "reload", "userdel">>
<1>1. job.op = "deleteLogin" => Undo(s) = <<>>
  BY DEF Undo
<1>2. job.op \in {"applyKey", "applyLogin", "revokeKey"} => Undo(s) = UndoFiles(s)
  BY DEF Undo
<1>3. job.op = "createLogin" =>
        /\ s = "useradd" => Undo(s) = UndoFiles(s)
        /\ s # "useradd" => Undo(s) = UndoFiles(s) \o <<"userdel">>
  BY DEF Undo
<1>4. /\ s \in {"chown", "writeConf", "rmConf"} => UndoFiles(s) = <<"restoreKey">>
      /\ s = "reload" => UndoFiles(s) = <<"restoreKey", "restoreConf">>
      /\ s = "save" => UndoFiles(s) = <<"restoreKey", "restoreConf", "reload">>
      /\ s \in {"useradd", "passwd", "acl", "writeKey", "rmKey"} => UndoFiles(s) = <<>>
  BY DEF UndoFiles
<1>5. job.op = "createLogin" =>
        /\ s = "useradd" => Undo(s) = <<>>
        /\ s \in {"passwd", "acl", "writeKey"} => Undo(s) = <<>> \o <<"userdel">>
        /\ s \in {"chown", "writeConf"} => Undo(s) = <<"restoreKey">> \o <<"userdel">>
        /\ s = "reload" => Undo(s) = <<"restoreKey", "restoreConf">> \o <<"userdel">>
        /\ s = "save" => Undo(s) = <<"restoreKey", "restoreConf", "reload">> \o <<"userdel">>
  <2>1. "useradd" \notin {"passwd", "acl", "writeKey", "chown", "writeConf", "reload", "save"}
    OBVIOUS
  <2> QED BY <1>3, <1>4, <2>1, Zenon
<1> QED BY <1>1, <1>2, <1>4, <1>5, UndoPrograms, Zenon

\* The undo programs are programs.
LEMMA UndoTyped ==
    ASSUME NEW s,
           \/ job.op = "deleteLogin"
           \/ /\ job.op = "createLogin"
              /\ s \in {"useradd", "passwd", "acl", "writeKey", "chown", "writeConf",
                        "reload", "save"}
           \/ /\ job.op \in {"applyKey", "applyLogin", "revokeKey"}
              /\ s \in {"acl", "writeKey", "chown", "writeConf", "reload", "save",
                        "rmKey", "rmConf"}
    PROVE  /\ Undo(s) \in Seq(Steps)
           /\ Undo(s) # <<>> =>
                /\ job.op # "deleteLogin"
                /\ job.op = "createLogin" => Undo(s) \in UndoNewTails
                /\ job.op # "createLogin" => Undo(s) \in UndoTails
<1>1. /\ <<>> \in Seq(Steps)
      /\ \A t \in UndoTails : t \in Seq(Steps)
      /\ \A t \in UndoNewTails : t \in Seq(Steps)
  <2>1. /\ <<"restoreKey">> \in Seq(Steps)
        /\ <<"restoreKey", "restoreConf">> \in Seq(Steps)
        /\ <<"restoreKey", "restoreConf", "reload">> \in Seq(Steps)
        /\ <<"restoreConf">> \in Seq(Steps) /\ <<"restoreConf", "reload">> \in Seq(Steps)
        /\ <<"reload">> \in Seq(Steps)
    BY DEF Steps
  <2>2. /\ <<"restoreKey", "userdel">> \in Seq(Steps)
        /\ <<"restoreKey", "restoreConf", "userdel">> \in Seq(Steps)
        /\ <<"restoreKey", "restoreConf", "reload", "userdel">> \in Seq(Steps)
        /\ <<"restoreConf", "userdel">> \in Seq(Steps)
        /\ <<"restoreConf", "reload", "userdel">> \in Seq(Steps)
        /\ <<"reload", "userdel">> \in Seq(Steps) /\ <<"userdel">> \in Seq(Steps)
    BY DEF Steps
  <2> QED BY <2>1, <2>2, EmptySeq, Zenon DEF UndoTails, UndoNewTails
<1>2. job.op = "createLogin" => Undo(s) = <<>> \/ Undo(s) \in UndoNewTails
  BY UndoIs, Zenon DEF UndoNewTails
<1>3. job.op \in {"applyKey", "applyLogin", "revokeKey"} => Undo(s) = <<>> \/ Undo(s) \in UndoTails
  BY UndoIs, Zenon DEF UndoTails
<1>4. job.op = "deleteLogin" => Undo(s) = <<>>
  BY UndoIs
<1> QED BY <1>1, <1>2, <1>3, <1>4

\* A command that gives up: the job that is left.
LEMMA AccessGivesUp ==
    ASSUME ServicesInv, job # None, job.op \in AccessOps, ~job.undoing, GiveUp(Undo(Step))
    PROVE  /\ Undo(Step) = <<>> => job' = None
           /\ Undo(Step) # <<>> =>
                /\ job' \in Job /\ job' # None /\ SameCommand(job', job)
                /\ job'.todo = Undo(Step) /\ job'.undoing
           /\ JobInv' /\ ForwardInv'
<1> USE DEF ServicesInv
<1>1. AccessShape(job) /\ job \in Job /\ job.undoing \in BOOLEAN
  BY AccessSteps
<1>2. \/ job.op = "deleteLogin"
      \/ /\ job.op = "createLogin"
         /\ Step \in {"useradd", "passwd", "acl", "writeKey", "chown", "writeConf",
                      "reload", "save"}
      \/ /\ job.op \in {"applyKey", "applyLogin", "revokeKey"}
         /\ Step \in {"acl", "writeKey", "chown", "writeConf", "reload", "save", "rmKey", "rmConf"}
  <2>1. job.op \in KeyCommands =>
          \/ /\ job.op = "createLogin"
             /\ Step \in {"useradd", "passwd", "acl", "writeKey", "chown", "writeConf",
                          "reload", "save"}
          \/ /\ job.op \in {"applyKey", "applyLogin"}
             /\ Step \in {"acl", "writeKey", "chown", "writeConf", "reload", "save"}
    BY <1>1, KeyPrograms DEF Leads, Step, KeyCommands
  <2>2. job.op = "revokeKey" => Step \in {"rmKey", "rmConf", "reload", "save"}
    BY <1>1, RevokePrograms DEF Leads, Step
  <2> QED BY <2>1, <2>2 DEF AccessOps, KeyCommands
<1>3. PICK u : u = Undo(Step)
  OBVIOUS
<1>4. /\ u \in Seq(Steps)
      /\ u # <<>> =>
           /\ job.op # "deleteLogin"
           /\ job.op = "createLogin" => u \in UndoNewTails
           /\ job.op # "createLogin" => u \in UndoTails
  BY <1>2, <1>3, UndoTyped
<1>5. job' = IF u = <<>> THEN None ELSE [[job EXCEPT !.undoing = TRUE] EXCEPT !.todo = u]
  BY <1>3 DEF GiveUp, Continue
<1>6. u # <<>> =>
        /\ job' \in Job /\ job' # None /\ SameCommand(job', job)
        /\ job'.todo = u /\ job'.undoing
  <2> DEFINE i == [[job EXCEPT !.undoing = TRUE] EXCEPT !.todo = u]
  <2>1. i \in Job /\ SameCommand(i, job) /\ i.todo = u /\ i.undoing
    BY <1>1, <1>4, JobGivesUp, Zenon
  <2>2. u # <<>> => job' = i
    BY <1>5
  <2> HIDE DEF i
  <2> QED BY <2>1, <2>2, NoneIsNoJob
<1>7. u # <<>> => AccessShape(job)'
  <2> SUFFICES ASSUME u # <<>> PROVE AccessShape(job)'
    OBVIOUS
  <2>1. /\ job'.op = job.op /\ job'.login = job.login /\ job'.key = job.key
        /\ job'.todo = u /\ job'.undoing
    BY <1>6 DEF SameCommand
  <2>2. /\ job'.op \in {"applyKey", "revokeKey"} => job'.login = Own
        /\ job'.op \in {"createLogin", "applyLogin", "deleteLogin"} => job'.login \in Labels
        /\ job'.op \in {"applyKey", "createLogin", "applyLogin"} => job'.key \in PublicKeys
        /\ job'.op \in {"revokeKey", "deleteLogin"} => job'.key = None
    BY <1>1, <2>1 DEF AccessShape
  <2> QED BY <1>4, <2>1, <2>2 DEF AccessShape
<1>8. JobInv'
  BY <1>5, <1>6, <1>7 DEF JobInv, SameCommand, AccessOps, DatabaseOps
<1>9. ForwardInv'
  BY <1>5, <1>6 DEF ForwardInv
<1> QED BY <1>3, <1>5, <1>6, <1>8, <1>9

\* A failing step of a command that can be undone: what is not as before is
\* what the undo program restores.
LEMMA FailedIsUndone ==
    ASSUME ServicesInv, AccessStepFails, ~job.undoing, job.op # "deleteLogin",
           NEW l \in Logins, l \notin parted, l = job.login
    PROVE  (job' # None => Held(l)') /\ (job' = None => Match(l)')
<1> USE DEF ServicesInv
<1>1. /\ job # None /\ job.op \in AccessOps /\ Step # "save" /\ GiveUp(Undo(Step))
      /\ state' = state /\ keys' = keys /\ confs' = confs /\ loaded' = loaded
      /\ accounts' = accounts /\ accepted' = accepted
  BY DEF AccessStepFails, Ignored, recordVars
<1>2. AccessShape(job) /\ job \in Job
  BY <1>1, AccessSteps
<1>3. PICK op : op = job.op
  OBVIOUS
<1>4. PICK s : s = Step
  OBVIOUS
<1>5. /\ Undo(s) = <<>> => job' = None
      /\ Undo(s) # <<>> =>
           /\ job' # None /\ job'.op = op /\ job'.login = l
           /\ job'.oldKey = job.oldKey /\ job'.oldConf = job.oldConf
           /\ job'.todo = Undo(s) /\ job'.undoing
  BY <1>1, <1>3, <1>4, AccessGivesUp DEF SameCommand
<1>6. Held(l)
  BY <1>1 DEF LoginInv, Busy
<1>7. /\ (l \in state.logins) = Active(l)
      /\ job.oldKey = accepted[l] /\ job.oldConf = Active(l)
      /\ op = "createLogin" => ~Active(l) /\ (s = "useradd" => l \notin accounts)
      /\ op = "applyLogin" => (l \in accounts) = Active(l)
      /\ s \in {"useradd", "passwd", "acl", "writeKey", "rmKey"} => KeyOf(l) = accepted[l]
      /\ s # "reload" => (l \in confs) = Active(l)
      /\ (l \in loaded) = Active(l)
  BY <1>1, <1>3, <1>4, <1>6 DEF Held, KeyAsBefore, ConfAsBefore, LoadedAsBefore
<1>8. Active(l)' = Active(l) /\ KeyOf(l)' = KeyOf(l)
  BY <1>1 DEF Active, KeyOf
<1>9. op \in {"applyKey", "revokeKey"} => l \notin Labels
  BY <1>2, <1>3, SiteRecordAssumption DEF AccessShape
<1>10. ASSUME NEW t, t # <<>>, Undo(s) = t, Head(t) # "useradd",
              Head(t) # "restoreKey" => KeyOf(l) = accepted[l],
              ConfUndone(t) => (l \in confs) = Active(l)
       PROVE  (job' # None => Held(l)') /\ (job' = None => Match(l)')
  <2>1. job'.todo = t /\ job' # None /\ Step' = Head(t) /\ job'.undoing /\ job'.op = op
    BY <1>5, <1>10 DEF Step
  <2>2. /\ KeyAsBefore' => KeyOf(l)' = accepted'[l]
        /\ ConfAsBefore' => (l \in confs') = Active(l)'
        /\ LoadedAsBefore' => (l \in loaded') = Active(l)'
    BY <1>1, <1>7, <1>8, <1>10, <2>1 DEF KeyAsBefore, ConfAsBefore
  <2>3. /\ (l \in state'.logins) = Active(l)'
        /\ job'.oldKey = accepted'[l] /\ job'.oldConf = Active(l)'
        /\ op = "createLogin" => ~Active(l)'
        /\ op = "applyLogin" => (l \in accounts') = Active(l)'
    BY <1>1, <1>5, <1>7, <1>8, <1>10
  <2>4. Held(l)'
    BY <1>3, <1>10, <2>1, <2>2, <2>3 DEF Held
  <2> QED BY <2>1, <2>4
<1>11. ASSUME Undo(s) = <<>>, KeyOf(l) = accepted[l], (l \in confs) = Active(l),
              l \in Labels => (l \in accounts) = Active(l)
       PROVE  (job' # None => Held(l)') /\ (job' = None => Match(l)')
  <2>1. job' = None
    BY <1>5, <1>11
  <2>2. Match(l)'
    BY <1>1, <1>7, <1>8, <1>11 DEF Match
  <2> QED BY <2>1, <2>2
<1>12. CASE op \in {"applyKey", "applyLogin", "revokeKey"}
  <2>1. s \in {"acl", "writeKey", "chown", "writeConf", "reload", "rmKey", "rmConf"}
    <3>1. op \in {"applyKey", "applyLogin"} =>
             s \in {"acl", "writeKey", "chown", "writeConf", "reload"}
      BY <1>1, <1>2, <1>3, <1>4, KeyPrograms DEF Leads, Step, KeyCommands
    <3>2. op = "revokeKey" => s \in {"rmKey", "rmConf", "reload"}
      BY <1>1, <1>2, <1>3, <1>4, RevokePrograms DEF Leads, Step
    <3> QED BY <1>12, <3>1, <3>2
  <2>2. CASE s \in {"acl", "writeKey", "rmKey"}
    <3>1. Undo(s) = <<>>
      BY <1>3, <1>12, <2>2, UndoIs
    <3> QED BY <1>7, <1>9, <1>11, <1>12, <2>2, <3>1
  <2>3. CASE s \in {"chown", "writeConf", "rmConf"}
    <3>1. Undo(s) = <<"restoreKey">>
      BY <1>3, <1>12, <2>3, UndoIs
    <3>2. <<"restoreKey">> # <<>> /\ Head(<<"restoreKey">>) = "restoreKey"
      BY UndoneFlags
    <3> QED BY <1>7, <1>10, <2>3, <3>1, <3>2
  <2>4. CASE s = "reload"
    <3>1. Undo(s) = <<"restoreKey", "restoreConf">>
      BY <1>3, <1>12, <2>4, UndoIs
    <3>2. /\ <<"restoreKey", "restoreConf">> # <<>>
          /\ Head(<<"restoreKey", "restoreConf">>) = "restoreKey"
          /\ ~ConfUndone(<<"restoreKey", "restoreConf">>)
      BY UndoneFlags
    <3> QED BY <1>10, <3>1, <3>2
  <2> QED BY <2>1, <2>2, <2>3, <2>4
<1>13. CASE op = "createLogin"
  <2>1. s \in {"useradd", "passwd", "acl", "writeKey", "chown", "writeConf", "reload"}
    BY <1>1, <1>2, <1>3, <1>4, <1>13, KeyPrograms DEF Leads, Step, KeyCommands
  <2>2. CASE s = "useradd"
    <3>1. Undo(s) = <<>>
      BY <1>3, <1>13, <2>2, UndoIs
    <3>2. (l \in accounts) = Active(l)
      BY <1>7, <1>13, <2>2 DEF Active
    <3> QED BY <1>7, <1>11, <2>2, <3>1, <3>2
  <2>3. CASE s \in {"passwd", "acl", "writeKey"}
    <3>1. Undo(s) = <<"userdel">>
      BY <1>3, <1>13, <2>3, UndoIs
    <3>2. <<"userdel">> # <<>> /\ Head(<<"userdel">>) = "userdel"
      BY UndoneFlags
    <3> QED BY <1>7, <1>10, <2>3, <3>1, <3>2
  <2>4. CASE s \in {"chown", "writeConf"}
    <3>1. Undo(s) = <<"restoreKey", "userdel">>
      BY <1>3, <1>13, <2>4, UndoIs
    <3>2. <<"restoreKey", "userdel">> # <<>> /\ Head(<<"restoreKey", "userdel">>) = "restoreKey"
      BY UndoneFlags
    <3> QED BY <1>7, <1>10, <2>4, <3>1, <3>2
  <2>5. CASE s = "reload"
    <3>1. Undo(s) = <<"restoreKey", "restoreConf", "userdel">>
      BY <1>3, <1>13, <2>5, UndoIs
    <3>2. /\ <<"restoreKey", "restoreConf", "userdel">> # <<>>
          /\ Head(<<"restoreKey", "restoreConf", "userdel">>) = "restoreKey"
          /\ ~ConfUndone(<<"restoreKey", "restoreConf", "userdel">>)
      BY UndoneFlags
    <3> QED BY <1>10, <3>1, <3>2
  <2> QED BY <2>1, <2>2, <2>3, <2>4, <2>5
<1> QED BY <1>1, <1>3, <1>12, <1>13 DEF AccessOps

\* The job that is left when a step is done or its failure is ignored.
LEMMA AccessAdvances ==
    ASSUME ServicesInv, job # None, job.op \in AccessOps, Step # "save",
           Continue(job, Tail(job.todo))
    PROVE  /\ job' = None \/ (job' \in Job /\ job' # None /\ SameCommand(job', job)
                               /\ job'.new = job.new /\ job'.undoing = job.undoing)
           /\ JobInv'
<1> USE DEF ServicesInv
<1>1. AccessShape(job) /\ job \in Job /\ job.undoing \in BOOLEAN /\ job.todo \in Seq(Steps)
  BY AccessSteps, JobTyped
<1>2. PICK t : t = Tail(job.todo)
  OBVIOUS
<1>3. job' = IF t = <<>> THEN None ELSE [job EXCEPT !.todo = t]
  BY <1>2 DEF Continue
<1>4. job.todo # <<>>
  <2>1. /\ <<>> \notin KeyTails /\ <<>> \notin LoginTails /\ <<>> \notin NewLoginTails
        /\ <<>> \notin RevokeTails /\ <<>> \notin DeleteTails
        /\ <<>> \notin UndoTails /\ <<>> \notin UndoNewTails
    BY DEF KeyTails, LoginTails, NewLoginTails, RevokeTails, DeleteTails, UndoTails, UndoNewTails
  <2> QED BY <1>1, <2>1 DEF AccessShape, AccessOps
<1>5. t \in Seq(Steps)
  BY <1>1, <1>2, <1>4, HeadTailProperties
<1>6. t # <<>> => /\ job' \in Job /\ job' # None /\ SameCommand(job', job)
                  /\ job'.new = job.new /\ job'.undoing = job.undoing /\ job'.todo = t
  BY <1>1, <1>3, <1>5, JobAdvances, NoneIsNoJob
<1>7. t # <<>> => AccessShape(job')
  BY <1>1, <1>2, <1>6, ShapeAdvances DEF Step
<1>8. t # <<>> => AccessShape(job)'
  BY <1>7 DEF AccessShape
<1>9. JobInv'
  BY <1>3, <1>6, <1>8 DEF JobInv, SameCommand, AccessOps, DatabaseOps
<1> QED BY <1>3, <1>6, <1>9

LEMMA AccessStepFailsKeeps ==
    ASSUME ServicesInv, AccessStepFails, UNCHANGED serverVars
    PROVE  ServicesInv'
<1> USE DEF ServicesInv
<1>1. /\ job # None /\ job.op \in AccessOps /\ Step # "save"
      /\ state' = state /\ stateFile' = stateFile /\ ops' = ops /\ keys' = keys
      /\ confs' = confs /\ loaded' = loaded /\ accounts' = accounts /\ accepted' = accepted
      /\ undone' = undone \cup {job.login}
  BY DEF AccessStepFails, recordVars
<1>2. /\ AccessShape(job) /\ job \in Job /\ job.undoing \in BOOLEAN /\ job.login \in Logins
  BY <1>1, AccessSteps
<1>3. parted' = IF job.undoing \/ job.op = "deleteLogin" THEN parted \cup {job.login} ELSE parted
  BY DEF AccessStepFails
<1>4. /\ job' = None \/ (job' \in Job /\ job' # None /\ SameCommand(job', job))
      /\ JobInv' /\ ForwardInv'
      /\ job' # None /\ ~job'.undoing => job'.new = job.new /\ ~job.undoing
  <2>1. CASE Ignored
    <3>1. Continue(job, Tail(job.todo))
      BY <2>1 DEF AccessStepFails
    <3>2. /\ job' = None \/ (job' \in Job /\ job' # None /\ SameCommand(job', job)
                               /\ job'.new = job.new /\ job'.undoing = job.undoing)
          /\ JobInv'
      BY <1>1, <3>1, AccessAdvances
    <3>3. job.undoing \/ job.op = "deleteLogin"
      BY <2>1 DEF Ignored
    <3>4. ForwardInv'
      BY <3>2, <3>3 DEF ForwardInv, KeyCommands, SameCommand
    <3> QED BY <3>2, <3>4
  <2>2. CASE ~Ignored
    <3>1. GiveUp(Undo(Step)) /\ ~job.undoing
      BY <2>2 DEF AccessStepFails, Ignored
    <3>2. /\ job' = None \/ (job' \in Job /\ job' # None /\ SameCommand(job', job) /\ job'.undoing)
          /\ JobInv' /\ ForwardInv'
      BY <1>1, <3>1, AccessGivesUp
    <3> QED BY <3>2
  <2> QED BY <2>1, <2>2
<1>5. job' # None => job'.op = job.op /\ job'.login = job.login
  BY <1>4 DEF SameCommand
<1>6. ServicesTypeOK'
  <2>1. faults' \in 0 .. MaxFaults
    BY SiteRecordAssumption DEF AccessStepFails, Fault, ServicesTypeOK, RecordTypeOK
  <2>2. parted' \subseteq Logins \cup Databases
    BY <1>2, <1>3 DEF ServicesTypeOK, RecordTypeOK
  <2>3. RecordTypeOK'
    BY <1>1, <1>4, <2>1, <2>2 DEF ServicesTypeOK, RecordTypeOK
  <2>4. Step = "acl" => job.login \in Labels
    <3>1. Step = "acl" => ~job.undoing
      BY <1>1, <1>2, UndoSteps DEF Is, Step
    <3>2. Step = "acl" => job.op # "revokeKey" /\ job.op # "deleteLogin"
      BY <1>2, <3>1, RevokePrograms, DeletePrograms DEF Leads, Step
    <3>3. Step = "acl" => job.op # "applyKey"
      BY <1>2, <3>1, KeyPrograms DEF Leads, Step, KeyCommands
    <3> QED BY <1>1, <1>2, <3>2, <3>3 DEF AccessShape, AccessOps
  <2>5. acls' \in {acls} \cup (IF Step = "acl" /\ Possible
                               THEN {acls \cup {<<job.login, "site">>}} ELSE {})
    BY DEF AccessStepFails
  <2>6. acls' \subseteq Labels \X {"site", "parent"}
    <3>1. acls \subseteq Labels \X {"site", "parent"}
      BY DEF ServicesTypeOK, AccessTypeOK
    <3>2. acls' = acls \/ (job.login \in Labels /\ acls' = acls \cup {<<job.login, "site">>})
      BY <2>4, <2>5
    <3> QED BY <3>1, <3>2
  <2>7. AccessTypeOK'
    BY <1>1, <1>2, <2>6 DEF ServicesTypeOK, AccessTypeOK
  <2> QED BY <2>3, <2>7 DEF ServicesTypeOK, DatabaseTypeOK, serverVars
<1>7. RecordInv'
  BY <1>1, <1>4, <1>5 DEF RecordInv
<1>8. DatabaseInv'
  <2>1. \A d \in Databases : d \in parted => d \in parted'
    BY <1>3
  <2> QED BY <1>1, <1>5, <1>6, <1>7, <2>1, DatabaseKept DEF SameDatabases
<1>9. LoginInv'
  <2> SUFFICES ASSUME NEW l \in Logins \ parted' PROVE (IF Busy(l) THEN Held(l) ELSE Match(l))'
    BY DEF LoginInv
  <2>1. l \notin parted
    BY <1>3
  <2>2. CASE l # job.login
    <3>1. Match(l)
      BY <2>1, <2>2 DEF LoginInv, Busy
    <3>2. Match(l)'
      BY <1>1, <3>1 DEF Match, KeyOf, Active
    <3> QED BY <1>5, <2>2, <3>2 DEF Busy
  <2>3. CASE l = job.login
    <3>1. ~job.undoing /\ job.op # "deleteLogin"
      BY <1>3, <2>3
    <3>2. (job' # None => Held(l)') /\ (job' = None => Match(l)')
      BY <2>1, <2>3, <3>1, FailedIsUndone
    <3> QED BY <1>1, <1>5, <2>3, <3>2 DEF Busy
  <2> QED BY <2>2, <2>3
<1> QED BY <1>4, <1>6, <1>7, <1>8, <1>9

(***************************************************************************)
(* An access command saves the record.                                     *)
(***************************************************************************)
LEMMA RecordingIs ==
    ASSUME ServicesInv, job # None, job.op \in AccessOps, Step = "save"
    PROVE  /\ AccessShape(job) /\ job \in Job /\ ~job.undoing /\ job.login \in Logins
           /\ Recording.new \in State
           /\ Recording.new.databases = state.databases /\ Recording.new.users = state.users
           /\ Recording.new.grants = state.grants
           /\ Recording.new.logins =
                IF job.op \in {"revokeKey", "deleteLogin"} THEN state.logins \ {job.login}
                ELSE state.logins \cup {job.login}
<1> USE DEF ServicesInv
<1>1. AccessShape(job) /\ job \in Job /\ ~job.undoing /\ job.login \in Logins
  BY AccessSteps
<1>2. job.new = state /\ state \in State
  BY <1>1 DEF RecordInv, ServicesTypeOK, RecordTypeOK
<1>3. CASE job.op \in {"revokeKey", "deleteLogin"}
  <2>1. Recording.new = [state EXCEPT !.logins = @ \ {job.login}]
    BY <1>1, <1>2, <1>3 DEF Recording, Job
  <2> QED BY <1>1, <1>2, <1>3, <2>1 DEF State
<1>4. CASE job.op \notin {"revokeKey", "deleteLogin"}
  <2>1. Recording.new = [state EXCEPT !.logins = @ \cup {job.login}]
    BY <1>1, <1>2, <1>4 DEF Recording, Job
  <2> QED BY <1>1, <1>2, <1>4, <2>1 DEF State
<1> QED BY <1>3, <1>4

\* What the finished steps of a command have achieved for its login.
LEMMA SavedMatches ==
    ASSUME ServicesInv, AccessSaved, NEW l \in Logins, l = job.login,
           job.op = "deleteLogin" => l \notin parted
    PROVE  Match(l)'
<1> USE DEF ServicesInv
<1>1. /\ job # None /\ job.op \in AccessOps /\ Step = "save" /\ state' = Recording.new
      /\ keys' = keys /\ confs' = confs /\ loaded' = loaded /\ accounts' = accounts
      /\ accepted' = [accepted EXCEPT ![l] = job.key]
  BY DEF AccessSaved, SaveAccess, MemoryAfter, hostVars
<1>2. /\ AccessShape(job) /\ ~job.undoing
      /\ state'.logins = IF job.op \in {"revokeKey", "deleteLogin"} THEN state.logins \ {l}
                         ELSE state.logins \cup {l}
  BY <1>1, RecordingIs
<1>3. accepted'[l] = job.key
  BY <1>1 DEF ServicesTypeOK, AccessTypeOK
<1>4. Active(l)' = (job.key # None) /\ KeyOf(l)' = KeyOf(l)
  BY <1>1, <1>3 DEF Active, KeyOf
<1>5. CASE job.op \in KeyCommands
  <2>1. job.key \in PublicKeys /\ job.key # None
    BY <1>2, <1>5, SiteRecordAssumption DEF AccessShape, KeyCommands
  <2>2. /\ keys[l] \in KeyFile /\ keys[l].key = job.key /\ l \in confs /\ l \in loaded
        /\ job.op # "applyKey" => l \in accounts
    BY <1>1, <1>2, <1>5 DEF ForwardInv
  <2>3. KeyOf(l) = job.key
    BY <2>2, NoneIsNoKeyFile DEF KeyOf
  <2>4. l \in state'.logins
    BY <1>2, <1>5 DEF KeyCommands
  <2>5. l \in Labels => l \in accounts
    BY <1>2, <2>2, SiteRecordAssumption DEF AccessShape
  <2> QED BY <1>1, <1>3, <1>4, <2>1, <2>2, <2>3, <2>4, <2>5 DEF Match
<1>6. CASE job.op = "revokeKey"
  <2>1. job.key = None /\ l \notin Labels
    BY <1>2, <1>6, SiteRecordAssumption DEF AccessShape
  <2>2. keys[l] = None /\ l \notin confs /\ l \notin loaded
    BY <1>1, <1>2, <1>6 DEF ForwardInv
  <2>3. KeyOf(l) = None /\ l \notin state'.logins
    BY <1>2, <1>6, <2>2 DEF KeyOf
  <2> QED BY <1>1, <1>3, <1>4, <2>1, <2>2, <2>3 DEF Match
<1>7. CASE job.op = "deleteLogin"
  <2>1. job.key = None
    BY <1>2, <1>7 DEF AccessShape
  <2>2. Held(l)
    BY <1>1, <1>7 DEF LoginInv, Busy
  <2>3. keys[l] = None /\ l \notin confs /\ l \notin loaded /\ l \notin accounts
    BY <1>1, <1>7, <2>2 DEF Held, DeletionFacts
  <2>4. KeyOf(l) = None /\ l \notin state'.logins
    BY <1>2, <1>7, <2>3 DEF KeyOf
  <2> QED BY <1>1, <1>3, <1>4, <2>1, <2>3, <2>4 DEF Match
<1> QED BY <1>1, <1>5, <1>6, <1>7 DEF AccessOps, KeyCommands

LEMMA AccessSavedKeeps ==
    ASSUME ServicesInv, AccessSaved, UNCHANGED serverVars
    PROVE  ServicesInv'
<1> USE DEF ServicesInv
<1>1. /\ job # None /\ job.op \in AccessOps /\ Step = "save" /\ job' = None
      /\ state' = Recording.new /\ stateFile' = Recording.new
      /\ keys' = keys /\ confs' = confs /\ loaded' = loaded /\ accounts' = accounts
      /\ acls' = acls /\ ops' = ops /\ faults' = faults /\ undone' = undone \ {job.login}
      /\ accepted' = [accepted EXCEPT ![job.login] = job.key]
      /\ parted' = IF job.op = "deleteLogin" THEN parted ELSE parted \ {job.login}
  BY DEF AccessSaved, SaveAccess, MemoryAfter, AtomicWrite, hostVars, Continue
<1>2. /\ job \in Job /\ job.login \in Logins
      /\ state' \in State /\ state'.databases = state.databases
      /\ state'.users = state.users /\ state'.grants = state.grants
      /\ state'.logins = IF job.op \in {"revokeKey", "deleteLogin"}
                         THEN state.logins \ {job.login} ELSE state.logins \cup {job.login}
  BY <1>1, RecordingIs
<1>3. ServicesTypeOK'
  <2>1. RecordTypeOK'
    BY <1>1, <1>2 DEF ServicesTypeOK, RecordTypeOK
  <2>2. accepted' \in [Logins -> PublicKeys \cup {None}]
    BY <1>1, <1>2 DEF ServicesTypeOK, AccessTypeOK, Job
  <2>3. AccessTypeOK'
    BY <1>1, <2>2 DEF ServicesTypeOK, AccessTypeOK
  <2> QED BY <2>1, <2>3 DEF ServicesTypeOK, DatabaseTypeOK, serverVars
<1>4. JobInv' /\ ForwardInv' /\ RecordInv'
  BY <1>1 DEF JobInv, ForwardInv, RecordInv
<1>5. DatabaseInv'
  <2>1. \A d \in Databases : d \in parted => d \in parted'
    BY <1>1, <1>2, SiteRecordAssumption
  <2> QED BY <1>1, <1>2, <1>3, <1>4, <2>1, DatabaseKept DEF SameDatabases
<1>6. LoginInv'
  <2> SUFFICES ASSUME NEW l \in Logins \ parted' PROVE Match(l)'
    BY <1>1 DEF LoginInv, Busy
  <2>1. CASE l # job.login
    <3>1. Match(l)
      BY <1>1, <2>1 DEF LoginInv, Busy
    <3>2. Active(l)' = Active(l) /\ accepted'[l] = accepted[l] /\ KeyOf(l)' = KeyOf(l)
      BY <1>1, <2>1 DEF Active, KeyOf, ServicesTypeOK, AccessTypeOK
    <3>3. l \in state'.logins <=> l \in state.logins
      BY <1>2, <2>1
    <3> QED BY <1>1, <3>1, <3>2, <3>3 DEF Match
  <2>2. CASE l = job.login
    BY <1>1, <2>2, SavedMatches
  <2> QED BY <2>1, <2>2
<1> QED BY <1>3, <1>4, <1>5, <1>6

LEMMA AccessSaveFailsKeeps ==
    ASSUME ServicesInv, NEW outcome \in Outcomes, AccessSaveFails(outcome), UNCHANGED serverVars
    PROVE  ServicesInv'
<1> USE DEF ServicesInv
<1>1. /\ job # None /\ job.op \in AccessOps /\ Step = "save" /\ GiveUp(Undo(Step))
      /\ keys' = keys /\ confs' = confs /\ loaded' = loaded /\ accounts' = accounts
      /\ acls' = acls /\ accepted' = accepted /\ ops' = ops /\ Fault
      /\ undone' = undone \cup {job.login}
      /\ parted' = IF job.op = "deleteLogin" \/ IsCommitted(outcome)
                   THEN parted \cup {job.login} ELSE parted
  BY DEF AccessSaveFails, hostVars
<1>2. /\ AccessShape(job) /\ job \in Job /\ ~job.undoing /\ job.login \in Logins
      /\ Recording.new \in State
      /\ Recording.new.databases = state.databases /\ Recording.new.users = state.users
      /\ Recording.new.grants = state.grants
      /\ \A l : l # job.login => (l \in Recording.new.logins <=> l \in state.logins)
  BY <1>1, RecordingIs
<1>3. \/ outcome = "failed" /\ state' = state /\ stateFile' = stateFile
      \/ outcome = "committed" /\ state' = Recording.new /\ stateFile' = Recording.new
  BY DEF AccessSaveFails, SaveAccess, AtomicWrite, MemoryAfter, IsCommitted, Outcomes
<1>4. /\ job' = None \/ (job' \in Job /\ job' # None /\ SameCommand(job', job) /\ job'.undoing
                           /\ job'.todo = Undo(Step) /\ Undo(Step) # <<>>)
      /\ JobInv' /\ ForwardInv'
      /\ Undo(Step) # <<>> => job' # None
  BY <1>1, <1>2, AccessGivesUp
<1>5. job' # None => job'.op = job.op /\ job'.login = job.login
  BY <1>4 DEF SameCommand
<1>6. ServicesTypeOK'
  <2>1. faults' \in 0 .. MaxFaults
    BY <1>1, SiteRecordAssumption DEF Fault, ServicesTypeOK, RecordTypeOK
  <2>2. parted' \subseteq Logins \cup Databases
    BY <1>1, <1>2 DEF ServicesTypeOK, RecordTypeOK
  <2>3. RecordTypeOK'
    BY <1>1, <1>2, <1>3, <1>4, <2>1, <2>2 DEF ServicesTypeOK, RecordTypeOK
  <2>4. AccessTypeOK'
    BY <1>1, <1>2 DEF ServicesTypeOK, AccessTypeOK
  <2> QED BY <2>3, <2>4 DEF ServicesTypeOK, DatabaseTypeOK, serverVars
<1>7. RecordInv'
  BY <1>3, <1>4 DEF RecordInv
<1>8. DatabaseInv'
  <2>1. \A d \in Databases : d \in parted => d \in parted'
    BY <1>1
  <2>2. /\ SameDatabases(state', state)
        /\ SameDatabases(stateFile', state) \/ SameDatabases(stateFile', stateFile)
    BY <1>2, <1>3 DEF SameDatabases
  <2> QED BY <1>1, <1>5, <1>6, <1>7, <2>1, <2>2, DatabaseKept
<1>9. LoginInv'
  <2> SUFFICES ASSUME NEW l \in Logins \ parted' PROVE (IF Busy(l) THEN Held(l) ELSE Match(l))'
    BY DEF LoginInv
  <2>1. l \notin parted
    BY <1>1
  <2>2. CASE l # job.login
    <3>1. Match(l)
      BY <2>1, <2>2 DEF LoginInv, Busy
    <3>2. l \in state'.logins <=> l \in state.logins
      BY <1>2, <1>3, <2>2
    <3>3. Active(l)' = Active(l) /\ KeyOf(l)' = KeyOf(l)
      BY <1>1 DEF Active, KeyOf
    <3>4. Match(l)'
      BY <1>1, <3>1, <3>2, <3>3 DEF Match
    <3> QED BY <1>5, <2>2, <3>4 DEF Busy
  <2>3. CASE l = job.login
    <3>1. job.op # "deleteLogin" /\ outcome = "failed" /\ state' = state
      BY <1>1, <1>3, <2>3 DEF IsCommitted
    <3>2. Held(l)
      BY <1>1, <2>1, <2>3 DEF LoginInv, Busy
    <3>3. /\ (l \in state.logins) = Active(l)
          /\ job.oldKey = accepted[l] /\ job.oldConf = Active(l)
          /\ job.op = "createLogin" => ~Active(l)
          /\ job.op = "applyLogin" => (l \in accounts) = Active(l)
      BY <3>2 DEF Held
    <3>4. /\ Undo(Step) # <<>> /\ Head(Undo(Step)) = "restoreKey"
          /\ ~ConfUndone(Undo(Step)) /\ ~LoadedUndone(Undo(Step))
      <4>1. \/ Undo(Step) = <<"restoreKey", "restoreConf", "reload">>
            \/ Undo(Step) = <<"restoreKey", "restoreConf", "reload", "userdel">>
        BY <1>1, <3>1, UndoIs DEF AccessOps
      <4> QED BY <4>1, UndoneFlags
    <3>5. /\ job' # None /\ job'.op = job.op /\ job'.oldKey = job.oldKey
          /\ job'.oldConf = job.oldConf /\ job'.undoing /\ job'.todo = Undo(Step)
      BY <1>4, <3>4 DEF SameCommand
    <3>6. Step' = "restoreKey"
      BY <3>4, <3>5 DEF Step
    <3>7. ~KeyAsBefore' /\ ~ConfAsBefore' /\ ~LoadedAsBefore'
      <4>1. PICK t : t = Undo(Step)
        OBVIOUS
      <4>2. ~ConfUndone(t) /\ ~LoadedUndone(t) /\ job'.todo = t
        BY <3>4, <3>5, <4>1
      <4> QED BY <3>5, <3>6, <4>2 DEF KeyAsBefore, ConfAsBefore, LoadedAsBefore
    <3>8. Active(l)' = Active(l)
      BY <1>1 DEF Active
    <3>9. Held(l)'
      BY <1>1, <3>1, <3>3, <3>5, <3>6, <3>7, <3>8 DEF Held
    <3> QED BY <1>1, <1>5, <2>3, <3>5, <3>9 DEF Busy
  <2> QED BY <2>2, <2>3
<1> QED BY <1>4, <1>6, <1>7, <1>8, <1>9

(***************************************************************************)
(* The statements of a database command.                                   *)
(***************************************************************************)
\* What every step of a database command leaves alone.
LEMMA DatabaseStepLogins ==
    ASSUME ServicesInv, job # None, job.op \in DatabaseOps, UNCHANGED accessVars,
           job' = None \/ job'.op = job.op, state'.logins = state.logins,
           \A l \in Logins : l \in parted' <=> l \in parted
    PROVE  ForwardInv' /\ LoginInv'
<1> USE DEF ServicesInv
<1>1. job.op \notin AccessOps
  BY DEF AccessOps, DatabaseOps
<1>2. ForwardInv'
  BY <1>1 DEF ForwardInv, KeyCommands, AccessOps
<1>3. \A l \in Logins \ parted' : l \notin parted /\ ~Busy(l) /\ ~Busy(l)'
  BY <1>1 DEF Busy
<1>4. LoginInv'
  BY <1>3, LoginsKept DEF accessVars, hostVars
<1> QED BY <1>2, <1>4

LEMMA DatabaseJobNow ==
    ASSUME ServicesInv, job # None, job.op \in DatabaseOps
    PROVE  /\ job \in Job /\ job.new \in State /\ job.todo \in Seq(Steps)
           /\ DatabaseShape(job) /\ job.undoing \in BOOLEAN
           /\ job.role \in Roles
           /\ job.op \notin {"createUser", "deleteUser"} => job.database \in Databases
<1>1. /\ job \in Job /\ job.new \in State /\ job.todo \in Seq(Steps)
      /\ DatabaseShape(job) /\ job.undoing \in BOOLEAN
  BY JobTyped DEF ServicesInv
<1> QED BY <1>1 DEF DatabaseShape

\* The statement that is due in a forward command.
LEMMA StatementDue ==
    ASSUME ServicesInv, job # None, Step \in Statements, ~job.undoing
    PROVE  /\ job.op \in DatabaseOps /\ DatabaseShape(job)
           /\ \/ job.op = "create" /\ Step = "createSQL" /\ Tail(job.todo) = <<"save">>
              \/ job.op = "rotate" /\ Step = "rotateSQL" /\ Tail(job.todo) = <<>>
              \/ job.op = "delete" /\ Step = "dropDatabase"
              \/ job.op = "delete" /\ Step = "dropRole" /\ Tail(job.todo) = <<"save">>
              \/ job.op = "createUser" /\ Step = "createUserSQL" /\ Tail(job.todo) = <<"save">>
              \/ job.op = "deleteUser" /\ Step = "dropRole" /\ Tail(job.todo) = <<"save">>
              \/ job.op = "grant" /\ Step = "grantSQL" /\ Tail(job.todo) = <<"save">>
              \/ job.op = "revoke" /\ Step = "revokeSQL" /\ Tail(job.todo) = <<"save">>
<1>1. job.op \in DatabaseOps
  BY AccessSteps, JobTyped DEF ServicesInv
<1>2. DatabaseShape(job) /\ job.undoing \in BOOLEAN
  BY <1>1, DatabaseJobNow
<1>3. Step # "save"
  BY DEF Statements
<1>4. Step = Head(job.todo)
  BY DEF Step
<1> QED BY <1>1, <1>2, <1>3, <1>4, DatabasePrograms

\* The fields of the copy e that statement s makes of n.
EditIs(e, n, d, r, s, op) ==
    /\ s = "createSQL" =>
         /\ e.databases = Append(n.databases, d) /\ e.users = appendUnique(n.users, r)
         /\ e.grants = n.grants \cup {<<d, r>>}
    /\ s = "rotateSQL" => e = n
    /\ s = "createUserSQL" =>
         /\ e.databases = n.databases /\ e.users = appendUnique(n.users, r)
         /\ e.grants = n.grants
    /\ s = "dropDatabase" =>
         /\ e.databases = remove(n.databases, d) /\ e.users = n.users
         /\ e.grants = {g \in n.grants : g[1] # d}
    /\ s = "dropRole" =>
         /\ e.databases = n.databases /\ e.users = remove(n.users, r)
         /\ e.grants = IF op = "delete" THEN n.grants ELSE {g \in n.grants : g[2] # r}
    /\ s = "grantSQL" =>
         /\ e.databases = n.databases /\ e.users = n.users
         /\ e.grants = n.grants \cup {<<d, r>>}
    /\ s = "revokeSQL" =>
         /\ e.databases = n.databases /\ e.users = n.users
         /\ e.grants = n.grants \ {<<d, r>>}

LEMMA EditedFields ==
    ASSUME ServicesInv, job # None, Step \in Statements, ~job.undoing,
           NEW n \in State, n = job.new, NEW e, e = Edited,
           NEW d, d = job.database, NEW r \in Roles, r = job.role
    PROVE  e \in State /\ e.logins = n.logins /\ EditIs(e, n, d, r, Step, job.op)
<1>1. /\ n.databases \in Seq(Databases) /\ n.users \in Seq(Roles)
      /\ n.grants \subseteq Databases \X Roles /\ n.logins \subseteq Logins
  BY DEF State
<1>2. \/ job.op \in {"create", "delete", "grant", "revoke"} /\ d \in Databases
      \/ Step \in {"rotateSQL", "createUserSQL", "dropRole"}
  BY StatementDue, DatabaseJobNow
<1>3. appendUnique(n.users, r) \in Seq(Roles) /\ remove(n.users, r) \in Seq(Roles)
  BY <1>1, AppendContains, RemoveType
<1>4. ASSUME Step = "createSQL"
      PROVE  /\ e \in State /\ e.logins = n.logins
             /\ e.databases = Append(n.databases, d) /\ e.users = appendUnique(n.users, r)
             /\ e.grants = n.grants \cup {<<d, r>>}
  <2>1. d \in Databases
    BY <1>2, <1>4
  <2>2. Append(n.databases, d) \in Seq(Databases)
    BY <1>1, <2>1, AppendContains
  <2>3. e = [n EXCEPT !.databases = Append(@, d), !.users = appendUnique(@, r),
                      !.grants = @ \cup {<<d, r>>}]
    BY <1>4 DEF Edited, Access
  <2>4. /\ e.logins = n.logins
        /\ e.databases = Append(n.databases, d) /\ e.users = appendUnique(n.users, r)
        /\ e.grants = n.grants \cup {<<d, r>>}
        /\ e = [databases |-> e.databases, users |-> e.users, grants |-> e.grants,
                logins |-> e.logins]
    BY <2>3 DEF State
  <2>5. e.grants \subseteq Databases \X Roles
    BY <1>1, <2>1, <2>4
  <2> QED BY <1>1, <1>3, <2>2, <2>4, <2>5 DEF State
<1>5. ASSUME Step = "rotateSQL" PROVE e = n
  BY <1>5 DEF Edited
<1>6. ASSUME Step = "createUserSQL"
      PROVE  /\ e \in State /\ e.logins = n.logins
             /\ e.databases = n.databases /\ e.users = appendUnique(n.users, r)
             /\ e.grants = n.grants
  <2>1. e = [n EXCEPT !.users = appendUnique(@, r)]
    BY <1>6 DEF Edited
  <2> QED BY <1>1, <1>3, <2>1 DEF State
<1>7. ASSUME Step = "dropDatabase"
      PROVE  /\ e \in State /\ e.logins = n.logins
             /\ e.databases = remove(n.databases, d) /\ e.users = n.users
             /\ e.grants = {g \in n.grants : g[1] # d}
  <2>1. e = [n EXCEPT !.databases = remove(@, d), !.grants = {g \in @ : g[1] # d}]
    BY <1>7 DEF Edited
  <2>2. remove(n.databases, d) \in Seq(Databases)
    BY <1>1, RemoveType
  <2>3. /\ e.logins = n.logins
        /\ e.databases = remove(n.databases, d) /\ e.users = n.users
        /\ e.grants = {g \in n.grants : g[1] # d}
        /\ e = [databases |-> e.databases, users |-> e.users, grants |-> e.grants,
                logins |-> e.logins]
    BY <2>1 DEF State
  <2>4. e.grants \subseteq Databases \X Roles
    BY <1>1, <2>3
  <2> QED BY <1>1, <2>2, <2>3, <2>4 DEF State
<1>8. ASSUME Step = "dropRole"
      PROVE  /\ e \in State /\ e.logins = n.logins
             /\ e.databases = n.databases /\ e.users = remove(n.users, r)
             /\ e.grants = IF job.op = "delete" THEN n.grants ELSE {g \in n.grants : g[2] # r}
  <2>1. e = [n EXCEPT !.users = remove(@, r),
                      !.grants = IF job.op = "delete" THEN @ ELSE {g \in @ : g[2] # r}]
    BY <1>8 DEF Edited
  <2>2. /\ e.logins = n.logins
        /\ e.databases = n.databases /\ e.users = remove(n.users, r)
        /\ e.grants = IF job.op = "delete" THEN n.grants ELSE {g \in n.grants : g[2] # r}
        /\ e = [databases |-> e.databases, users |-> e.users, grants |-> e.grants,
                logins |-> e.logins]
    BY <2>1 DEF State
  <2>3. e.grants \subseteq Databases \X Roles
    BY <1>1, <2>2
  <2> QED BY <1>1, <1>3, <2>2, <2>3 DEF State
<1>9. ASSUME Step = "grantSQL"
      PROVE  /\ e \in State /\ e.logins = n.logins
             /\ e.databases = n.databases /\ e.users = n.users
             /\ e.grants = n.grants \cup {<<d, r>>}
  <2>1. e = [n EXCEPT !.grants = @ \cup {<<d, r>>}] /\ d \in Databases
    BY <1>2, <1>9 DEF Edited, Access
  <2>2. /\ e.logins = n.logins /\ e.databases = n.databases /\ e.users = n.users
        /\ e.grants = n.grants \cup {<<d, r>>}
        /\ e = [databases |-> e.databases, users |-> e.users, grants |-> e.grants,
                logins |-> e.logins]
    BY <2>1 DEF State
  <2>3. e.grants \subseteq Databases \X Roles
    BY <1>1, <2>1, <2>2
  <2> QED BY <1>1, <2>2, <2>3 DEF State
<1>10. ASSUME Step = "revokeSQL"
      PROVE  /\ e \in State /\ e.logins = n.logins
             /\ e.databases = n.databases /\ e.users = n.users
             /\ e.grants = n.grants \ {<<d, r>>}
  <2>1. e = [n EXCEPT !.grants = @ \ {<<d, r>>}]
    BY <1>10 DEF Edited, Access
  <2>2. /\ e.logins = n.logins /\ e.databases = n.databases /\ e.users = n.users
        /\ e.grants = n.grants \ {<<d, r>>}
        /\ e = [databases |-> e.databases, users |-> e.users, grants |-> e.grants,
                logins |-> e.logins]
    BY <2>1 DEF State
  <2>3. e.grants \subseteq Databases \X Roles
    BY <1>1, <2>2
  <2> QED BY <1>1, <2>2, <2>3 DEF State
<1>11. e \in State /\ e.logins = n.logins
  BY <1>4, <1>5, <1>6, <1>7, <1>8, <1>9, <1>10 DEF Statements
<1> QED BY <1>4, <1>5, <1>6, <1>7, <1>8, <1>9, <1>10, <1>11, Zenon DEF EditIs

\* A statement that succeeds in a forward command: the entry, the copy and the
\* rest of the program.
LEMMA StatementForward ==
    ASSUME ServicesInv, Statement, ~job.undoing,
           NEW n \in State, n = job.new, NEW e, e = Edited,
           NEW d, d = job.database, NEW r \in Roles, r = job.role
    PROVE  /\ e \in State /\ state' \in State
           /\ state'.databases = IF Step = "dropDatabase" THEN Clobbered(state.databases, d)
                                 ELSE state.databases
           /\ state'.users = IF Step = "dropRole" THEN Clobbered(state.users, r)
                             ELSE state.users
           /\ state'.grants = e.grants \/ (state.grants = {} /\ state'.grants = {})
           /\ state'.logins = state.logins
           /\ Step = "rotateSQL" => job' = None
           /\ Step # "rotateSQL" =>
                /\ job' \in Job /\ job' # None /\ SameCommand(job', job)
                /\ job'.new = e /\ ~job'.undoing
                /\ \/ job'.todo = <<"save">>
                   \/ /\ Step = "dropDatabase" /\ job'.todo = <<"dropRole", "save">>
                      /\ ~granted(e.grants, r)
<1>1. job # None /\ Step \in Statements /\ state' \in Shows
  BY DEF Statement
<1>2. e \in State
  BY <1>1, EditedFields
<1>3. state \in State
  BY DEF ServicesInv, ServicesTypeOK, RecordTypeOK
<1>4. /\ state'.databases = IF Step = "dropDatabase" THEN Clobbered(state.databases, d)
                            ELSE state.databases
      /\ state'.users = IF Step = "dropRole" THEN Clobbered(state.users, r) ELSE state.users
      /\ state'.grants = e.grants \/ (state.grants = {} /\ state'.grants = {})
      /\ state'.logins = state.logins
      /\ state' = [databases |-> state'.databases, users |-> state'.users,
                   grants |-> state'.grants, logins |-> state'.logins]
  BY <1>1 DEF Shows
<1>5. state' \in State
  <2>1. state'.databases \in Seq(Databases)
    BY <1>3, <1>4, ClobberedAt DEF State
  <2>2. state'.users \in Seq(Roles)
    BY <1>3, <1>4, ClobberedAt DEF State
  <2>3. state'.grants \subseteq Databases \X Roles
    BY <1>2, <1>4 DEF State
  <2>4. state'.logins \subseteq Logins
    BY <1>3, <1>4 DEF State
  <2> QED BY <1>4, <2>1, <2>2, <2>3, <2>4 DEF State
<1>6. job \in Job
  BY <1>1, StatementDue, DatabaseJobNow
<1>7. PICK t : t = IF Step = "dropDatabase" THEN AfterDrop(e) ELSE Tail(job.todo)
  OBVIOUS
<1>8. job' = IF t = <<>> THEN None ELSE [[job EXCEPT !.new = e] EXCEPT !.todo = t]
  BY <1>7 DEF Statement, Continue
<1>9. /\ Step = "rotateSQL" => t = <<>>
      /\ Step # "rotateSQL" =>
           \/ t = <<"save">>
           \/ Step = "dropDatabase" /\ t = <<"dropRole", "save">> /\ ~granted(e.grants, r)
  <2>1. CASE Step = "dropDatabase"
    BY <1>7, <2>1 DEF AfterDrop
  <2>2. CASE Step # "dropDatabase"
    BY <1>1, <1>7, <2>2, StatementDue
  <2> QED BY <2>1, <2>2
<1>10. <<"save">> # <<>> /\ <<"dropRole", "save">> # <<>>
       /\ <<"save">> \in Seq(Steps) /\ <<"dropRole", "save">> \in Seq(Steps)
  BY DEF Steps
<1>11. ASSUME Step # "rotateSQL"
       PROVE  /\ job' \in Job /\ job' # None /\ SameCommand(job', job)
              /\ job'.new = e /\ ~job'.undoing /\ job'.todo = t
  <2>1. t # <<>> /\ t \in Seq(Steps)
    BY <1>9, <1>10, <1>11, Zenon
  <2> DEFINE i == [[job EXCEPT !.new = e] EXCEPT !.todo = t]
  <2>2. i \in Job /\ SameCommand(i, job) /\ i.new = e /\ i.todo = t /\ i.undoing = job.undoing
    BY <1>2, <1>6, <2>1 DEF Job, SameCommand
  <2>3. job' = i
    BY <1>8, <2>1
  <2> HIDE DEF i
  <2> QED BY <2>2, <2>3, NoneIsNoJob
<1> QED BY <1>2, <1>4, <1>5, <1>8, <1>9, <1>11

\* The shape of what a forward statement leaves.
LEMMA StatementShape ==
    ASSUME ServicesInv, Statement, ~job.undoing, UNCHANGED accessVars
    PROVE  ServicesTypeOK' /\ JobInv' /\ RecordInv' /\ ForwardInv' /\ LoginInv'
<1> USE DEF ServicesInv
<1>1. /\ job # None /\ Step \in Statements /\ SQL
      /\ stateFile' = stateFile /\ ops' = ops /\ faults' = faults /\ parted' = parted
      /\ lost' = lost
  BY DEF Statement, countVars
<1>2. job.op \in DatabaseOps /\ DatabaseShape(job)
  BY <1>1, StatementDue
<1>3. /\ job \in Job /\ job.new \in State /\ job.role \in Roles
      /\ job.op \notin {"createUser", "deleteUser"} => job.database \in Databases
  BY <1>1, <1>2, DatabaseJobNow
<1>4. PICK n \in State : n = job.new
  BY <1>3
<1>5. PICK e : e = Edited
  OBVIOUS
<1>6. PICK d : d = job.database
  OBVIOUS
<1>7. PICK r \in Roles : r = job.role
  BY <1>3
<1>8. e.logins = n.logins
  BY <1>1, <1>4, <1>5, <1>6, <1>7, EditedFields
<1>9. /\ state' \in State /\ state'.logins = state.logins
      /\ Step = "rotateSQL" => job' = None
      /\ Step # "rotateSQL" =>
           /\ job' \in Job /\ job' # None /\ SameCommand(job', job)
           /\ job'.new = e /\ ~job'.undoing
           /\ \/ job'.todo = <<"save">>
              \/ Step = "dropDatabase" /\ job'.todo = <<"dropRole", "save">>
  BY <1>4, <1>5, <1>6, <1>7, StatementForward
<1>10. ServicesTypeOK'
  <2>1. RecordTypeOK'
    BY <1>1, <1>9 DEF ServicesTypeOK, RecordTypeOK
  <2>2. databases' \subseteq Databases
    <3>1. Step = "createSQL" => d \in Databases
      BY <1>1, <1>3, <1>6, StatementDue
    <3>2. databases' = databases \/ databases' = databases \ {d}
            \/ (Step = "createSQL" /\ databases' = databases \cup {d})
      BY <1>1, <1>6 DEF SQL
    <3> QED BY <3>1, <3>2 DEF ServicesTypeOK, DatabaseTypeOK
  <2>3. roles' \subseteq Roles
    <3>1. roles' = roles \/ roles' = roles \ {r} \/ roles' = roles \cup {r}
      BY <1>1, <1>7 DEF SQL
    <3> QED BY <3>1 DEF ServicesTypeOK, DatabaseTypeOK
  <2>4. privileges' \subseteq Databases \X Roles
    <3>1. Step \in {"createSQL", "grantSQL"} => d \in Databases
      BY <1>1, <1>3, <1>6, StatementDue
    <3>2. \/ privileges' \subseteq privileges
          \/ Step \in {"createSQL", "grantSQL"} /\ privileges' = privileges \cup {<<d, r>>}
      BY <1>1, <1>6, <1>7 DEF SQL, Access
    <3> QED BY <3>1, <3>2 DEF ServicesTypeOK, DatabaseTypeOK
  <2> QED
    BY <1>1, <2>1, <2>2, <2>3, <2>4
       DEF ServicesTypeOK, DatabaseTypeOK, AccessTypeOK, accessVars, hostVars
<1>11. job' # None => job'.op = job.op
  BY <1>9 DEF SameCommand
<1>12. JobInv'
  <2>1. job' # None => DatabaseShape(job)'
    <3> SUFFICES ASSUME job' # None PROVE DatabaseShape(job)'
      OBVIOUS
    <3>1. /\ job'.op = job.op /\ job'.role = job.role /\ job'.database = job.database
          /\ ~job'.undoing /\ Step # "rotateSQL"
          /\ \/ job'.todo = <<"save">>
             \/ Step = "dropDatabase" /\ job'.todo = <<"dropRole", "save">>
      BY <1>9 DEF SameCommand
    <3>2. job.op # "rotate" /\ (Step = "dropDatabase" => job.op = "delete")
      BY <1>1, <3>1, StatementDue
    <3>3. /\ job'.role \in Roles
          /\ job'.op \notin {"createUser", "deleteUser"} => job'.database \in Databases
      BY <1>3, <3>1
    <3>4. \/ job'.todo = <<"save">>
          \/ job'.op = "delete" /\ job'.todo = <<"dropRole", "save">>
      BY <3>1, <3>2
    <3> QED BY <3>1, <3>2, <3>3, <3>4, Zenon DEF DatabaseShape
  <2> QED BY <1>2, <1>11, <2>1 DEF JobInv, DatabaseOps, AccessOps
<1>13. RecordInv'
  <2>1. n.logins = state.logins
    BY <1>1, <1>4 DEF RecordInv
  <2>2. job' # None => job'.new = e
    BY <1>9
  <2> QED
    BY <1>1, <1>2, <1>8, <1>9, <1>11, <2>1, <2>2 DEF RecordInv, DatabaseOps, AccessOps
<1>14. ForwardInv' /\ LoginInv'
  BY <1>1, <1>2, <1>9, <1>11, DatabaseStepLogins
<1> QED BY <1>10, <1>12, <1>13, <1>14

\* What a forward statement does to the access that is promised.
LEMMA StatementAccess ==
    ASSUME ServicesInv, Statement, ~job.undoing, ServicesTypeOK'
    PROVE  (GrantsWork /\ GrantsToUsers /\ RecordedExist /\ CommandFacts)'
<1> USE DEF ServicesInv
<1>1. job # None /\ Step \in Statements /\ SQL /\ Accepts /\ parted' = parted /\ lost' = lost
      /\ stateFile' = stateFile
  BY DEF Statement, countVars
<1>2. job.op \in DatabaseOps
  BY <1>1, StatementDue
<1>3. job.new \in State /\ job.role \in Roles
  BY <1>1, <1>2, DatabaseJobNow
<1>4. PICK n \in State : n = job.new
  BY <1>3
<1>5. PICK e : e = Edited
  OBVIOUS
<1>6. PICK d : d = job.database
  OBVIOUS
<1>7. PICK r \in Roles : r = job.role
  BY <1>3
<1>8. PICK s : s = Step
  OBVIOUS
<1>9. PICK op : op = job.op
  OBVIOUS
<1>10. /\ GrantsWork /\ GrantsToUsers /\ RecordedExist /\ CommandFacts
       /\ Works(state.grants) /\ Works(n.grants) /\ ToUsers(n) /\ ToUsers(stateFile)
  BY <1>1, <1>4 DEF DatabaseInv, GrantsWork, GrantsToUsers
<1>11. ToUsers(state)
  <2>1. job.todo # <<"save">>
    <3>1. Head(<<"save">>) = "save"
      OBVIOUS
    <3> QED BY <1>1, <3>1 DEF Step, Statements
  <2> QED BY <1>10, <2>1 DEF GrantsToUsers
<1>12. /\ n.databases \in Seq(Databases) /\ n.users \in Seq(Roles)
       /\ n.grants \subseteq Databases \X Roles
       /\ state.databases \in Seq(Databases) /\ state.users \in Seq(Roles)
       /\ state.grants \subseteq Databases \X Roles
  BY DEF State, ServicesTypeOK, RecordTypeOK
<1>13. /\ \A x \in Databases : contains(n.databases, x) => x \in databases \cup parted
       /\ \A x \in Databases : contains(state.databases, x) \/ contains(stateFile.databases, x)
             => x \in databases \cup parted \/ (op = "delete" /\ s # "dropDatabase" /\ x = d)
  BY <1>1, <1>4, <1>6, <1>8, <1>9, <1>10 DEF RecordedExist, Dropping
<1>14. ~(op = "delete" /\ s = "dropRole") => n = state
  BY <1>1, <1>4, <1>8, <1>9, <1>10 DEF CommandFacts, Fresh, Step
<1>15. e \in State /\ EditIs(e, n, d, r, s, op)
  BY <1>1, <1>4, <1>5, <1>6, <1>7, <1>8, <1>9, EditedFields
<1>16. /\ state'.databases = IF s = "dropDatabase" THEN Clobbered(state.databases, d)
                             ELSE state.databases
       /\ state'.users = IF s = "dropRole" THEN Clobbered(state.users, r) ELSE state.users
       /\ state'.grants = e.grants \/ (state.grants = {} /\ state'.grants = {})
       /\ s = "rotateSQL" => job' = None
       /\ s # "rotateSQL" =>
            /\ job' # None /\ job'.op = op /\ job'.database = d /\ job'.role = r
            /\ job'.new = e /\ ~job'.undoing
            /\ \/ job'.todo = <<"save">>
               \/ /\ s = "dropDatabase" /\ job'.todo = <<"dropRole", "save">>
                  /\ ~granted(e.grants, r)
  BY <1>4, <1>5, <1>6, <1>7, <1>8, <1>9, StatementForward DEF SameCommand
<1>17. Head(<<"save">>) = "save" /\ Head(<<"dropRole", "save">>) = "dropRole"
  OBVIOUS
<1>18. /\ s # "rotateSQL" /\ s # "dropDatabase" => Step' = "save"
       /\ s = "dropDatabase" =>
            Step' = "save" \/ (Step' = "dropRole" /\ ~granted(e.grants, r))
  BY <1>16, <1>17 DEF Step
<1>19. \/ op = "create" /\ s = "createSQL"
       \/ op = "rotate" /\ s = "rotateSQL"
       \/ op = "delete" /\ s = "dropDatabase"
       \/ op = "delete" /\ s = "dropRole"
       \/ op = "createUser" /\ s = "createUserSQL"
       \/ op = "deleteUser" /\ s = "dropRole"
       \/ op = "grant" /\ s = "grantSQL"
       \/ op = "revoke" /\ s = "revokeSQL"
  BY <1>1, <1>8, <1>9, StatementDue
<1>20. op \in {"create", "delete", "grant", "revoke"} => d \in Databases
  BY <1>1, <1>2, <1>6, <1>9, DatabaseJobNow
\* The databases of the file only go by a deletion.
<1>20a. ASSUME s # "dropDatabase" => databases \subseteq databases',
               s = "dropDatabase" => databases' = databases \ {d} /\ op = "delete"
        PROVE  \A x \in Databases : contains(stateFile.databases, x) =>
                  x \in databases' \cup parted' \/ (op = "delete" /\ x = d)
  BY <1>1, <1>13, <1>20a
\* It is enough to look at the grants and the databases of the two entries.
<1>21. ASSUME s # "rotateSQL", Works(e.grants)', Works(state.grants)', ToUsers(e),
              op # "create" => ToUsers(state)',
              \A x \in Databases : contains(e.databases, x) => x \in databases' \cup parted',
              \A x \in Databases : contains(state'.databases, x) =>
                 x \in databases' \cup parted' \/ (op = "delete" /\ x = d),
              s # "dropDatabase" => databases \subseteq databases',
              s = "dropDatabase" => databases' = databases \ {d} /\ op = "delete",
              op = "createUser" => NoneOf(state'.grants \cup e.grants, r),
              op \in {"create", "grant"} =>
                 /\ r \in roles' /\ <<d, r>> \in privileges'
                 /\ d \in databases' \cup parted' /\ contains(e.users, r),
              op = "create" => d \in databases' /\ OthersToUsers(state, r)',
              op = "delete" =>
                 (\A g \in e.grants : g[1] # d) /\ ~contains(e.databases, d),
              op = "delete" /\ Step' = "dropRole" =>
                 (\A g \in e.grants : g[2] # r) /\ state'.users = e.users,
              op = "deleteUser" => \A g \in e.grants : g[2] # r,
              op = "revoke" => <<d, r>> \notin e.grants
       PROVE  (GrantsWork /\ GrantsToUsers /\ RecordedExist /\ CommandFacts)'
  <2>1. /\ job' # None /\ job'.op = op /\ job'.database = d /\ job'.role = r
        /\ job'.new = e /\ ~job'.undoing
    BY <1>16, <1>21
  <2>2. Step' # "dropDatabase" /\ (Step' = "save" \/ (op = "delete" /\ Step' = "dropRole"))
    BY <1>18, <1>19, <1>21
  <2>3. GrantsWork'
    BY <1>21, <2>1 DEF GrantsWork, Works
  <2>4. op = "create" => job'.todo = <<"save">>
    BY <1>16, <1>19, <1>21
  <2>5. GrantsToUsers'
    BY <1>1, <1>10, <1>21, <2>1, <2>4 DEF GrantsToUsers, ToUsers
  <2>6. RecordedExist'
    BY <1>1, <1>20a, <1>21, <2>1, <2>2 DEF RecordedExist, Dropping
  <2>7. ~Fresh(job)'
    BY <2>1, <2>2 DEF Fresh, Step, Statements
  <2>8. op = "createUser" =>
           NoneOf(state.grants, job.role)' /\ NoneOf(job.new.grants, job.role)'
    BY <1>1, <1>21, <2>1 DEF NoneOf
  <2>9. op \in {"create", "grant"} => Given'
    BY <1>21, <2>1 DEF Given, Access
  <2>10. op = "revoke" => Access' \notin job'.new.grants
    BY <1>21, <2>1 DEF Access
  <2>11. op = "delete" /\ Step' = "dropRole" =>
           \A g \in state'.grants \cup e.grants : g[2] # r
    <3>1. state'.grants \subseteq e.grants
      BY <1>16
    <3> QED BY <1>21, <3>1
  <2>11a. op = "create" => OthersToUsers(state, job.role)'
    BY <1>21, <2>1 DEF OthersToUsers
  <2>12. CommandFacts'
    BY <1>21, <2>1, <2>2, <2>7, <2>8, <2>9, <2>10, <2>11, <2>11a DEF CommandFacts
  <2> QED BY <2>3, <2>5, <2>6, <2>12
<1>22. CASE s = "createSQL"
  <2>1. op = "create" /\ d \in Databases /\ n = state
    BY <1>14, <1>19, <1>20, <1>22
  <2>2. /\ databases' = databases \cup {d} /\ roles' = roles \cup {r}
        /\ privileges' = privileges \cup {<<d, r>>}
    BY <1>1, <1>6, <1>7, <1>8, <1>22 DEF SQL, Access
  <2>3. e.grants = n.grants \cup {<<d, r>>} /\ state'.grants \subseteq e.grants
    BY <1>15, <1>16, <1>22 DEF EditIs
  <2>4. Works(e.grants)' /\ Works(state.grants)'
    BY <1>1, <1>10, <2>2, <2>3 DEF Works
  <2>5. /\ \A y : contains(e.databases, y) <=> contains(n.databases, y) \/ y = d
        /\ \A y : contains(e.users, y) <=> contains(n.users, y) \/ y = r
    <3>1. e.databases = Append(n.databases, d) /\ e.users = appendUnique(n.users, r)
      BY <1>15, <1>22 DEF EditIs
    <3>2. \A y : contains(Append(n.databases, d), y) <=> contains(n.databases, y) \/ y = d
      BY <1>12, <2>1, AppendContains
    <3>3. \A y : contains(appendUnique(n.users, r), y) <=> contains(n.users, y) \/ y = r
      BY <1>12, AppendContains
    <3> QED BY <3>1, <3>2, <3>3, Zenon
  <2>6. ToUsers(e)
    BY <1>10, <2>3, <2>5 DEF ToUsers
  <2>7. \A x \in Databases : contains(e.databases, x) => x \in databases' \cup parted'
    BY <1>1, <1>13, <2>2, <2>5
  <2>8. \A x \in Databases : contains(state'.databases, x) => x \in databases' \cup parted'
    BY <1>1, <1>13, <1>16, <1>22, <2>1, <2>2
  <2>9. OthersToUsers(state, r)'
    <3>1. state'.users = state.users
      BY <1>16, <1>22
    <3> QED BY <1>1, <1>11, <2>1, <2>3, <3>1 DEF OthersToUsers, ToUsers
  <2> QED BY <1>21, <1>22, <2>1, <2>2, <2>4, <2>5, <2>6, <2>7, <2>8, <2>9
<1>23. CASE s = "rotateSQL"
  <2>1. op = "rotate" /\ n = state /\ e = n /\ job' = None
    BY <1>14, <1>15, <1>16, <1>19, <1>23 DEF EditIs
  <2>2. /\ databases' = databases /\ roles' = roles \cup {r} /\ privileges' = privileges
        /\ state'.grants = state.grants /\ state'.users = state.users
        /\ state'.databases = state.databases
    BY <1>1, <1>7, <1>8, <1>16, <1>23, <2>1 DEF SQL
  <2>3. GrantsWork'
    BY <1>1, <1>10, <2>1, <2>2 DEF GrantsWork, Works
  <2>4. GrantsToUsers'
    BY <1>1, <1>10, <1>11, <2>1, <2>2 DEF GrantsToUsers, ToUsers
  <2>5. RecordedExist' /\ CommandFacts'
    BY <1>1, <1>13, <2>1, <2>2 DEF RecordedExist, CommandFacts
  <2> QED BY <2>3, <2>4, <2>5
<1>24. CASE s = "createUserSQL"
  <2>1. op = "createUser" /\ n = state
    BY <1>14, <1>19, <1>24
  <2>2. databases' = databases /\ roles' = roles \cup {r} /\ privileges' = privileges
    BY <1>1, <1>7, <1>8, <1>24 DEF SQL
  <2>3. /\ e.grants = n.grants /\ state'.grants = n.grants /\ state'.users = state.users
        /\ state'.databases = state.databases /\ e.databases = n.databases
    BY <1>15, <1>16, <1>24, <2>1 DEF EditIs
  <2>4. Works(e.grants)' /\ Works(state.grants)'
    BY <1>1, <1>10, <2>2, <2>3 DEF Works
  <2>5. \A y : contains(e.users, y) <=> contains(n.users, y) \/ y = r
    <3>1. e.users = appendUnique(n.users, r)
      BY <1>15, <1>24 DEF EditIs
    <3>2. \A y : contains(appendUnique(n.users, r), y) <=> contains(n.users, y) \/ y = r
      BY <1>12, AppendContains
    <3> QED BY <3>1, <3>2, Zenon
  <2>6. ToUsers(e) /\ ToUsers(state)'
    BY <1>1, <1>10, <1>11, <2>1, <2>3, <2>5 DEF ToUsers
  <2>7. NoneOf(state'.grants \cup e.grants, r)
    BY <1>1, <1>4, <1>7, <1>9, <1>10, <2>1, <2>3 DEF CommandFacts, NoneOf
  <2>8. /\ \A x \in Databases : contains(e.databases, x) => x \in databases' \cup parted'
        /\ \A x \in Databases : contains(state'.databases, x) => x \in databases' \cup parted'
    BY <1>1, <1>13, <2>1, <2>2, <2>3
  <2> QED BY <1>21, <1>24, <2>1, <2>2, <2>3, <2>4, <2>6, <2>7, <2>8
<1>25. CASE s = "dropDatabase"
  <2>1. op = "delete" /\ d \in Databases /\ n = state
    BY <1>14, <1>19, <1>20, <1>25
  <2>2. databases' = databases \ {d} /\ roles' = roles /\ privileges' = privileges
    BY <1>1, <1>6, <1>8, <1>25 DEF SQL
  <2>3. /\ e.grants = {g \in n.grants : g[1] # d} /\ state'.grants = e.grants
        /\ e.users = n.users /\ state'.users = n.users
    BY <1>15, <1>16, <1>25, <2>1 DEF EditIs
  <2>4. Works(e.grants)' /\ Works(state.grants)'
    BY <1>1, <1>10, <2>2, <2>3 DEF Works
  <2>5. ToUsers(e) /\ ToUsers(state)'
    BY <1>1, <1>10, <2>3 DEF ToUsers
  <2>6. e.databases = remove(n.databases, d) /\ state'.databases = Clobbered(n.databases, d)
    BY <1>15, <1>16, <1>25, <2>1 DEF EditIs
  <2>7. ASSUME NEW x
        PROVE  /\ contains(e.databases, x) <=> contains(n.databases, x) /\ x # d
               /\ contains(state'.databases, x) => contains(n.databases, x)
    BY <1>12, <2>6, RemoveContains
  <2>8. \A x \in Databases : contains(n.databases, x) => x \in databases \cup parted
    BY <1>13
  <2>9. \A x \in Databases : contains(e.databases, x) => x \in databases' \cup parted'
    BY <1>1, <2>2, <2>7, <2>8
  <2>10. \A x \in Databases : contains(state'.databases, x) =>
             x \in databases' \cup parted' \/ x = d
    BY <1>1, <2>2, <2>7, <2>8
  <2>11. ~contains(e.databases, d) /\ \A g \in e.grants : g[1] # d
    BY <2>3, <2>7
  <2>12. Step' = "dropRole" => \A g \in e.grants : g[2] # r
    <3> SUFFICES ASSUME Step' = "dropRole", NEW g \in e.grants, g[2] = r PROVE FALSE
      OBVIOUS
    <3>1. g \in Databases \X Roles
      BY <1>12, <2>3
    <3>2. g[1] \in Databases /\ g = <<g[1], r>>
      BY <3>1
    <3>3. granted(e.grants, r)
      BY <3>2 DEF granted
    <3> QED BY <1>18, <1>25, <3>3
  <2> QED BY <1>21, <1>25, <2>1, <2>2, <2>3, <2>4, <2>5, <2>9, <2>10, <2>11, <2>12
<1>26. CASE op = "delete" /\ s = "dropRole"
  <2>1. /\ \A g \in n.grants : g[2] # r
        /\ \A g \in n.grants : g[1] # d
        /\ state.users = n.users /\ ~contains(n.databases, d)
    BY <1>1, <1>4, <1>6, <1>7, <1>8, <1>9, <1>10, <1>26 DEF CommandFacts
  <2>2. /\ databases' = databases /\ roles' = roles \ {r}
        /\ privileges' = {p \in privileges : p[2] # r}
    BY <1>1, <1>7, <1>8, <1>26 DEF SQL
  <2>3. /\ e.grants = n.grants /\ state'.grants \subseteq n.grants
        /\ e.users = remove(n.users, r) /\ state'.users = Clobbered(n.users, r)
        /\ e.databases = n.databases /\ state'.databases = state.databases
    BY <1>15, <1>16, <1>26, <2>1 DEF EditIs
  <2>4. Works(e.grants)' /\ Works(state.grants)'
    BY <1>1, <1>10, <2>1, <2>2, <2>3 DEF Works
  <2>5. ASSUME NEW y
        PROVE  contains(n.users, y) /\ y # r => contains(e.users, y) /\ contains(state'.users, y)
    BY <1>12, <2>3, RemoveContains
  <2>6. ToUsers(e) /\ ToUsers(state)'
    BY <1>1, <1>10, <2>1, <2>3, <2>5 DEF ToUsers
  <2>7. /\ \A x \in Databases : contains(e.databases, x) => x \in databases' \cup parted'
        /\ \A x \in Databases : contains(state'.databases, x) =>
              x \in databases' \cup parted' \/ x = d
    BY <1>1, <1>13, <2>2, <2>3
  <2>8. Step' # "dropRole"
    BY <1>18, <1>26
  <2> QED BY <1>21, <1>26, <2>1, <2>2, <2>3, <2>4, <2>6, <2>7, <2>8
<1>27. CASE op = "deleteUser" /\ s = "dropRole"
  <2>1. n = state
    BY <1>14, <1>27
  <2>2. /\ databases' = databases /\ roles' = roles \ {r}
        /\ privileges' = {p \in privileges : p[2] # r}
    BY <1>1, <1>7, <1>8, <1>27 DEF SQL
  <2>3. /\ e.grants = {g \in n.grants : g[2] # r} /\ state'.grants = e.grants
        /\ e.users = remove(n.users, r) /\ state'.users = Clobbered(n.users, r)
        /\ e.databases = n.databases /\ state'.databases = n.databases
    BY <1>15, <1>16, <1>27, <2>1 DEF EditIs
  <2>4. Works(e.grants)' /\ Works(state.grants)'
    BY <1>1, <1>10, <2>2, <2>3 DEF Works
  <2>5. ASSUME NEW y
        PROVE  contains(n.users, y) /\ y # r => contains(e.users, y) /\ contains(state'.users, y)
    BY <1>12, <2>3, RemoveContains
  <2>6. ToUsers(e) /\ ToUsers(state)'
    BY <1>1, <1>10, <2>3, <2>5 DEF ToUsers
  <2>7. /\ \A x \in Databases : contains(e.databases, x) => x \in databases' \cup parted'
        /\ \A x \in Databases : contains(state'.databases, x) => x \in databases' \cup parted'
    BY <1>1, <1>13, <2>2, <2>3
  <2> QED BY <1>21, <1>27, <2>2, <2>3, <2>4, <2>6, <2>7
<1>28. CASE s = "grantSQL"
  <2>1. op = "grant" /\ d \in Databases /\ n = state
    BY <1>14, <1>19, <1>20, <1>28
  <2>2. r \in roles
    BY <1>1, <1>7, <1>8, <1>28 DEF Accepts
  <2>3. contains(state.databases, d) /\ contains(state.users, r)
    BY <1>1, <1>6, <1>7, <1>8, <1>9, <1>10, <1>28, <2>1 DEF CommandFacts, pair
  <2>4. databases' = databases /\ roles' = roles /\ privileges' = privileges \cup {<<d, r>>}
    BY <1>1, <1>6, <1>7, <1>8, <1>28 DEF SQL, Access
  <2>5. /\ e.grants = n.grants \cup {<<d, r>>} /\ state'.grants \subseteq e.grants
        /\ e.users = n.users /\ state'.users = n.users
        /\ e.databases = n.databases /\ state'.databases = n.databases
    BY <1>15, <1>16, <1>28, <2>1 DEF EditIs
  <2>6. d \in databases \cup parted
    BY <1>13, <2>1, <2>3
  <2>7. Works(e.grants)' /\ Works(state.grants)'
    BY <1>1, <1>10, <2>2, <2>4, <2>5, <2>6 DEF Works
  <2>8. ToUsers(e) /\ ToUsers(state)'
    BY <1>1, <1>10, <2>1, <2>3, <2>5 DEF ToUsers
  <2>9. /\ \A x \in Databases : contains(e.databases, x) => x \in databases' \cup parted'
        /\ \A x \in Databases : contains(state'.databases, x) => x \in databases' \cup parted'
    BY <1>1, <1>13, <2>4, <2>5
  <2> QED BY <1>1, <1>21, <1>28, <2>1, <2>2, <2>3, <2>4, <2>5, <2>6, <2>7, <2>8, <2>9
<1>29. CASE s = "revokeSQL"
  <2>1. op = "revoke" /\ n = state
    BY <1>14, <1>19, <1>29
  <2>2. databases' = databases /\ roles' = roles /\ privileges' = privileges \ {<<d, r>>}
    BY <1>1, <1>6, <1>7, <1>8, <1>29 DEF SQL, Access
  <2>3. /\ e.grants = n.grants \ {<<d, r>>} /\ state'.grants = e.grants
        /\ e.users = n.users /\ state'.users = n.users
        /\ e.databases = n.databases /\ state'.databases = n.databases
    BY <1>15, <1>16, <1>29, <2>1 DEF EditIs
  <2>4. Works(e.grants)' /\ Works(state.grants)'
    BY <1>1, <1>10, <2>2, <2>3 DEF Works
  <2>5. ToUsers(e) /\ ToUsers(state)'
    BY <1>1, <1>10, <2>3 DEF ToUsers
  <2>6. /\ \A x \in Databases : contains(e.databases, x) => x \in databases' \cup parted'
        /\ \A x \in Databases : contains(state'.databases, x) => x \in databases' \cup parted'
    BY <1>1, <1>13, <2>2, <2>3
  <2> QED BY <1>21, <1>29, <2>1, <2>2, <2>3, <2>4, <2>5, <2>6
<1> QED BY <1>19, <1>22, <1>23, <1>24, <1>25, <1>26, <1>27, <1>28, <1>29

\* The rollback of a database command: what is left of it.
LEMMA RollbackDue ==
    ASSUME ServicesInv, job # None, Step \in Statements, job.undoing
    PROVE  /\ job.op \in {"create", "createUser"} /\ job.op \in DatabaseOps
           /\ \/ job.op = "create" /\ Step = "dropDatabase" /\ Tail(job.todo) = <<"dropRole">>
              \/ Step = "dropRole" /\ Tail(job.todo) = <<>>
<1>1. job.op \in DatabaseOps
  BY AccessSteps, JobTyped DEF ServicesInv
<1>2. DatabaseShape(job) /\ job.undoing \in BOOLEAN
  BY <1>1, DatabaseJobNow
<1>3. Step = Head(job.todo)
  BY DEF Step
<1> QED BY <1>1, <1>2, <1>3, DatabasePrograms

\* A rollback step that is done, or skipped because it failed.
LEMMA RollbackContinues ==
    ASSUME ServicesInv, job # None, Step \in Statements, job.undoing,
           job' = IF Tail(job.todo) = <<>> THEN None ELSE [job EXCEPT !.todo = Tail(job.todo)]
    PROVE  /\ JobInv'
           /\ \/ job' = None
              \/ /\ job' \in Job /\ job' # None /\ SameCommand(job', job)
                 /\ job'.undoing /\ job.op = "create"
<1>1. /\ job.op \in {"create", "createUser"} /\ job.op \in DatabaseOps
      /\ \/ job.op = "create" /\ Tail(job.todo) = <<"dropRole">>
         \/ Tail(job.todo) = <<>>
  BY RollbackDue
<1>2. /\ job \in Job /\ job.role \in Roles /\ DatabaseShape(job)
      /\ job.op = "create" => job.database \in Databases
  BY <1>1, DatabaseJobNow
<1>3. CASE Tail(job.todo) = <<>>
  BY <1>3 DEF JobInv
<1>4. CASE job.op = "create" /\ Tail(job.todo) = <<"dropRole">>
  <2>1. PICK t : t = <<"dropRole">>
    OBVIOUS
  <2>2. t # <<>> /\ t \in Seq(Steps)
    BY <2>1 DEF Steps
  <2>3. job' = [job EXCEPT !.todo = t]
    BY <1>4, <2>1, <2>2
  <2>4. /\ job' \in Job /\ SameCommand(job', job)
        /\ job'.todo = t /\ job'.undoing = job.undoing
    BY <1>2, <2>2, <2>3 DEF Job, SameCommand
  <2>5. job'.op = "create" /\ job'.role \in Roles /\ job'.database \in Databases /\ job'.undoing
    BY <1>2, <1>4, <2>4 DEF SameCommand
  <2>6. DatabaseShape(job)'
    BY <2>1, <2>4, <2>5, Zenon DEF DatabaseShape
  <2>7. JobInv'
    BY <2>5, <2>6 DEF JobInv, AccessOps
  <2> QED BY <1>4, <2>4, <2>5, <2>7, NoneIsNoJob
<1> QED BY <1>1, <1>3, <1>4

\* A rollback takes only what its command has put in lost, or never had.
LEMMA RollbackKeepsAccess ==
    ASSUME ServicesInv, job # None, Step \in Statements, job.undoing,
           UNCHANGED <<state, stateFile, parted>>, lost \subseteq lost',
           databases \ {job.database} \subseteq databases',
           job.op = "createUser" => databases \subseteq databases',
           roles \ {job.role} \subseteq roles',
           {p \in privileges : p[2] # job.role} \subseteq privileges',
           \/ job' = None
           \/ SameCommand(job', job) /\ job'.undoing /\ job.op = "create"
    PROVE  DatabaseInv'
<1> USE DEF ServicesInv, DatabaseInv
<1>1. PICK r : r = job.role
  OBVIOUS
<1>2. PICK d : d = job.database
  OBVIOUS
<1>3. /\ job.op \in {"create", "createUser"} /\ NoneOf(state.grants, r)
      /\ job.op = "create" => d \in parted
  BY <1>1, <1>2, RollbackDue DEF CommandFacts
<1>4. \A x : x \in databases \cup parted => x \in databases' \cup parted'
  BY <1>2, <1>3
<1>5. GrantsWork'
  <2>1. Works(state.grants)'
    <3> SUFFICES ASSUME NEW g \in state'.grants \ lost'
                 PROVE  g[2] \in roles' /\ g \in privileges' /\ g[1] \in databases' \cup parted'
      BY DEF Works
    <3>1. g \in state.grants \ lost
      OBVIOUS
    <3>2. g[2] # r /\ g[2] \in roles /\ g \in privileges /\ g[1] \in databases \cup parted
      BY <1>3, <3>1 DEF GrantsWork, Works, NoneOf
    <3> QED BY <1>1, <1>4, <3>2
  <2> QED BY <2>1 DEF GrantsWork
<1>6. GrantsToUsers'
  <2>1. job.todo # <<"save">>
    <3>1. Head(<<"save">>) = "save"
      OBVIOUS
    <3> QED BY <3>1 DEF Step, Statements
  <2>2. ToUsers(state) /\ ToUsers(stateFile)
    BY <2>1 DEF GrantsToUsers
  <2>3. ToUsers(state)' /\ ToUsers(stateFile)'
    BY <2>2 DEF ToUsers
  <2> QED BY <2>3 DEF GrantsToUsers
<1>7. RecordedExist'
  <2>1. \A x : ~Dropping(x)
    BY <1>3 DEF Dropping
  <2> QED BY <1>4, <2>1 DEF RecordedExist
<1>8. CommandFacts'
  <2>1. job' # None => job'.op = "create" /\ job'.undoing /\ job'.role = r /\ job'.database = d
    BY <1>1, <1>2 DEF SameCommand
  <2>2. NoneOf(state.grants, r)'
    BY <1>3 DEF NoneOf
  <2>3. NoneOf(state.grants, r)'
    BY <2>2 DEF NoneOf
  <2> QED BY <1>3, <2>1, <2>3 DEF CommandFacts, NoneOf
<1> QED BY <1>5, <1>6, <1>7, <1>8

LEMMA StatementUndoes ==
    ASSUME ServicesInv, Statement, job.undoing, UNCHANGED accessVars
    PROVE  ServicesInv'
<1> USE DEF ServicesInv
<1>1. /\ job # None /\ Step \in Statements /\ SQL /\ state' = state
      /\ stateFile' = stateFile /\ ops' = ops /\ faults' = faults /\ parted' = parted
      /\ lost' = lost
      /\ job' = IF Tail(job.todo) = <<>> THEN None ELSE [job EXCEPT !.todo = Tail(job.todo)]
  BY DEF Statement, countVars, Continue
<1>2. /\ job.op \in {"create", "createUser"} /\ job.op \in DatabaseOps
      /\ \/ job.op = "create" /\ Step = "dropDatabase" /\ Tail(job.todo) = <<"dropRole">>
         \/ Step = "dropRole" /\ Tail(job.todo) = <<>>
  BY <1>1, RollbackDue
<1>3. /\ JobInv'
      /\ \/ job' = None
         \/ /\ job' \in Job /\ job' # None /\ SameCommand(job', job)
            /\ job'.undoing /\ job.op = "create"
  BY <1>1, RollbackContinues
<1>4. /\ databases' \subseteq databases /\ roles' \subseteq roles
      /\ privileges' \subseteq privileges
  BY <1>1, <1>2 DEF SQL
<1>5. ServicesTypeOK'
  <2>1. RecordTypeOK'
    BY <1>1, <1>3 DEF ServicesTypeOK, RecordTypeOK
  <2> QED
    BY <1>1, <1>4, <2>1 DEF ServicesTypeOK, DatabaseTypeOK, AccessTypeOK, accessVars, hostVars
<1>6. RecordInv'
  BY <1>1, <1>3 DEF RecordInv
<1>7. ForwardInv' /\ LoginInv'
  BY <1>1, <1>2, <1>3, DatabaseStepLogins DEF SameCommand
<1>8. DatabaseInv'
  <2>1. /\ databases \ {job.database} \subseteq databases'
        /\ job.op = "createUser" => databases \subseteq databases'
        /\ roles \ {job.role} \subseteq roles'
        /\ {p \in privileges : p[2] # job.role} \subseteq privileges'
    BY <1>1, <1>2 DEF SQL
  <2> QED BY <1>1, <1>3, <2>1, RollbackKeepsAccess
<1> QED BY <1>3, <1>5, <1>6, <1>7, <1>8

LEMMA StatementKeeps ==
    ASSUME ServicesInv, Statement, UNCHANGED accessVars
    PROVE  ServicesInv'
<1>1. CASE job.undoing
  BY <1>1, StatementUndoes
<1>2. CASE ~job.undoing
  <2>1. ServicesTypeOK' /\ JobInv' /\ RecordInv' /\ ForwardInv' /\ LoginInv'
    BY <1>2, StatementShape
  <2>2. parted' = parted
    BY DEF Statement, countVars
  <2>3. DatabaseInv'
    BY <1>2, <2>1, <2>2, StatementAccess DEF DatabaseInv
  <2> QED BY <2>1, <2>3 DEF ServicesInv
<1> QED BY <1>1, <1>2

LEMMA StatementFailsKeeps ==
    ASSUME ServicesInv, StatementFails, UNCHANGED accessVars
    PROVE  ServicesInv'
<1> USE DEF ServicesInv
<1>1. /\ job # None /\ Step \in Statements /\ state' = state /\ stateFile' = stateFile
      /\ ops' = ops
      /\ parted' = IF job.op = "delete" /\ Step = "dropRole"
                   THEN parted \cup {job.database} ELSE parted
  BY DEF StatementFails, recordVars
<1>2. job.op \in DatabaseOps
  BY <1>1, StatementDue, RollbackDue
<1>3. /\ job \in Job /\ job.role \in Roles /\ job.undoing \in BOOLEAN
      /\ job.op \notin {"createUser", "deleteUser"} => job.database \in Databases
  BY <1>1, <1>2, DatabaseJobNow
<1>4. /\ ~job.undoing => job' = None
      /\ job.undoing =>
           job' = IF Tail(job.todo) = <<>> THEN None ELSE [job EXCEPT !.todo = Tail(job.todo)]
  <2>1. GiveUp(IF job.undoing THEN Tail(job.todo) ELSE <<>>)
    BY DEF StatementFails
  <2>2. job.undoing => [job EXCEPT !.undoing = TRUE] = job
    BY <1>3 DEF Job
  <2> QED BY <2>1, <2>2 DEF GiveUp, Continue
<1>5. /\ JobInv'
      /\ \/ job' = None
         \/ /\ job' \in Job /\ job' # None /\ SameCommand(job', job)
            /\ job'.undoing /\ job.op = "create" /\ job.undoing
  <2>1. CASE job.undoing
    BY <1>1, <1>4, <2>1, RollbackContinues
  <2>2. CASE ~job.undoing
    BY <1>4, <2>2 DEF JobInv
  <2> QED BY <2>1, <2>2
<1>6. /\ databases' \subseteq Databases /\ roles' \subseteq Roles
      /\ privileges' \subseteq privileges /\ lost' \subseteq Databases \X Roles
      /\ lost \subseteq lost'
      /\ \/ databases \subseteq databases' /\ roles \subseteq roles' /\ privileges' = privileges
         \/ /\ Step \in {"dropRole", "revokeSQL"} /\ Accepts /\ SQL
            /\ lost' = lost \cup Taken
  <2>1. Step = "createSQL" => job.database \in Databases
    <3>1. Step = "createSQL" => job.op = "create"
      BY <1>1, <1>3, StatementDue, RollbackDue
    <3> QED BY <1>3, <3>1
  <2>2. /\ databases \subseteq Databases /\ roles \subseteq Roles
        /\ lost \subseteq Databases \X Roles
    BY DEF ServicesTypeOK, DatabaseTypeOK
  <2>3. CASE UNCHANGED serverVars
    BY <2>2, <2>3 DEF serverVars
  <2>4. CASE /\ Step \in {"createSQL", "rotateSQL", "createUserSQL"}
             /\ roles' = roles \cup {job.role}
             /\ \/ UNCHANGED databases
                \/ Step = "createSQL" /\ databases' = databases \cup {job.database}
             /\ UNCHANGED <<privileges, lost>>
    BY <1>3, <2>1, <2>2, <2>4
  <2>5. CASE Step \in {"dropRole", "revokeSQL"} /\ Accepts /\ SQL /\ lost' = lost \cup Taken
    <3>1. Taken \subseteq Databases \X Roles
      BY <1>3 DEF Taken, Access
    <3>2. databases' = databases /\ roles' \subseteq roles /\ privileges' \subseteq privileges
      BY <2>5 DEF SQL
    <3> QED BY <2>2, <2>5, <3>1, <3>2
  <2> QED BY <2>3, <2>4, <2>5 DEF StatementFails
<1>7. job.op = "delete" => job.database \in Databases /\ job.database \notin Logins
  BY <1>3, SiteRecordAssumption
<1>8. ServicesTypeOK'
  <2>1. faults' \in 0 .. MaxFaults
    BY SiteRecordAssumption DEF StatementFails, Fault, ServicesTypeOK, RecordTypeOK
  <2>2. parted' \subseteq Logins \cup Databases
    BY <1>1, <1>7 DEF ServicesTypeOK, RecordTypeOK
  <2>3. RecordTypeOK'
    BY <1>1, <1>5, <2>1, <2>2 DEF ServicesTypeOK, RecordTypeOK
  <2> QED
    BY <1>6, <2>3 DEF ServicesTypeOK, DatabaseTypeOK, AccessTypeOK, accessVars, hostVars
<1>9. RecordInv'
  BY <1>1, <1>5 DEF RecordInv
<1>10. ForwardInv' /\ LoginInv'
  <2>1. \A l \in Logins : l \in parted' <=> l \in parted
    BY <1>1, <1>7
  <2> QED BY <1>1, <1>2, <1>5, <2>1, DatabaseStepLogins DEF SameCommand
<1>11. DatabaseInv'
  <2>1. CASE job.undoing
    <3>1. /\ job.op \in {"create", "createUser"}
          /\ Step \in {"dropDatabase", "dropRole"}
      BY <1>1, <2>1, RollbackDue
    <3>2. /\ databases \subseteq databases' /\ roles \ {job.role} \subseteq roles'
          /\ {p \in privileges : p[2] # job.role} \subseteq privileges'
      BY <1>6, <3>1 DEF SQL
    <3>3. parted' = parted
      BY <1>1, <3>1
    <3> QED BY <1>1, <1>5, <1>6, <2>1, <3>2, <3>3, RollbackKeepsAccess
  <2>2. CASE ~job.undoing
    <3>1. GrantsWork /\ GrantsToUsers /\ RecordedExist /\ CommandFacts
      BY DEF DatabaseInv
    <3>2. job' = None
      BY <1>5, <2>2
    <3>3. PICK d : d = job.database
      OBVIOUS
    <3>4. PICK r : r = job.role
      OBVIOUS
    <3>5. databases \subseteq databases' /\ parted \subseteq parted'
      BY <1>1, <1>6 DEF SQL
    <3>6. Works(state.grants)'
      <4> SUFFICES ASSUME NEW g \in state'.grants \ lost'
                   PROVE  /\ g[2] \in roles' /\ g \in privileges'
                          /\ g[1] \in databases' \cup parted'
        BY DEF Works
      <4>1. g \in state.grants \ lost /\ g \in Databases \X Roles
        BY <1>1, <1>6 DEF ServicesTypeOK, RecordTypeOK, State
      <4>2. g[2] \in roles /\ g \in privileges /\ g[1] \in databases \cup parted
        BY <3>1, <4>1 DEF GrantsWork, Works
      <4>3. CASE roles \subseteq roles' /\ privileges' = privileges
        BY <3>5, <4>2, <4>3
      <4>4. CASE Step = "dropRole" /\ SQL /\ lost' = lost \cup Taken
        <5>1. roles' = roles \ {r} /\ privileges' = {p \in privileges : p[2] # r}
          BY <3>4, <4>4 DEF SQL
        <5>2. job.op \in {"delete", "deleteUser"}
          BY <1>1, <2>2, <4>4, StatementDue
        <5>3. CASE job.op = "delete"
          BY <1>1, <3>1, <3>4, <3>5, <4>1, <4>2, <4>4, <5>1, <5>3 DEF CommandFacts
        <5>4. CASE job.op = "deleteUser"
          <6>1. Taken = Databases \X {r}
            BY <3>4, <5>4 DEF Taken
          <6>2. g \notin Databases \X {r}
            BY <4>4, <6>1
          <6>3. g[2] # r
            BY <4>1, <6>2
          <6> QED BY <3>5, <4>2, <5>1, <6>3
        <5> QED BY <5>2, <5>3, <5>4
      <4>5. CASE Step = "revokeSQL" /\ SQL /\ lost' = lost \cup Taken
        <5>1. job.op = "revoke"
          BY <1>1, <2>2, <4>5, StatementDue
        <5>2. Taken = {<<d, r>>} /\ roles' = roles /\ privileges' = privileges \ {<<d, r>>}
          BY <3>3, <3>4, <4>5, <5>1 DEF Taken, Access, SQL
        <5> QED BY <3>5, <4>2, <4>5, <5>2
      <4> QED BY <1>6, <4>3, <4>4, <4>5
    <3>7. GrantsWork'
      BY <3>2, <3>6 DEF GrantsWork
    <3>8. job.todo # <<"save">>
      <4>1. Head(<<"save">>) = "save"
        OBVIOUS
      <4> QED BY <1>1, <4>1 DEF Step, Statements
    <3>9. GrantsToUsers'
      BY <1>1, <1>6, <3>1, <3>2, <3>8 DEF GrantsToUsers, ToUsers
    <3>10. job.op = "delete" /\ Step # "dropDatabase" => d \in parted'
      BY <1>1, <2>2, <3>3, StatementDue
    <3>11. RecordedExist'
      BY <1>1, <3>1, <3>2, <3>3, <3>5, <3>10 DEF RecordedExist, Dropping
    <3>12. CommandFacts'
      BY <3>2 DEF CommandFacts
    <3> QED BY <3>7, <3>9, <3>11, <3>12 DEF DatabaseInv
  <2> QED BY <2>1, <2>2
<1> QED BY <1>5, <1>8, <1>9, <1>10, <1>11

(***************************************************************************)
(* A database command saves the record.                                    *)
(***************************************************************************)
\* What is known of a database command whose save is due.
LEMMA SaveDue ==
    ASSUME ServicesInv, job # None, job.op \in DatabaseOps, Step = "save"
    PROVE  /\ job \in Job /\ ~job.undoing /\ job.new \in State /\ job.op # "rotate"
           /\ job.role \in Roles
           /\ job.op \notin {"createUser", "deleteUser"} =>
                job.database \in Databases /\ job.database \notin Logins
           /\ job.new.logins = state.logins
           /\ Works(state.grants) /\ Works(job.new.grants) /\ ToUsers(job.new)
           /\ job.op # "create" => ToUsers(state)
           /\ ToUsers(stateFile) /\ RecordedExist
           /\ \A x \in Databases : contains(job.new.databases, x) => x \in databases \cup parted
           /\ job.op = "createUser" =>
                 NoneOf(state.grants, job.role) /\ NoneOf(job.new.grants, job.role)
           /\ job.op \in {"create", "grant"} => Given
           /\ job.op = "create" =>
                 job.database \in databases /\ OthersToUsers(state, job.role)
           /\ job.op = "delete" =>
                 /\ \A g \in job.new.grants : g[1] # job.database
                 /\ ~contains(job.new.databases, job.database)
           /\ job.op = "deleteUser" => \A g \in job.new.grants : g[2] # job.role
           /\ job.op = "revoke" => Access \notin job.new.grants
<1> USE DEF ServicesInv
<1>1. /\ job \in Job /\ job.new \in State /\ job.undoing \in BOOLEAN /\ job.role \in Roles
      /\ DatabaseShape(job)
      /\ job.op \notin {"createUser", "deleteUser"} => job.database \in Databases
  BY DatabaseJobNow
<1>2. ~job.undoing /\ job.op # "rotate"
  <2>1. Head(job.todo) = "save"
    BY DEF Step
  <2> QED BY <1>1, <2>1, DatabasePrograms
<1>3. job.new.logins = state.logins
  BY <1>2 DEF RecordInv
<1>4. job.op \notin {"createUser", "deleteUser"} => job.database \notin Logins
  BY <1>1, SiteRecordAssumption
<1>5. GrantsWork /\ GrantsToUsers /\ RecordedExist /\ CommandFacts
  BY DEF DatabaseInv
<1>6. Works(state.grants) /\ Works(job.new.grants)
  BY <1>2, <1>5 DEF GrantsWork
<1>7. ToUsers(job.new) /\ (job.op # "create" => ToUsers(state)) /\ ToUsers(stateFile)
  BY <1>2, <1>5 DEF GrantsToUsers
<1>8. \A x \in Databases : contains(job.new.databases, x) => x \in databases \cup parted
  BY <1>2, <1>5 DEF RecordedExist
<1>9. /\ job.op = "createUser" =>
            NoneOf(state.grants, job.role) /\ NoneOf(job.new.grants, job.role)
      /\ job.op \in {"create", "grant"} => Given
      /\ job.op = "create" => job.database \in databases /\ OthersToUsers(state, job.role)
      /\ job.op = "delete" =>
            /\ \A g \in job.new.grants : g[1] # job.database
            /\ ~contains(job.new.databases, job.database)
      /\ job.op = "deleteUser" => \A g \in job.new.grants : g[2] # job.role
      /\ job.op = "revoke" => Access \notin job.new.grants
  BY <1>2, <1>5 DEF CommandFacts
<1> QED BY <1>1, <1>2, <1>3, <1>4, <1>5, <1>6, <1>7, <1>8, <1>9

LEMMA SaveRecordKeeps ==
    ASSUME ServicesInv, SaveRecord, UNCHANGED accessVars
    PROVE  ServicesInv'
<1> USE DEF ServicesInv
<1>1. /\ job # None /\ job.op \in DatabaseOps /\ Step = "save" /\ job' = None
      /\ state' = job.new /\ stateFile' = job.new /\ ops' = ops /\ faults' = faults
      /\ databases' = databases /\ roles' = roles /\ privileges' = privileges
      /\ parted' = IF job.op \in {"create", "delete"} THEN parted \ {job.database} ELSE parted
  BY DEF SaveRecord, Save, AtomicWrite, MemoryAfter, Continue
<1>2. PICK d : d = job.database
  OBVIOUS
<1>2a. PICK r : r = job.role
  OBVIOUS
<1>3. /\ job.new \in State /\ job.new.logins = state.logins
      /\ job.op \in {"create", "delete"} => d \in Databases /\ d \notin Logins
  BY <1>1, <1>2, SaveDue
<1>3a. /\ job.op \in {"create", "grant", "revoke"} => lost' = lost \ {<<d, r>>}
       /\ job.op = "delete" => lost' = lost \ ({d} \X Roles)
       /\ job.op = "deleteUser" => lost' = lost \ (Databases \X {r})
       /\ job.op \notin {"create", "grant", "revoke", "delete", "deleteUser"} => lost' = lost
  BY <1>2, <1>2a DEF SaveRecord, Access
<1>4. ServicesTypeOK'
  <2>1. RecordTypeOK'
    BY <1>1, <1>3 DEF ServicesTypeOK, RecordTypeOK
  <2>2. lost' \subseteq Databases \X Roles
    BY DEF SaveRecord, ServicesTypeOK, DatabaseTypeOK
  <2> QED
    BY <1>1, <2>1, <2>2 DEF ServicesTypeOK, DatabaseTypeOK, AccessTypeOK, accessVars, hostVars
<1>5. JobInv' /\ RecordInv'
  BY <1>1 DEF JobInv, RecordInv
<1>6. ForwardInv' /\ LoginInv'
  <2>1. \A l \in Logins : l \in parted' <=> l \in parted
    BY <1>1, <1>2, <1>3
  <2> QED BY <1>1, <1>3, <2>1, DatabaseStepLogins
<1>7. DatabaseInv'
  <2>2. PICK n : n = job.new
    OBVIOUS
  <2>3. /\ Works(n.grants) /\ ToUsers(n) /\ n.grants \subseteq Databases \X Roles
        /\ \A x \in Databases : contains(n.databases, x) => x \in databases \cup parted
        /\ job.op = "create" => d \in databases
        /\ job.op \in {"create", "grant"} =>
              /\ r \in roles /\ <<d, r>> \in privileges /\ d \in databases \cup parted
              /\ contains(n.users, r)
        /\ job.op = "delete" => (\A g \in n.grants : g[1] # d) /\ ~contains(n.databases, d)
        /\ job.op = "deleteUser" => \A g \in n.grants : g[2] # r
        /\ job.op = "revoke" => <<d, r>> \notin n.grants
    BY <1>1, <1>2, <1>2a, <1>3, <2>2, SaveDue DEF Given, Access, State
  <2>4. state' = n /\ stateFile' = n
    BY <1>1, <2>2
  \* An access that counts again is the one that was given just now.
  <2>5. ASSUME NEW g \in n.grants \ lost'
        PROVE  g \notin lost \/ (job.op \in {"create", "grant"} /\ g = <<d, r>>)
    BY <1>3a, <2>3
  <2>6. Works(n.grants)'
    <3> SUFFICES ASSUME NEW g \in n.grants \ lost'
                 PROVE  /\ g[2] \in roles' /\ g \in privileges'
                        /\ g[1] \in databases' \cup parted'
      BY <2>2, <2>4 DEF Works
    <3>1. g[2] \in roles /\ g \in privileges /\ g[1] \in databases \cup parted
      BY <2>3, <2>5 DEF Works
    <3>2. g[1] \in databases \cup (IF job.op \in {"create", "delete"} THEN parted \ {d} ELSE parted)
      BY <2>3, <3>1
    <3> QED BY <1>1, <1>2, <3>1, <3>2
  <2>7. GrantsWork'
    BY <1>1, <2>4, <2>6 DEF GrantsWork, Works
  <2>8. \A g \in n.grants \ lost' : contains(n.users, g[2])
    BY <2>3, <2>5 DEF ToUsers
  <2>9. GrantsToUsers'
    BY <1>1, <2>4, <2>8 DEF GrantsToUsers, ToUsers
  <2>10. RecordedExist'
    BY <1>1, <1>2, <2>3, <2>4 DEF RecordedExist
  <2>11. CommandFacts'
    BY <1>1 DEF CommandFacts
  <2> QED BY <2>7, <2>9, <2>10, <2>11 DEF DatabaseInv
<1> QED BY <1>4, <1>5, <1>6, <1>7

LEMMA SaveRecordFailsKeeps ==
    ASSUME ServicesInv, NEW outcome \in Outcomes, SaveRecordFails(outcome), UNCHANGED accessVars
    PROVE  ServicesInv'
<1> USE DEF ServicesInv
<1>1. /\ job # None /\ job.op \in DatabaseOps /\ Step = "save" /\ Fault /\ ops' = ops
      /\ databases' = databases /\ roles' = roles /\ privileges' = privileges
      /\ GiveUp(UndoSave)
  BY DEF SaveRecordFails
<1>2. PICK n : n = job.new
  OBVIOUS
<1>3. PICK d : d = job.database
  OBVIOUS
<1>4. /\ job \in Job /\ ~job.undoing /\ n \in State /\ n.logins = state.logins
      /\ job.op # "rotate" /\ job.role \in Roles
      /\ job.op \in {"create", "delete"} => d \in Databases /\ d \notin Logins
  BY <1>1, <1>2, <1>3, SaveDue
<1>5. \/ state' = state /\ stateFile' = stateFile
      \/ state' = n /\ stateFile' = n
  BY <1>2 DEF SaveRecordFails, Save, AtomicWrite, MemoryAfter, IsCommitted, Outcomes
<1>6. /\ job.op \in {"create", "delete"} => parted' = parted \cup {d}
      /\ job.op \notin {"create", "delete"} => parted' = parted
      /\ job.op = "create" => lost' = lost \cup (Databases \X {job.role})
      /\ job.op # "create" => lost' = lost
  BY <1>3 DEF SaveRecordFails, Taken
<1>7. PICK u : u = UndoSave
  OBVIOUS
<1>8. /\ job.op = "create" => u = <<"dropDatabase", "dropRole">>
      /\ job.op = "createUser" => u = <<"dropRole">>
      /\ job.op \notin {"create", "createUser"} => u = <<>>
  BY <1>7 DEF UndoSave
<1>9. job' = IF u = <<>> THEN None ELSE [[job EXCEPT !.undoing = TRUE] EXCEPT !.todo = u]
  BY <1>1, <1>7 DEF GiveUp, Continue
<1>10. /\ job.op \notin {"create", "createUser"} => job' = None
       /\ job.op \in {"create", "createUser"} =>
            /\ job' \in Job /\ job' # None /\ SameCommand(job', job)
            /\ job'.todo = u /\ job'.undoing
  <2>1. job.op \in {"create", "createUser"} => u # <<>> /\ u \in Seq(Steps)
    <3>1. /\ <<"dropDatabase", "dropRole">> # <<>> /\ <<"dropRole">> # <<>>
          /\ <<"dropDatabase", "dropRole">> \in Seq(Steps) /\ <<"dropRole">> \in Seq(Steps)
      BY DEF Steps
    <3> QED BY <1>8, <3>1, Zenon
  <2>2. ASSUME job.op \in {"create", "createUser"}
        PROVE  /\ job' \in Job /\ job' # None /\ SameCommand(job', job)
               /\ job'.todo = u /\ job'.undoing
    <3> DEFINE i == [[job EXCEPT !.undoing = TRUE] EXCEPT !.todo = u]
    <3>1. i \in Job /\ SameCommand(i, job) /\ i.todo = u /\ i.undoing
      BY <1>4, <2>1, <2>2 DEF Job, SameCommand
    <3>2. job' = i
      BY <1>9, <2>1, <2>2
    <3> HIDE DEF i
    <3> QED BY <3>1, <3>2, NoneIsNoJob
  <2> QED BY <1>8, <1>9, <2>2
<1>11. job' # None => job'.op = job.op /\ job'.undoing /\ job.op \in {"create", "createUser"}
  BY <1>10 DEF SameCommand
<1>12. JobInv'
  <2>1. job' # None => DatabaseShape(job)'
    <3> SUFFICES ASSUME job' # None PROVE DatabaseShape(job)'
      OBVIOUS
    <3>1. /\ job'.op = job.op /\ job'.role = job.role /\ job'.database = d
          /\ job'.todo = u /\ job'.undoing /\ job.op \in {"create", "createUser"}
      BY <1>3, <1>10 DEF SameCommand
    <3>2. job'.role \in Roles /\ (job'.op = "create" => job'.database \in Databases)
      BY <1>4, <3>1
    <3>3. \/ job'.op = "create" /\ job'.todo = <<"dropDatabase", "dropRole">>
          \/ job'.op = "createUser" /\ job'.todo = <<"dropRole">>
      BY <1>8, <3>1
    <3> QED BY <3>1, <3>2, <3>3, Zenon DEF DatabaseShape
  <2> QED BY <1>1, <1>11, <2>1 DEF JobInv, DatabaseOps, AccessOps
<1>13. ServicesTypeOK'
  <2>1. faults' \in 0 .. MaxFaults
    BY <1>1, SiteRecordAssumption DEF Fault, ServicesTypeOK, RecordTypeOK
  <2>2. parted' \subseteq Logins \cup Databases
    BY <1>4, <1>6 DEF ServicesTypeOK, RecordTypeOK
  <2>3. RecordTypeOK'
    BY <1>1, <1>4, <1>5, <1>10, <2>1, <2>2 DEF ServicesTypeOK, RecordTypeOK
  <2>4. lost' \subseteq Databases \X Roles
    BY <1>4, <1>6 DEF ServicesTypeOK, DatabaseTypeOK
  <2> QED
    BY <1>1, <2>3, <2>4 DEF ServicesTypeOK, DatabaseTypeOK, AccessTypeOK, accessVars, hostVars
<1>14. RecordInv'
  BY <1>5, <1>11 DEF RecordInv
<1>15. ForwardInv' /\ LoginInv'
  <2>1. \A l \in Logins : l \in parted' <=> l \in parted
    BY <1>4, <1>6, SiteRecordAssumption
  <2>2. state'.logins = state.logins
    BY <1>4, <1>5
  <2> QED BY <1>1, <1>11, <2>1, <2>2, DatabaseStepLogins
<1>16. DatabaseInv'
  <2>1. PICK r : r = job.role
    OBVIOUS
  <2>2. /\ Works(state.grants) /\ Works(n.grants) /\ ToUsers(n) /\ ToUsers(stateFile)
        /\ job.op # "create" => ToUsers(state)
        /\ job.op = "create" =>
              \A g \in state.grants \ lost : g[2] = r \/ contains(state.users, g[2])
        /\ RecordedExist
        /\ \A x \in Databases : contains(n.databases, x) => x \in databases \cup parted
        /\ job.op = "createUser" => NoneOf(state.grants, r) /\ NoneOf(n.grants, r)
        /\ state.grants \subseteq Databases \X Roles
    BY <1>1, <1>2, <2>1, SaveDue DEF ServicesTypeOK, RecordTypeOK, State, OthersToUsers
  <2>3. /\ parted \subseteq parted' /\ lost \subseteq lost'
        /\ job.op \in {"create", "delete"} => d \in parted'
    BY <1>6
  <2>4. Works(state.grants)'
    BY <1>1, <1>5, <2>2, <2>3 DEF Works
  <2>5. GrantsWork'
    BY <1>11, <2>4 DEF GrantsWork
  <2>6. ToUsers(state)'
    <3>1. CASE state' = n
      BY <2>2, <2>3, <3>1 DEF ToUsers
    <3>2. CASE state' = state /\ job.op # "create"
      BY <2>2, <2>3, <3>2 DEF ToUsers
    \* What Create shows before it is saved is of the role it drops again.
    <3>3. CASE state' = state /\ job.op = "create"
      <4> SUFFICES ASSUME NEW g \in state.grants \ lost' PROVE contains(state.users, g[2])
        BY <3>3 DEF ToUsers
      <4>1. g \in Databases \X Roles /\ g \notin Databases \X {r}
        BY <1>6, <2>1, <2>2, <3>3
      <4>2. g[2] # r /\ g \notin lost
        BY <2>3, <4>1
      <4> QED BY <2>2, <3>3, <4>2
    <3> QED BY <1>5, <3>1, <3>2, <3>3
  <2>7. ToUsers(stateFile)'
    BY <1>5, <2>2, <2>3 DEF ToUsers
  <2>8. GrantsToUsers'
    BY <1>11, <2>6, <2>7 DEF GrantsToUsers
  <2>9. \A x \in Databases : contains(state'.databases, x) \/ contains(stateFile'.databases, x)
           => x \in databases' \cup parted'
    <3>1. \A x \in Databases : contains(state.databases, x) \/ contains(stateFile.databases, x)
             => x \in databases \cup parted \/ (job.op = "delete" /\ x = d)
      BY <1>1, <1>3, <2>2 DEF RecordedExist, Dropping
    <3> QED BY <1>1, <1>5, <2>2, <2>3, <3>1
  <2>10. RecordedExist'
    BY <1>11, <2>9 DEF RecordedExist
  <2>11. CommandFacts'
    <3>1. job' # None => /\ job'.op = job.op /\ job'.undoing /\ job'.role = r
                         /\ job'.database = d /\ job.op \in {"create", "createUser"}
      BY <1>3, <1>10, <1>11, <2>1 DEF SameCommand
    <3>2. job.op \in {"create", "createUser"} => NoneOf(state.grants, r)'
      <4>1. CASE job.op = "createUser"
        BY <1>5, <2>2, <2>3, <4>1 DEF NoneOf
      <4>2. CASE job.op = "create"
        <5> SUFFICES ASSUME NEW g \in state'.grants, g \notin lost' PROVE g[2] # r
          BY DEF NoneOf
        <5>1. g \in Databases \X Roles
          BY <1>4, <1>5, <2>2 DEF State
        <5> QED BY <1>6, <2>1, <4>2, <5>1
      <4> QED BY <4>1, <4>2
    <3> QED BY <2>3, <3>1, <3>2 DEF CommandFacts, NoneOf
  <2> QED BY <2>5, <2>8, <2>10, <2>11 DEF DatabaseInv
<1> QED BY <1>12, <1>13, <1>14, <1>15, <1>16

(***************************************************************************)
(* A restart, and the theorems.                                            *)
(***************************************************************************)
LEMMA ServicesRestartKeeps ==
    ASSUME ServicesInv, Restart, RestartLoses, UNCHANGED accessVars
    PROVE  ServicesInv'
<1> USE DEF ServicesInv
<1>1. /\ state' = stateFile /\ stateFile' = stateFile /\ job' = None /\ ops' = ops /\ Fault
      /\ parted' = parted \cup (IF job = None THEN {} ELSE Parts(job))
      /\ lost' = lost \cup (stateFile.grants \ state.grants)
      /\ databases' = databases /\ roles' = roles /\ privileges' = privileges
  BY DEF Restart, RestartLoses
<1>2. /\ job # None /\ job.op \in AccessOps => Parts(job) = {job.login} /\ job.login \in Logins
      /\ job # None /\ job.op = "delete" =>
            Parts(job) = {job.database} /\ job.database \in Databases
      /\ job # None /\ job.op \notin AccessOps /\ job.op # "delete" => Parts(job) = {}
  <2>1. job # None /\ job.op = "delete" => job.database \in Databases
    BY DatabaseJobNow DEF DatabaseOps
  <2> QED BY <2>1, AccessSteps DEF Parts, AccessOps
<1>3. job # None => job.op \in DatabaseOps \cup AccessOps
  BY JobTyped
<1>4. ServicesTypeOK'
  <2>1. faults' \in 0 .. MaxFaults
    BY <1>1, SiteRecordAssumption DEF Fault, ServicesTypeOK, RecordTypeOK
  <2>2. parted' \subseteq Logins \cup Databases
    BY <1>1, <1>2, <1>3 DEF ServicesTypeOK, RecordTypeOK
  <2>3. RecordTypeOK'
    BY <1>1, <2>1, <2>2 DEF ServicesTypeOK, RecordTypeOK
  <2>4. lost' \subseteq Databases \X Roles
    BY <1>1 DEF ServicesTypeOK, RecordTypeOK, DatabaseTypeOK, State
  <2> QED
    BY <1>1, <2>3, <2>4 DEF ServicesTypeOK, DatabaseTypeOK, AccessTypeOK, accessVars, hostVars
<1>5. JobInv' /\ RecordInv' /\ ForwardInv'
  BY <1>1 DEF JobInv, RecordInv, ForwardInv
<1>6. DatabaseInv'
  <2>1. Works(state.grants) /\ ToUsers(stateFile) /\ RecordedExist
    BY DEF DatabaseInv, GrantsWork, GrantsToUsers
  <2>2. parted \subseteq parted' /\ lost \subseteq lost'
    BY <1>1
  <2>3. Works(state.grants)'
    BY <1>1, <2>1, <2>2 DEF Works
  <2>4. ToUsers(state)' /\ ToUsers(stateFile)'
    BY <1>1, <2>1, <2>2 DEF ToUsers
  <2>5. \A x \in Databases : Dropping(x) => x \in parted'
    BY <1>1, <1>2 DEF Dropping
  <2>6. RecordedExist'
    BY <1>1, <2>1, <2>2, <2>5 DEF RecordedExist
  <2> QED
    BY <1>1, <2>3, <2>4, <2>6 DEF DatabaseInv, GrantsWork, GrantsToUsers, CommandFacts
<1>7. LoginInv'
  <2>1. state'.logins = state.logins
    BY <1>1 DEF RecordInv
  <2>2. \A l \in Logins \ parted' : l \notin parted /\ ~Busy(l) /\ ~Busy(l)'
    BY <1>1, <1>2 DEF Busy
  <2> QED BY <2>1, <2>2, LoginsKept DEF accessVars, hostVars
<1> QED BY <1>4, <1>5, <1>6, <1>7

LEMMA ServicesNextInv == ServicesInv /\ [ServicesNext]_serviceVars => ServicesInv'
<1> SUFFICES ASSUME ServicesInv, [ServicesNext]_serviceVars PROVE ServicesInv'
  OBVIOUS
<1>1. CASE DatabaseNext /\ UNCHANGED accessVars
  <2>1. CASE DatabaseCommand
    BY <1>1, <2>1, DatabaseBeginKeeps
  <2>2. CASE Statement
    BY <1>1, <2>2, StatementKeeps
  <2>3. CASE StatementFails
    BY <1>1, <2>3, StatementFailsKeeps
  <2>4. CASE SaveRecord
    BY <1>1, <2>4, SaveRecordKeeps
  <2>5. CASE \E outcome \in Outcomes : SaveRecordFails(outcome)
    BY <1>1, <2>5, SaveRecordFailsKeeps
  <2> QED BY <1>1, <2>1, <2>2, <2>3, <2>4, <2>5 DEF DatabaseNext
<1>2. CASE AccessNext /\ UNCHANGED serverVars
  <2>1. CASE AccessCommand
    BY <1>2, <2>1, AccessBeginKeeps
  <2>2. CASE AccessStep
    BY <1>2, <2>2, AccessStepKeeps
  <2>3. CASE AccessStepFails
    BY <1>2, <2>3, AccessStepFailsKeeps
  <2>4. CASE AccessSaved
    BY <1>2, <2>4, AccessSavedKeeps
  <2>5. CASE \E outcome \in Outcomes : AccessSaveFails(outcome)
    BY <1>2, <2>5, AccessSaveFailsKeeps
  <2> QED BY <1>2, <2>1, <2>2, <2>3, <2>4, <2>5 DEF AccessNext
<1>3. CASE Restart /\ RestartLoses /\ UNCHANGED accessVars
  BY <1>3, ServicesRestartKeeps
<1>4. CASE UNCHANGED serviceVars
  <2>1. /\ UNCHANGED <<state, stateFile, job, ops, faults, parted>>
        /\ UNCHANGED <<databases, roles, privileges, lost>>
        /\ UNCHANGED <<keys, confs, loaded, accounts, acls, accepted, undone>>
    BY <1>4 DEF serviceVars, recordVars, countVars, serverVars, accessVars, hostVars
  <2>2. ServicesTypeOK' /\ JobInv' /\ RecordInv' /\ ForwardInv'
    BY <2>1 DEF ServicesInv, ServicesTypeOK, RecordTypeOK, DatabaseTypeOK, AccessTypeOK, JobInv,
          DatabaseShape, AccessShape, RecordInv, ForwardInv, Step
  <2>3. DatabaseInv'
    BY <2>1 DEF ServicesInv, DatabaseInv, GrantsWork, GrantsToUsers, RecordedExist, Dropping,
          CommandFacts, Works, ToUsers, OthersToUsers, NoneOf, Given, Access, Fresh, Step, pair
  <2>4. LoginInv'
    BY <2>1 DEF ServicesInv, LoginInv, Busy, Held, Match, KeyOf, Active, DeletionFacts,
          KeyAsBefore, ConfAsBefore, LoadedAsBefore, Step, ConfUndone, LoadedUndone
  <2> QED BY <2>2, <2>3, <2>4 DEF ServicesInv
<1> QED BY <1>1, <1>2, <1>3, <1>4 DEF ServicesNext

LEMMA ServicesInductive == ServicesSpec => []ServicesInv
<1>1. ServicesInit => ServicesInv
  BY ServicesInitInv
<1>2. ServicesInv /\ [ServicesNext]_serviceVars => ServicesInv'
  BY ServicesNextInv
<1> QED BY <1>1, <1>2, PTL DEF ServicesSpec

(***************************************************************************)
(* The owner of a key file and the ACL entries.                            *)
(***************************************************************************)
\* A step of no access command leaves them alone.
LEMMA ReachKept ==
    ASSUME ReachInv, UNCHANGED accessVars,
           job' = None \/ job'.op \notin AccessOps,
           \A l \in Logins \ parted' : l \notin parted /\ ~Busy(l)
    PROVE  ReachInv'
<1>1. UNCHANGED <<keys, acls, accepted, undone>>
  BY DEF accessVars, hostVars
<1>2. ReachForward'
  BY DEF ReachForward
<1>3. ASSUME NEW l \in Labels \ parted', Active(l)' PROVE Entries(l) \subseteq acls'
  BY <1>1, <1>3 DEF ReachInv, Active, Logins
<1>4. ASSUME NEW l \in Logins \ (parted' \cup undone')
      PROVE  IF Active(l)' THEN keys'[l].owned ELSE <<l, "site">> \notin acls'
  BY <1>1, <1>4 DEF ReachInv, Active
<1> QED BY <1>2, <1>3, <1>4 DEF ReachInv, Active, Entries

LEMMA ReachDatabase ==
    ASSUME ServicesInv, ReachInv, DatabaseNext, UNCHANGED accessVars
    PROVE  ReachInv'
<1> USE DEF ServicesInv
<1>1. CASE DatabaseCommand
  <2>1. PICK j : BegunDatabase(j) /\ Begin(j)
    BY <1>1, DatabaseBegins
  <2>2. job = None /\ job' = j /\ parted' = parted /\ j.op \notin AccessOps
    BY <2>1 DEF Begin, BegunDatabase, DatabaseOps, AccessOps
  <2> QED BY <2>2, ReachKept DEF Busy
<1>2. ASSUME job # None, job.op \in DatabaseOps,
             \E t : Continue(job, t) \/ GiveUp(t) \/ Continue([job EXCEPT !.new = Edited], t),
             \A l \in Logins : l \in parted' <=> l \in parted
      PROVE  ReachInv'
  <2>1. job \in Job
    BY <1>2, DatabaseJobNow
  <2>2. job' = None \/ job'.op = job.op
    BY <1>2, <2>1 DEF Continue, GiveUp, Job
  <2> QED BY <1>2, <2>2, ReachKept DEF Busy, DatabaseOps, AccessOps
<1>3. CASE Statement \/ StatementFails
  <2>1. job # None /\ Step \in Statements
    BY <1>3 DEF Statement, StatementFails
  <2>2. job.op \in DatabaseOps
    BY <2>1, AccessSteps, JobTyped
  <2>3. \E t : Continue(job, t) \/ GiveUp(t) \/ Continue([job EXCEPT !.new = Edited], t)
    BY <1>3 DEF Statement, StatementFails
  <2>4. \A l \in Logins : l \in parted' <=> l \in parted
    <3>1. parted' = parted \/ (job.op = "delete" /\ parted' = parted \cup {job.database})
      BY <1>3 DEF Statement, StatementFails, countVars
    <3>2. job.op = "delete" => job.database \in Databases
      BY <2>1, <2>2, DatabaseJobNow
    <3> QED BY <3>1, <3>2, SiteRecordAssumption
  <2> QED BY <1>2, <2>1, <2>2, <2>3, <2>4
<1>4. CASE SaveRecord \/ \E outcome \in Outcomes : SaveRecordFails(outcome)
  <2>1. /\ job # None /\ job.op \in DatabaseOps
        /\ \E t : Continue(job, t) \/ GiveUp(t)
        /\ \/ parted' = parted
           \/ /\ job.op \in {"create", "delete"}
              /\ parted' = parted \ {job.database} \/ parted' = parted \cup {job.database}
    BY <1>4 DEF SaveRecord, SaveRecordFails
  <2>2. job.op \in {"create", "delete"} => job.database \in Databases
    BY <2>1, DatabaseJobNow
  <2>3. \A l \in Logins : l \in parted' <=> l \in parted
    BY <2>1, <2>2, SiteRecordAssumption
  <2> QED BY <1>2, <2>1, <2>3
<1> QED BY <1>1, <1>3, <1>4 DEF DatabaseNext

LEMMA ReachBegin ==
    ASSUME ServicesInv, ReachInv, AccessCommand
    PROVE  ReachInv'
<1>1. UNCHANGED accessVars
  BY AccessBegins DEF ServicesInv
<1>2. PICK j : BegunAccess(j) /\ Begin(j)
  BY AccessBegins DEF ServicesInv
<1>3. job = None /\ job' = j /\ parted' = parted
  BY <1>2 DEF Begin
<1>4. UNCHANGED <<keys, acls, accepted, undone>>
  BY <1>1 DEF accessVars, hostVars
<1>5. ReachForward'
  BY <1>2, <1>3 DEF ReachForward, BegunAccess, Step, KeyCommands, AccessOps
<1>6. ASSUME NEW l \in Labels \ parted, Active(l) PROVE Entries(l) \subseteq acls
  BY <1>3, <1>6 DEF ReachInv, Busy
<1>7. ASSUME NEW l \in Logins \ (parted \cup undone)
      PROVE  IF Active(l) THEN keys[l].owned ELSE <<l, "site">> \notin acls
  BY <1>3, <1>7 DEF ReachInv, Busy
<1> QED BY <1>3, <1>4, <1>5, <1>6, <1>7 DEF ReachInv, Active, Entries

\* What a step that is done does to the two.
LEMMA ReachForwardStep ==
    ASSUME ServicesInv, ReachInv, AccessStep
    PROVE  ReachForward'
<1> USE DEF ServicesInv
<1>1. /\ job # None /\ job \in Job /\ job.op \in AccessOps /\ AccessShape(job)
      /\ job.login \in Logins /\ job.undoing \in BOOLEAN /\ parted' = parted
      /\ Tail(job.todo) = <<>> => job' = None
      /\ Tail(job.todo) # <<>> =>
            /\ SameCommand(job', job) /\ job'.todo = Tail(job.todo)
            /\ job'.undoing = job.undoing
  BY AccessStepJob
<1>2. Do /\ undone' = undone /\ Step # "save"
  BY DEF AccessStep
<1>3. PICK l \in Logins : l = job.login
  BY <1>1
<1> SUFFICES ASSUME job' # None PROVE ReachForward'
  BY DEF ReachForward
<1>4. /\ job'.op = job.op /\ job'.login = l /\ job'.undoing = job.undoing
      /\ Step' = Head(Tail(job.todo)) /\ Tail(job.todo) # <<>>
  BY <1>1, <1>3 DEF SameCommand, Step
<1>5. job'.undoing => job'.login \in undone'
  BY <1>1, <1>2, <1>3, <1>4 DEF ReachInv, ReachForward
<1>6. ASSUME ~job.undoing, job.op \in KeyCommands
      PROVE  /\ Step' \in {"writeConf", "reload", "save"} => keys'[l].owned
             /\ job.op # "applyKey" /\ Step' \notin {"useradd", "passwd", "acl"} =>
                   Entries(l) \subseteq acls'
  <2>1. \/ Step \in {"useradd", "passwd"} /\ Step' \in {"passwd", "acl"}
        \/ Step = "acl" /\ Step' = "writeKey"
        \/ Step = "writeKey" /\ Step' = "chown"
        \/ Step = "chown" /\ Step' = "writeConf"
        \/ Step \in {"writeConf", "reload"}
    BY <1>1, <1>2, <1>4, <1>6, KeyPrograms DEF Leads, Step
  <2>2. Step = "chown" => keys[l] \in KeyFile
    BY <1>1, <1>3, <1>6 DEF ForwardInv
  <2>3. Step = "chown" => keys'[l].owned
    BY <1>2, <1>3, <2>2 DEF Do, KeyFile, ServicesTypeOK, AccessTypeOK
  <2>4. Step \in {"writeConf", "reload"} => keys[l].owned /\ keys' = keys
    BY <1>1, <1>2, <1>3, <1>6 DEF ReachInv, ReachForward, Do
  <2>5. Step = "acl" => Entries(l) \subseteq acls'
    BY <1>2, <1>3 DEF Do, Entries
  <2>6. job.op # "applyKey" /\ Step \in {"writeKey", "chown", "writeConf", "reload"} =>
           Entries(l) \subseteq acls /\ acls' = acls
    BY <1>1, <1>2, <1>3, <1>6 DEF ReachInv, ReachForward, Do, KeyCommands
  <2> QED BY <2>1, <2>3, <2>4, <2>5, <2>6
<1>7. ASSUME job.op = "deleteLogin", Step' \in {"userdel", "save"}, l \notin parted
      PROVE  <<l, "site">> \notin acls'
  <2>1. Step \in {"rmAcl", "userdel"}
    BY <1>1, <1>2, <1>4, <1>7, DeletePrograms DEF Leads, Step
  <2>2. Step = "userdel" => <<l, "site">> \notin acls
    BY <1>1, <1>3, <1>7 DEF ReachInv, ReachForward
  <2> QED BY <1>2, <1>3, <2>1, <2>2 DEF Do
<1>8. job.op \in {"createLogin", "applyLogin"} => job.op \in KeyCommands /\ job.op # "applyKey"
  BY DEF KeyCommands
<1> QED BY <1>1, <1>4, <1>5, <1>6, <1>7, <1>8 DEF ReachForward, Entries

LEMMA ReachStep ==
    ASSUME ServicesInv, ReachInv, AccessStep
    PROVE  ReachInv'
<1> USE DEF ServicesInv
<1>1. /\ job # None /\ job \in Job /\ job.op \in AccessOps /\ AccessShape(job)
      /\ job.login \in Logins /\ job.undoing \in BOOLEAN
      /\ parted' = parted /\ accepted' = accepted
      /\ Tail(job.todo) = <<>> => job' = None
      /\ Tail(job.todo) # <<>> => job' # None /\ SameCommand(job', job)
  BY AccessStepJob
<1>2. Do /\ undone' = undone /\ Step # "save"
  BY DEF AccessStep
<1>3. ReachForward'
  BY ReachForwardStep
\* A command that is not undone has its save left.
<1>4. ~job.undoing => Tail(job.todo) # <<>>
  <2>1. job.op \in KeyCommands /\ ~job.undoing => Tail(job.todo) # <<>>
    BY <1>1, <1>2, KeyPrograms DEF Leads, Step
  <2>2. job.op = "revokeKey" /\ ~job.undoing => Tail(job.todo) # <<>>
    BY <1>1, <1>2, RevokePrograms DEF Leads, Step
  <2>3. job.op = "deleteLogin" => Tail(job.todo) # <<>>
    BY <1>1, <1>2, DeletePrograms DEF Leads, Step
  <2> QED BY <1>1, <2>1, <2>2, <2>3 DEF AccessOps, KeyCommands
<1>5. job.op = "deleteLogin" => ~job.undoing
  BY <1>1, DeletePrograms
<1>6. Step = "rmAcl" => job.op = "deleteLogin"
  <2>1. job.undoing => Step # "rmAcl"
    BY <1>1, UndoSteps DEF Is, Step
  <2>2. ~job.undoing /\ job.op \in KeyCommands => Step # "rmAcl"
    BY <1>1, KeyPrograms DEF Leads, Step
  <2>3. ~job.undoing /\ job.op = "revokeKey" => Step # "rmAcl"
    BY <1>1, RevokePrograms DEF Leads, Step
  <2> QED BY <1>1, <2>1, <2>2, <2>3 DEF AccessOps, KeyCommands
<1>7. ASSUME NEW l \in Labels \ parted', Active(l)', ~(Busy(l) /\ job.op = "deleteLogin")'
      PROVE  Entries(l) \subseteq acls'
  <2>1. ~(Busy(l) /\ job.op = "deleteLogin")
    BY <1>1, <1>4, <1>5, <1>7 DEF Busy, SameCommand
  <2>2. Entries(l) \subseteq acls
    BY <1>1, <1>7, <2>1 DEF ReachInv, Active
  <2>3. Step = "rmAcl" => l # job.login
    BY <1>1, <1>6, <2>1 DEF Busy
  <2> QED BY <1>2, <2>2, <2>3 DEF Do, Entries
<1>8. ASSUME NEW l \in Logins \ (parted' \cup undone'), ~Busy(l)'
      PROVE  IF Active(l)' THEN keys'[l].owned ELSE <<l, "site">> \notin acls'
  <2>1. l # job.login
    <3>1. job.undoing => job.login \in undone
      BY <1>1 DEF ReachInv, ReachForward
    <3>2. ~job.undoing /\ l = job.login => Busy(l)'
      BY <1>1, <1>4 DEF Busy, SameCommand
    <3> QED BY <1>2, <1>8, <3>1, <3>2
  <2>2. IF Active(l) THEN keys[l].owned ELSE <<l, "site">> \notin acls
    BY <1>1, <1>2, <1>8, <2>1 DEF ReachInv, Busy
  <2>3. keys'[l] = keys[l]
    BY <1>1, <1>2, <2>1 DEF Do, ServicesTypeOK, AccessTypeOK
  <2>4. <<l, "site">> \in acls' => <<l, "site">> \in acls
    BY <1>2, <2>1 DEF Do
  <2> QED BY <1>1, <2>2, <2>3, <2>4 DEF Active
<1> QED BY <1>3, <1>7, <1>8 DEF ReachInv, Entries

LEMMA ReachStepFails ==
    ASSUME ServicesInv, ReachInv, AccessStepFails
    PROVE  ReachInv'
<1> USE DEF ServicesInv
<1>1. /\ job # None /\ job.op \in AccessOps
      /\ keys' = keys /\ accepted' = accepted /\ undone' = undone \cup {job.login}
      /\ acls' = acls \/ acls' = acls \cup {<<job.login, "site">>}
      /\ parted' = IF job.undoing \/ job.op = "deleteLogin"
                   THEN parted \cup {job.login} ELSE parted
  BY DEF AccessStepFails
<1>2. AccessShape(job) /\ job \in Job /\ job.undoing \in BOOLEAN /\ job.login \in Logins
  BY <1>1, AccessSteps
<1>3. /\ job' # None => job'.op = job.op /\ job'.login = job.login
      /\ job' # None /\ ~job'.undoing => job.op = "deleteLogin"
  <2>1. CASE Ignored
    <3>1. Continue(job, Tail(job.todo)) /\ (job.undoing \/ job.op = "deleteLogin")
      BY <2>1 DEF AccessStepFails, Ignored
    <3> QED BY <1>2, <3>1 DEF Continue, Job
  <2>2. CASE ~Ignored
    <3>1. GiveUp(Undo(Step))
      BY <2>2 DEF AccessStepFails
    <3> QED BY <1>2, <3>1 DEF GiveUp, Continue, Job
  <2> QED BY <2>1, <2>2
<1>4. ReachForward'
  BY <1>1, <1>3 DEF ReachForward, KeyCommands
<1>5. ASSUME NEW l \in Labels \ parted', Active(l)' PROVE Entries(l) \subseteq acls'
  <2>1. l \notin parted /\ ~(Busy(l) /\ job.op = "deleteLogin")
    BY <1>1, <1>5 DEF Busy
  <2> QED BY <1>1, <1>5, <2>1 DEF ReachInv, Active
<1>6. ASSUME NEW l \in Logins \ (parted' \cup undone')
      PROVE  IF Active(l)' THEN keys'[l].owned ELSE <<l, "site">> \notin acls'
  <2>1. l \notin parted /\ l \notin undone /\ l # job.login
    BY <1>1, <1>6
  <2>2. IF Active(l) THEN keys[l].owned ELSE <<l, "site">> \notin acls
    BY <1>6, <2>1 DEF ReachInv, Busy
  <2> QED BY <1>1, <2>1, <2>2 DEF Active
<1> QED BY <1>4, <1>5, <1>6 DEF ReachInv, Entries

LEMMA ReachSaved ==
    ASSUME ServicesInv, ReachInv, AccessSaved
    PROVE  ReachInv'
<1> USE DEF ServicesInv
<1>1. /\ job # None /\ job.op \in AccessOps /\ Step = "save" /\ job' = None
      /\ keys' = keys /\ acls' = acls /\ undone' = undone \ {job.login}
      /\ accepted' = [accepted EXCEPT ![job.login] = job.key]
      /\ parted' = IF job.op = "deleteLogin" THEN parted ELSE parted \ {job.login}
  BY DEF AccessSaved, hostVars, Continue
<1>2. AccessShape(job) /\ job \in Job /\ ~job.undoing /\ job.login \in Logins
  BY <1>1, RecordingIs
<1>3. ReachForward'
  BY <1>1 DEF ReachForward
<1>4. /\ job.op \in KeyCommands => job.key # None /\ keys[job.login].owned
      /\ job.op \in KeyCommands /\ job.login \in Labels => Entries(job.login) \subseteq acls
      /\ job.op \notin KeyCommands => job.key = None
      /\ job.op = "revokeKey" => job.login = Own
      /\ job.op = "deleteLogin" /\ job.login \notin parted => <<job.login, "site">> \notin acls
  BY <1>1, <1>2, SiteRecordAssumption
     DEF ReachInv, ReachForward, AccessShape, KeyCommands, AccessOps
<1>5. \A l \in Logins : accepted'[l] = IF l = job.login THEN job.key ELSE accepted[l]
  BY <1>1, <1>2 DEF ServicesTypeOK, AccessTypeOK
<1>6. ASSUME NEW l \in Labels \ parted', Active(l)' PROVE Entries(l) \subseteq acls'
  <2>1. CASE l = job.login
    BY <1>1, <1>4, <1>5, <1>6, <2>1 DEF Active, Logins
  <2>2. CASE l # job.login
    BY <1>1, <1>5, <1>6, <2>2 DEF ReachInv, Active, Busy, Logins
  <2> QED BY <2>1, <2>2
<1>7. ASSUME NEW l \in Logins \ (parted' \cup undone')
      PROVE  IF Active(l)' THEN keys'[l].owned ELSE <<l, "site">> \notin acls'
  <2>1. CASE l = job.login
    <3>1. job.op \in KeyCommands \/ job.op = "revokeKey" \/ job.op = "deleteLogin"
      BY <1>1 DEF AccessOps, KeyCommands
    <3>2. CASE job.op \in KeyCommands
      BY <1>1, <1>4, <1>5, <2>1, <3>2 DEF Active
    <3>3. CASE job.op = "revokeKey"
      <4>1. <<Own, "site">> \notin acls
        BY SiteRecordAssumption DEF ServicesTypeOK, AccessTypeOK
      <4> QED BY <1>1, <1>4, <1>5, <2>1, <3>3, <4>1 DEF Active, KeyCommands
    <3>4. CASE job.op = "deleteLogin"
      BY <1>1, <1>4, <1>5, <1>7, <2>1, <3>4 DEF Active, KeyCommands
    <3> QED BY <3>1, <3>2, <3>3, <3>4
  <2>2. CASE l # job.login
    BY <1>1, <1>5, <1>7, <2>2 DEF ReachInv, Active, Busy
  <2> QED BY <2>1, <2>2
<1> QED BY <1>3, <1>6, <1>7 DEF ReachInv, Entries

LEMMA ReachSaveFails ==
    ASSUME ServicesInv, ReachInv, NEW outcome \in Outcomes, AccessSaveFails(outcome)
    PROVE  ReachInv'
<1> USE DEF ServicesInv
<1>1. /\ job # None /\ job.op \in AccessOps /\ Step = "save" /\ GiveUp(Undo(Step))
      /\ keys' = keys /\ acls' = acls /\ accepted' = accepted
      /\ undone' = undone \cup {job.login}
      /\ parted' = IF job.op = "deleteLogin" \/ IsCommitted(outcome)
                   THEN parted \cup {job.login} ELSE parted
  BY DEF AccessSaveFails, hostVars
<1>2. job \in Job /\ job.login \in Logins
  BY <1>1, RecordingIs
<1>3. job' # None => job'.op = job.op /\ job'.login = job.login /\ job'.undoing
  BY <1>1, <1>2 DEF GiveUp, Continue, Job
<1>4. ReachForward'
  BY <1>1, <1>3 DEF ReachForward
<1>5. ASSUME NEW l \in Labels \ parted', Active(l)' PROVE Entries(l) \subseteq acls'
  <2>1. l \notin parted /\ ~(Busy(l) /\ job.op = "deleteLogin")
    BY <1>1, <1>5 DEF Busy
  <2> QED BY <1>1, <1>5, <2>1 DEF ReachInv, Active
<1>6. ASSUME NEW l \in Logins \ (parted' \cup undone')
      PROVE  IF Active(l)' THEN keys'[l].owned ELSE <<l, "site">> \notin acls'
  <2>1. l \notin parted /\ l \notin undone /\ l # job.login
    BY <1>1, <1>6
  <2> QED BY <1>1, <1>6, <2>1 DEF ReachInv, Busy, Active
<1> QED BY <1>4, <1>5, <1>6 DEF ReachInv, Entries

LEMMA ReachNext == ServicesInv /\ ReachInv /\ [ServicesNext]_serviceVars => ReachInv'
<1> SUFFICES ASSUME ServicesInv, ReachInv, [ServicesNext]_serviceVars PROVE ReachInv'
  OBVIOUS
<1>1. CASE DatabaseNext /\ UNCHANGED accessVars
  BY <1>1, ReachDatabase
<1>2. CASE AccessNext /\ UNCHANGED serverVars
  BY <1>2, ReachBegin, ReachStep, ReachStepFails, ReachSaved, ReachSaveFails DEF AccessNext
<1>3. CASE Restart /\ RestartLoses /\ UNCHANGED accessVars
  <2>1. job' = None /\ parted' = parted \cup (IF job = None THEN {} ELSE Parts(job))
    BY <1>3 DEF Restart
  <2>2. job # None /\ job.op \in AccessOps => Parts(job) = {job.login}
    BY DEF Parts, AccessOps
  <2>3. \A l \in Logins \ parted' : l \notin parted /\ ~Busy(l)
    BY <2>1, <2>2 DEF Busy
  <2> QED BY <1>3, <2>1, <2>3, ReachKept
<1>4. CASE UNCHANGED serviceVars
  <2>1. UNCHANGED <<job, parted, keys, acls, accepted, undone>>
    BY <1>4 DEF serviceVars, recordVars, countVars, accessVars, hostVars
  <2> QED BY <2>1 DEF ReachInv, ReachForward, Busy, Active, Entries, Step
<1> QED BY <1>1, <1>2, <1>3, <1>4 DEF ServicesNext

LEMMA ReachInductive == ServicesSpec => []ReachInv
<1>1. ServicesInit => ReachInv
  <2>1. ServicesInit => /\ job = None /\ acls = {}
                        /\ accepted = [l \in Logins |-> None]
    BY DEF ServicesInit, AccessInit
  <2> QED BY <2>1 DEF ReachInv, ReachForward, Active, Logins
<1>2. ServicesInv /\ ReachInv /\ [ServicesNext]_serviceVars => ReachInv'
  BY ReachNext
<1> QED BY <1>1, <1>2, ServicesInductive, PTL DEF ServicesSpec

\* Every variable of the two managers, of the record, the server and the host
\* stays in its type, whichever steps of FileStateStore.Save, of the SQL
\* statements and of the login commands fail, and across restarts.
THEOREM ServicesTypes == ServicesSpec => []ServicesTypeOK
<1>1. ServicesInv => ServicesTypeOK
  BY DEF ServicesInv
<1> QED BY <1>1, ServicesInductive, PTL

\* Every access that the record promises works on the server
\* (database.Manager's Delete, DeleteUser, Grant, Revoke and their rollbacks),
\* for any number of databases, users, commands and failures.
THEOREM AccessWorks == ServicesSpec => []RecordedAccessWorks
<1>1. ServicesInv => RecordedAccessWorks
  BY DEF ServicesInv, RecordedAccessWorks, DatabaseInv, GrantsWork, Works
<1> QED BY <1>1, ServicesInductive, PTL

\* Between commands, key file, its owner, configuration block, running sshd,
\* account, ACL entries and record of every login agree with the last accepted
\* command (access.Manager with its rollbacks), but for what no rollback
\* restores and unless something parted them, for any number of labels, keys,
\* commands and failures.
THEOREM LoginsFollowRecord == ServicesSpec => []LoginsMatchRecord
<1>1. ServicesInv /\ ReachInv => LoginsMatchRecord
  <2> SUFFICES ASSUME ServicesInv, ReachInv, job = None, NEW l \in Logins \ parted
               PROVE  /\ Match(l)
                      /\ Active(l) /\ l \notin undone => keys[l].owned
                      /\ l \in Labels =>
                            /\ Active(l) => Entries(l) \subseteq acls
                            /\ <<l, "site">> \in acls => Active(l) \/ l \in undone
    BY DEF LoginsMatchRecord, Match, Active, Entries
  <2>1. Match(l)
    BY DEF ServicesInv, LoginInv, Busy
  <2>2. l \notin undone => IF Active(l) THEN keys[l].owned ELSE <<l, "site">> \notin acls
    BY DEF ReachInv, Busy
  <2>3. l \in Labels /\ Active(l) => Entries(l) \subseteq acls
    BY DEF ReachInv, Busy
  <2> QED BY <2>1, <2>2, <2>3
<1> QED BY <1>1, ServicesInductive, ReachInductive, PTL
=============================================================================
