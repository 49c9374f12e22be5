----------------------------- MODULE MailProofs ------------------------------
(***************************************************************************)
(* What a mail command answered with success is in force until a command   *)
(* that contradicts it acts, for every set of commands and every number of *)
(* lost answers, late requests, commands left behind and crashes.          *)
(*                                                                         *)
(* AnsweredIsInForce says nothing of a command that is still under way.    *)
(* The invariant adds which requests a command can make, that whoever may  *)
(* still change the server is known to every command begun (`others`), and *)
(* what a run may rely on while nobody contradicts it.                     *)
(***************************************************************************)
EXTENDS Mail, TLAPS

\* The requests of each command, in manager.go.
Asks(c) ==
    CASE c.kind = "createDomain" -> {"findDomain", "createDomain"}
      [] c.kind = "deleteDomain" -> {"findDomain", "destroyDomain"}
      [] c.kind = "createMailbox" ->
             {"findDomain", "createDomain", "findAccount", "createAccount", "setPassword"}
             \cup (IF c.quota > 0 THEN {"setQuota"} ELSE {})
      [] c.kind = "setPassword" -> {"findDomain", "findAccount", "setPassword"}
      [] c.kind = "setQuota" -> {"findDomain", "findAccount", "setQuota"}
      [] c.kind = "deleteMailbox" -> {"findDomain", "findAccount", "destroyAccount"}
      [] c.kind = "setAliases" -> {"findDomain", "findAccount", "findAliasDomain", "setAliases"}

\* A run and the requests it left behind are those of its command.
OwnRequests ==
    /\ \A c \in Commands : runs[c] # None => runs[c].next \in Asks(c)
    /\ \A q \in strays : q.kind \in Asks(q.command)

\* A mailbox belongs to the domain that is there.
NoOrphans == \A l \in Locals : accounts[l] # None => domain # None

\* What Control was told of a run.
RunsBegun ==
    \A c \in Commands :
        /\ runs[c] # None => status[c] = IF c \in late THEN "timedOut" ELSE "running"
        /\ c \in late => runs[c] # None

\* Whoever can still change the server is among the others of each command.
ActingKnown == \A c \in Commands : status[c] # "new" => Acting \subseteq others[c] \cup {c}

Unopposed(c) == \A d \in others[c] : ~Conflict(c, d)

\* What a run has found or done stays so while nobody contradicts it: the
\* mailbox that DeleteMailbox looks for is not under a newer domain, and
\* CreateMailbox's password is in force when it goes on to the quota.
Sound(c, run) ==
    /\ c.kind = "deleteMailbox" /\ run.next = "findAccount" /\ run.domain # domain
           => accounts[c.local] = None
    /\ c.kind = "createMailbox" /\ run.next = "setQuota"
           => Kept(c, "mailbox") /\ Kept(c, "password")

OnTheWay ==
    \A c \in Commands : runs[c] # None /\ c \notin late /\ Unopposed(c) => Sound(c, runs[c])

MailInv ==
    /\ MailTypeOK /\ OwnRequests /\ NoOrphans /\ RunsBegun /\ ActingKnown
    /\ OnTheWay /\ AnsweredIsInForce
-----------------------------------------------------------------------------
(* The server.                                                             *)

\* What each request changes when the server takes it.
LEMMA ServeEffect ==
    ASSUME MailTypeOK, NEW q \in SetRequest, Serve(q), NEW d, d = q.command, NEW l, l = d.local
    PROVE  /\ l \in Locals /\ d \in Commands
           /\ \A m \in Locals \ {l} : q.kind # "destroyDomain" => accounts'[m] = accounts[m]
           /\ q.kind \notin {"createDomain", "destroyDomain"} => domain' = domain
           /\ q.kind = "createDomain" => /\ domain = None /\ domain' # None
                                         /\ accounts' = accounts
           /\ q.kind = "destroyDomain" => /\ domain' = None
                                          /\ \A m \in Locals : accounts'[m] = None
           /\ q.kind = "createAccount" => domain # None /\ accounts[l] = None /\ accounts'[l] # None
           /\ q.kind = "destroyAccount" => accounts'[l] = None
           /\ q.kind \in {"setPassword", "setQuota", "setAliases"} =>
                  accounts[l] # None /\ accounts'[l] # None
           /\ q.kind = "setPassword" => /\ accounts'[l].password = d.password
                                        /\ accounts'[l].quota = accounts[l].quota
                                        /\ accounts'[l].aliases = accounts[l].aliases
           /\ q.kind = "setQuota" => /\ accounts'[l].password = accounts[l].password
                                     /\ accounts'[l].quota = d.quota
                                     /\ accounts'[l].aliases = accounts[l].aliases
           /\ q.kind = "setAliases" => /\ accounts'[l].password = accounts[l].password
                                       /\ accounts'[l].quota = accounts[l].quota
                                       /\ accounts'[l].aliases = d.aliases
           /\ domain' \in Nat \cup {None} /\ ids' \in Nat
           /\ accounts' \in [Locals -> Mailbox \cup {None}]
<1>. DEFINE Goal ==
           /\ l \in Locals /\ d \in Commands
           /\ \A m \in Locals \ {l} : q.kind # "destroyDomain" => accounts'[m] = accounts[m]
           /\ q.kind \notin {"createDomain", "destroyDomain"} => domain' = domain
           /\ q.kind = "createDomain" => /\ domain = None /\ domain' # None
                                         /\ accounts' = accounts
           /\ q.kind = "destroyDomain" => /\ domain' = None
                                          /\ \A m \in Locals : accounts'[m] = None
           /\ q.kind = "createAccount" => domain # None /\ accounts[l] = None /\ accounts'[l] # None
           /\ q.kind = "destroyAccount" => accounts'[l] = None
           /\ q.kind \in {"setPassword", "setQuota", "setAliases"} =>
                  accounts[l] # None /\ accounts'[l] # None
           /\ q.kind = "setPassword" => /\ accounts'[l].password = d.password
                                        /\ accounts'[l].quota = accounts[l].quota
                                        /\ accounts'[l].aliases = accounts[l].aliases
           /\ q.kind = "setQuota" => /\ accounts'[l].password = accounts[l].password
                                     /\ accounts'[l].quota = d.quota
                                     /\ accounts'[l].aliases = accounts[l].aliases
           /\ q.kind = "setAliases" => /\ accounts'[l].password = accounts[l].password
                                       /\ accounts'[l].quota = accounts[l].quota
                                       /\ accounts'[l].aliases = d.aliases
           /\ domain' \in Nat \cup {None} /\ ids' \in Nat
           /\ accounts' \in [Locals -> Mailbox \cup {None}]
<1>1. /\ d \in Commands /\ l \in Locals /\ d.quota \in Nat
      /\ q.kind \in Sets
      /\ domain \in Nat \cup {None} /\ ids \in Nat
      /\ accounts \in [Locals -> Mailbox \cup {None}]
      /\ Acceptable(q)
  BY MailAssumption DEF SetRequest, MailTypeOK, Serve
<1>2. CASE q.kind = "createDomain"
  <2>1. domain' = ids + 1 /\ ids' = ids + 1 /\ accounts' = accounts /\ domain = None
    BY <1>1, <1>2 DEF Serve, Acceptable
  <2>. QED
    BY <1>1, <1>2, <2>1, NoneIsNothing
<1>3. CASE q.kind = "destroyDomain"
  <2>1. domain' = None /\ ids' = ids /\ accounts' = [m \in Locals |-> None]
    BY <1>3 DEF Serve
  <2>. QED
    BY <1>1, <1>3, <2>1
<1>4. CASE q.kind = "createAccount"
  <2>1. /\ domain' = domain /\ ids' = ids + 1 /\ domain # None /\ accounts[l] = None
        /\ accounts' = [accounts EXCEPT ![l] = NewAccount(ids + 1)]
    BY <1>1, <1>4 DEF Serve, Acceptable
  <2>2. NewAccount(ids + 1) \in Mailbox
    BY <1>1 DEF NewAccount, Mailbox
  <2>. QED
    BY <1>1, <1>4, <2>1, <2>2, NoneIsNothing
<1>5. CASE q.kind = "destroyAccount"
  <2>1. /\ domain' = domain /\ ids' = ids
        /\ accounts' = [accounts EXCEPT ![l] = None]
    BY <1>1, <1>5 DEF Serve
  <2>. QED
    BY <1>1, <1>5, <2>1
<1>6. CASE q.kind \in {"setPassword", "setQuota", "setAliases"}
  <2>1. domain' = domain /\ ids' = ids /\ accounts[l] \in Mailbox
    BY <1>1, <1>6, NoneIsNothing DEF Serve, Acceptable, Holds
  <2>2. CASE q.kind = "setPassword"
    <3>1. accounts' = [accounts EXCEPT ![l].password = d.password]
      BY <1>1, <2>2 DEF Serve
    <3>2. d.password \in {c.password : c \in Commands}
      BY <1>1
    <3>3. accounts'[l] = [accounts[l] EXCEPT !.password = d.password]
      BY <1>1, <3>1
    <3>4. accounts'[l] \in Mailbox
      BY <2>1, <3>2, <3>3 DEF Mailbox
    <3>5. /\ accounts'[l].password = d.password
          /\ accounts'[l].quota = accounts[l].quota
          /\ accounts'[l].aliases = accounts[l].aliases
      BY <2>1, <3>3 DEF Mailbox
    <3>6. accounts' = [accounts EXCEPT ![l] = accounts'[l]]
      BY <1>1, <3>1
    <3>. QED
      BY <1>1, <2>1, <2>2, <3>4, <3>5, <3>6, NoneIsNothing
  <2>3. CASE q.kind = "setQuota"
    <3>1. accounts' = [accounts EXCEPT ![l].quota = d.quota]
      BY <1>1, <2>3 DEF Serve
    <3>3. accounts'[l] = [accounts[l] EXCEPT !.quota = d.quota]
      BY <1>1, <3>1
    <3>4. accounts'[l] \in Mailbox
      BY <1>1, <2>1, <3>3 DEF Mailbox
    <3>5. /\ accounts'[l].quota = d.quota
          /\ accounts'[l].password = accounts[l].password
          /\ accounts'[l].aliases = accounts[l].aliases
      BY <2>1, <3>3 DEF Mailbox
    <3>6. accounts' = [accounts EXCEPT ![l] = accounts'[l]]
      BY <1>1, <3>1
    <3>. QED
      BY <1>1, <2>1, <2>3, <3>4, <3>5, <3>6, NoneIsNothing
  <2>4. CASE q.kind = "setAliases"
    <3>1. accounts' = [accounts EXCEPT ![l].aliases = d.aliases]
      BY <1>1, <2>4 DEF Serve
    <3>2. d.aliases \in {c.aliases : c \in Commands}
      BY <1>1
    <3>3. accounts'[l] = [accounts[l] EXCEPT !.aliases = d.aliases]
      BY <1>1, <3>1
    <3>4. accounts'[l] \in Mailbox
      BY <2>1, <3>2, <3>3 DEF Mailbox
    <3>5. /\ accounts'[l].aliases = d.aliases
          /\ accounts'[l].password = accounts[l].password
          /\ accounts'[l].quota = accounts[l].quota
      BY <2>1, <3>3 DEF Mailbox
    <3>6. accounts' = [accounts EXCEPT ![l] = accounts'[l]]
      BY <1>1, <3>1
    <3>. QED
      BY <1>1, <2>1, <2>4, <3>4, <3>5, <3>6, NoneIsNothing
  <2>. QED
    BY <1>6, <2>2, <2>3, <2>4
<1>. QED
  BY <1>1, <1>2, <1>3, <1>4, <1>5, <1>6 DEF Sets

\* A mailbox comes with the domain, and goes with it.
LEMMA ServeNoOrphans ==
    ASSUME MailTypeOK, NoOrphans, NEW q \in SetRequest, Serve(q)
    PROVE  NoOrphans'
<1>1. q.kind \in Sets
  BY DEF SetRequest
<1>2. PICK d, k : d = q.command /\ k = d.local
  OBVIOUS
<1>. QED
  BY <1>1, <1>2, ServeEffect DEF NoOrphans, Sets
-----------------------------------------------------------------------------
(* Promises and who may break them.                                        *)

\* The requests that change something, by the commands that make them.
LEMMA WhoAsks ==
    ASSUME NEW d \in Commands, NEW kind \in Asks(d)
    PROVE  /\ kind = "createDomain" => d.kind \in {"createDomain", "createMailbox"}
           /\ kind = "destroyDomain" => d.kind = "deleteDomain"
           /\ kind = "createAccount" => d.kind = "createMailbox"
           /\ kind = "destroyAccount" => d.kind = "deleteMailbox"
           /\ kind = "setPassword" => d.kind \in {"createMailbox", "setPassword"}
           /\ kind = "setQuota" => \/ d.kind = "setQuota"
                                   \/ d.kind = "createMailbox" /\ d.quota > 0
           /\ kind = "setAliases" => d.kind = "setAliases"
           /\ kind = "findAccount" => d.kind \notin {"createDomain", "deleteDomain"}
           /\ kind = "findAliasDomain" => d.kind = "setAliases"
<1>1. d.kind \in Kinds
  BY MailAssumption
<1>. QED
  BY <1>1 DEF Kinds, Asks

\* Promises, one command at a time.
LEMMA PromisesOf ==
    ASSUME NEW c \in Commands
    PROVE  /\ c.kind = "createDomain" => Promises(c) = {"domain"}
           /\ c.kind = "deleteDomain" => Promises(c) = {"no domain"}
           /\ c.kind = "deleteMailbox" => Promises(c) = {"no mailbox"}
           /\ c.kind = "createMailbox" =>
                  /\ Promises(c) \subseteq {"mailbox", "password", "quota"}
                  /\ "mailbox" \in Promises(c) /\ "password" \in Promises(c)
                  /\ "quota" \in Promises(c) <=> c.quota > 0
           /\ c.kind = "setPassword" => Promises(c) = {"mailbox", "password"}
           /\ c.kind = "setQuota" => Promises(c) = {"mailbox", "quota"}
           /\ c.kind = "setAliases" => Promises(c) = {"mailbox", "aliases"}
BY DEF Promises

LEMMA UndoesOf ==
    ASSUME NEW d \in Commands
    PROVE  /\ d.kind = "createDomain" => Undoes(d) = {"no domain"}
           /\ d.kind = "deleteDomain" => Undoes(d) = {"domain", "mailbox"}
           /\ d.kind = "deleteMailbox" => Undoes(d) = {"mailbox"}
           /\ d.kind = "createMailbox" =>
                  Undoes(d) = {"no domain", "no mailbox", "password", "quota"}
           /\ d.kind = "setPassword" => Undoes(d) = {"password"}
           /\ d.kind = "setQuota" => Undoes(d) = {"quota"}
           /\ d.kind = "setAliases" => Undoes(d) = {"aliases"}
BY DEF Undoes

\* Which commands contradict which.
LEMMA Conflicts ==
    ASSUME NEW c \in Commands, NEW d \in Commands
    PROVE  /\ c.kind = "deleteDomain" /\ d.kind \in {"createDomain", "createMailbox"}
                  => Conflict(c, d)
           /\ d.kind = "deleteDomain" /\ c.kind \notin {"deleteDomain", "deleteMailbox"}
                  => Conflict(c, d)
           /\ c.local = d.local =>
                /\ c.kind = "deleteMailbox" /\ d.kind = "createMailbox" => Conflict(c, d)
                /\ "mailbox" \in Promises(c) /\ d.kind = "deleteMailbox" => Conflict(c, d)
                /\ "password" \in Promises(c) /\ d.kind \in {"createMailbox", "setPassword"}
                       => c.password = d.password \/ Conflict(c, d)
                /\ "quota" \in Promises(c) /\ d.kind \in {"createMailbox", "setQuota"}
                       => c.quota = d.quota \/ Conflict(c, d)
                /\ "aliases" \in Promises(c) /\ d.kind = "setAliases"
                       => c.aliases = d.aliases \/ Conflict(c, d)
<1>0. c.kind \in Kinds
  BY MailAssumption
<1>1. ASSUME NEW p \in Promises(c), p \in Undoes(d), ~Agree(c, d, p),
             \/ c.local = d.local \/ c.kind = "deleteDomain"
             \/ d.kind = "deleteDomain"
      PROVE  Conflict(c, d)
  BY <1>1 DEF Conflict
<1>2. /\ \A p \in {"domain", "no domain", "mailbox", "no mailbox"} : ~Agree(c, d, p)
      /\ Agree(c, d, "password") <=> c.password = d.password
      /\ Agree(c, d, "quota") <=> c.quota = d.quota
      /\ Agree(c, d, "aliases") <=> c.aliases = d.aliases
  BY DEF Agree
<1>3. ASSUME c.kind = "deleteDomain", d.kind \in {"createDomain", "createMailbox"}
      PROVE  Conflict(c, d)
  BY <1>1, <1>3, <1>2, PromisesOf, UndoesOf
<1>4. ASSUME d.kind = "deleteDomain", c.kind \notin {"deleteDomain", "deleteMailbox"}
      PROVE  Conflict(c, d)
  <2>1. "domain" \in Promises(c) \/ "mailbox" \in Promises(c)
    BY <1>0, <1>4, PromisesOf DEF Kinds
  <2>. QED
    BY <1>1, <1>4, <1>2, <2>1, UndoesOf
<1>5. ASSUME c.local = d.local
      PROVE  /\ c.kind = "deleteMailbox" /\ d.kind = "createMailbox" => Conflict(c, d)
             /\ "mailbox" \in Promises(c) /\ d.kind = "deleteMailbox" => Conflict(c, d)
             /\ "password" \in Promises(c) /\ d.kind \in {"createMailbox", "setPassword"}
                    => c.password = d.password \/ Conflict(c, d)
             /\ "quota" \in Promises(c) /\ d.kind \in {"createMailbox", "setQuota"}
                    => c.quota = d.quota \/ Conflict(c, d)
             /\ "aliases" \in Promises(c) /\ d.kind = "setAliases"
                    => c.aliases = d.aliases \/ Conflict(c, d)
  <2>1. c.kind = "deleteMailbox" => "no mailbox" \in Promises(c)
    BY PromisesOf
  <2>. QED
    BY <1>1, <1>5, <1>2, <2>1, UndoesOf
<1>. QED
  BY <1>3, <1>4, <1>5

LEMMA PromiseNames ==
    ASSUME NEW c \in Commands, NEW p \in Promises(c)
    PROVE  p \in {"domain", "no domain", "mailbox", "no mailbox", "password", "quota", "aliases"}
<1>1. c.kind \in Kinds
  BY MailAssumption
<1>. QED
  BY <1>1, PromisesOf DEF Kinds

\* The promises that only one kind of command makes.
LEMMA PromiseOwners ==
    ASSUME NEW c \in Commands
    PROVE  /\ "domain" \in Promises(c) => c.kind = "createDomain"
           /\ "no domain" \in Promises(c) => c.kind = "deleteDomain"
           /\ "no mailbox" \in Promises(c) => c.kind = "deleteMailbox"
           /\ "mailbox" \in Promises(c) \/ Promises(c) \subseteq {"domain", "no domain", "no mailbox"}
<1>1. c.kind \in Kinds
  BY MailAssumption
<1>2. CASE c.kind \in {"createDomain", "deleteDomain", "deleteMailbox"}
  BY <1>2, PromisesOf
<1>3. CASE c.kind \in {"setPassword", "setQuota", "setAliases"}
  <2>1. "mailbox" \in Promises(c) /\ Promises(c) \subseteq {"mailbox", "password", "quota", "aliases"}
    BY <1>3, PromisesOf
  <2>. QED
    BY <2>1
<1>4. CASE c.kind = "createMailbox"
  <2>1. /\ Promises(c) \subseteq {"mailbox", "password", "quota"}
        /\ "mailbox" \in Promises(c)
    BY <1>4, PromisesOf
  <2>. QED
    BY <2>1
<1>. QED
  BY <1>1, <1>2, <1>3, <1>4 DEF Kinds

\* Kept, one promise at a time.
LEMMA KeptIs ==
    ASSUME NEW c \in Commands
    PROVE  /\ Kept(c, "domain") <=> domain # None
           /\ Kept(c, "no domain") <=> domain = None
           /\ Kept(c, "mailbox") <=> accounts[c.local] # None
           /\ Kept(c, "no mailbox") <=> accounts[c.local] = None
           /\ Kept(c, "password") <=>
                  accounts[c.local] # None /\ accounts[c.local].password = c.password
           /\ Kept(c, "quota") <=> accounts[c.local] # None /\ accounts[c.local].quota = c.quota
           /\ Kept(c, "aliases") <=>
                  accounts[c.local] # None /\ accounts[c.local].aliases = c.aliases
BY DEF Kept

\* A request of the command itself, or of one that does not contradict it,
\* breaks none of its promises, whenever it reaches the server.
LEMMA ServeKeepsPromise ==
    ASSUME MailTypeOK, NEW q \in SetRequest, Serve(q), NEW d \in Commands, d = q.command,
           q.kind \in Asks(d), NEW c \in Commands, c = d \/ ~Conflict(c, d),
           NEW p \in Promises(c), Kept(c, p)
    PROVE  Kept(c, p)'
<1>1. q.kind \in Sets /\ c.kind \in Kinds /\ d.kind \in Kinds
      /\ c.local \in Locals /\ d.local \in Locals
  BY MailAssumption DEF SetRequest
<1>2. CASE q.kind = "createDomain"
  <2>1. d.kind \in {"createDomain", "createMailbox"}
    BY <1>2, WhoAsks
  <2>2. c.kind # "deleteDomain"
    BY <2>1, Conflicts
  <2>3. p # "no domain"
    BY <2>2, PromiseOwners
  <2>4. domain' # None /\ accounts' = accounts
    BY <1>2, ServeEffect
  <2>. QED
    BY <2>3, <2>4, PromiseNames DEF Kept
<1>3. CASE q.kind = "destroyDomain"
  <2>1. d.kind = "deleteDomain"
    BY <1>3, WhoAsks
  <2>2. c.kind \in {"deleteDomain", "deleteMailbox"}
    BY <2>1, Conflicts
  <2>3. p \in {"no domain", "no mailbox"}
    BY <2>2, PromisesOf
  <2>4. domain' = None /\ \A m \in Locals : accounts'[m] = None
    BY <1>3, ServeEffect
  <2>. QED
    BY <1>1, <2>3, <2>4 DEF Kept
<1>4. CASE q.kind \in {"createAccount", "destroyAccount", "setPassword", "setQuota", "setAliases"}
           /\ (c.local # d.local \/ p \in {"domain", "no domain"})
  <2>0. domain' = domain /\ \A m \in Locals \ {d.local} : accounts'[m] = accounts[m]
    BY <1>4, ServeEffect, ZenonT(60)
  <2>1. domain' = domain /\ (c.local # d.local => accounts'[c.local] = accounts[c.local])
    BY <1>1, <2>0
  <2>. QED
    BY <1>4, <2>1, PromiseNames DEF Kept
<1>5. CASE q.kind = "createAccount" /\ c.local = d.local /\ p \notin {"domain", "no domain"}
  <2>0. d.kind = "createMailbox"
    BY <1>5, WhoAsks
  <2>1. accounts[c.local] = None
    <3>1. accounts[d.local] = None
      BY <1>5, ServeEffect
    <3>. QED
      BY <1>5, <3>1
  <2>2. p = "no mailbox"
    BY <1>5, <2>1, PromiseNames, KeptIs
  <2>3. c.kind = "deleteMailbox"
    BY <2>2, PromiseOwners
  <2>. QED
    BY <1>5, <2>0, <2>3, Conflicts
<1>6. CASE q.kind = "destroyAccount" /\ c.local = d.local /\ p \notin {"domain", "no domain"}
  <2>0. d.kind = "deleteMailbox"
    BY <1>6, WhoAsks
  <2>1. accounts'[c.local] = None
    BY <1>6, ServeEffect
  <2>2. "mailbox" \notin Promises(c)
    <3>1. CASE c = d
      BY <2>0, <3>1, PromisesOf
    <3>2. CASE ~Conflict(c, d)
      BY <1>6, <2>0, <3>2, Conflicts
    <3>. QED
      BY <3>1, <3>2
  <2>3. p = "no mailbox"
    BY <1>6, <2>2, PromiseOwners
  <2>. QED
    BY <2>1, <2>3 DEF Kept
<1>7. CASE q.kind = "setPassword" /\ c.local = d.local /\ p \notin {"domain", "no domain"}
  <2>0. d.kind \in {"createMailbox", "setPassword"}
    BY <1>7, WhoAsks
  <2>1. /\ accounts[c.local] # None /\ accounts'[c.local] # None
        /\ accounts'[c.local].password = d.password
        /\ accounts'[c.local].quota = accounts[c.local].quota
        /\ accounts'[c.local].aliases = accounts[c.local].aliases
    BY <1>7, ServeEffect, ZenonT(60)
  <2>2. p = "password" => c.password = d.password
    BY <1>7, <2>0, Conflicts
  <2>. QED
    BY <1>7, <2>1, <2>2, PromiseNames DEF Kept
<1>8. CASE q.kind = "setQuota" /\ c.local = d.local /\ p \notin {"domain", "no domain"}
  <2>0. d.kind \in {"createMailbox", "setQuota"}
    BY <1>8, WhoAsks
  <2>1. /\ accounts[c.local] # None /\ accounts'[c.local] # None
        /\ accounts'[c.local].quota = d.quota
        /\ accounts'[c.local].password = accounts[c.local].password
        /\ accounts'[c.local].aliases = accounts[c.local].aliases
    BY <1>8, ServeEffect, ZenonT(60)
  <2>2. p = "quota" => c.quota = d.quota
    BY <1>8, <2>0, Conflicts
  <2>. QED
    BY <1>8, <2>1, <2>2, PromiseNames DEF Kept
<1>9. CASE q.kind = "setAliases" /\ c.local = d.local /\ p \notin {"domain", "no domain"}
  <2>0. d.kind = "setAliases"
    BY <1>9, WhoAsks
  <2>1. /\ accounts[c.local] # None /\ accounts'[c.local] # None
        /\ accounts'[c.local].aliases = d.aliases
        /\ accounts'[c.local].password = accounts[c.local].password
        /\ accounts'[c.local].quota = accounts[c.local].quota
    BY <1>9, ServeEffect, ZenonT(60)
  <2>2. p = "aliases" => c.aliases = d.aliases
    BY <1>9, <2>0, Conflicts
  <2>. QED
    BY <1>9, <2>1, <2>2, PromiseNames DEF Kept
<1>. QED
  BY <1>1, <1>2, <1>3, <1>4, <1>5, <1>6, <1>7, <1>8, <1>9 DEF Sets

\* The mailbox that a deletion looks for under the domain it has found: under
\* a newer domain there is none, unless somebody created it.
LEMMA ServeKeepsSearch ==
    ASSUME MailTypeOK, NoOrphans, NEW q \in SetRequest, Serve(q), NEW d \in Commands,
           d = q.command, q.kind \in Asks(d),
           NEW c \in Commands, c.kind = "deleteMailbox", c = d \/ ~Conflict(c, d),
           NEW found, found # domain => accounts[c.local] = None
    PROVE  found # domain' => accounts'[c.local] = None
<1>1. q.kind \in Sets /\ c.local \in Locals /\ d.local \in Locals
  BY MailAssumption DEF SetRequest
<1>2. CASE q.kind = "createDomain"
  <2>1. domain = None /\ accounts' = accounts
    BY <1>2, ServeEffect
  <2>. QED
    BY <1>1, <2>1 DEF NoOrphans
<1>3. CASE q.kind = "destroyDomain"
  BY <1>1, <1>3, ServeEffect
<1>4. CASE q.kind = "createAccount"
  <2>0. d.kind = "createMailbox"
    BY <1>4, WhoAsks
  <2>1. domain' = domain
    BY <1>4, ServeEffect
  <2>2. c.local # d.local
    BY <2>0, Conflicts
  <2>. QED
    BY <1>1, <1>4, <2>1, <2>2, ServeEffect
<1>5. CASE q.kind \in {"destroyAccount", "setPassword", "setQuota", "setAliases"}
  <2>1. domain' = domain /\ (c.local # d.local => accounts'[c.local] = accounts[c.local])
    BY <1>1, <1>5, ServeEffect
  <2>2. c.local = d.local => accounts'[c.local] = None \/ accounts[c.local] # None
    BY <1>5, ServeEffect
  <2>. QED
    BY <2>1, <2>2
<1>. QED
  BY <1>1, <1>2, <1>3, <1>4, <1>5 DEF Sets
-----------------------------------------------------------------------------
(* What a step of the server does to everybody's promises.                 *)

\* A step of a command or of a stray request, as the server sees it.
ServerStep ==
    \/ UNCHANGED serverVars
    \/ \E q \in SetRequest : q.kind \in Asks(q.command) /\ q.command \in Acting /\ Serve(q)

\* The request a run makes is one of its command's.
LEMMA RequestOf ==
    ASSUME MailTypeOK, OwnRequests, NEW c \in Commands, Requests(c)
    PROVE  /\ Request(c) \in SetRequest
           /\ Request(c).kind = runs[c].next /\ Request(c).command = c
           /\ Request(c).kind \in Asks(Request(c).command)
           /\ Request(c).command \in Acting
<1>1. runs[c] # None /\ runs[c] \in Run /\ runs[c].next \in Sets
  BY DEF Requests, MailTypeOK
<1>2. Request(c).kind = runs[c].next /\ Request(c).command = c
  BY DEF Request
<1>3. Request(c) \in SetRequest
  BY <1>1 DEF Request, SetRequest, Run
<1>4. runs[c].next \in Asks(c)
  BY <1>1 DEF OwnRequests
<1>5. c \in Acting
  BY <1>1 DEF Acting
<1>. QED
  BY <1>2, <1>3, <1>4, <1>5

LEMMA RunsAreNotNew ==
    ASSUME RunsBegun, NEW c \in Commands, runs[c] # None
    PROVE  status[c] \in {"running", "timedOut"}
BY DEF RunsBegun

\* What unopposed commands have reached, a step of the server leaves alone.
LEMMA StaysInForce ==
    ASSUME MailInv, ServerStep, NEW c \in Commands, Unopposed(c)
    PROVE  /\ status[c] = "ok" => \A p \in Promises(c) : Kept(c, p)'
           /\ \A run : runs[c] # None /\ c \notin late /\ run = runs[c] => Sound(c, run)'
<1>. USE DEF MailInv
<1>1. CASE UNCHANGED serverVars
  <2>1. ASSUME status[c] = "ok", NEW p \in Promises(c)
        PROVE  Kept(c, p)'
    <3>1. Kept(c, p)
      BY <2>1 DEF AnsweredIsInForce, Unopposed
    <3>. QED
      BY <1>1, <3>1 DEF Kept, serverVars
  <2>2. ASSUME NEW run, runs[c] # None, c \notin late, run = runs[c]
        PROVE  Sound(c, run)'
    <3>1. Sound(c, run)
      BY <2>2 DEF OnTheWay
    <3>. QED
      BY <1>1, <3>1 DEF Sound, Kept, serverVars
  <2>. QED
    BY <2>1, <2>2
<1>2. CASE \E q \in SetRequest : q.kind \in Asks(q.command) /\ q.command \in Acting /\ Serve(q)
  <2>1. PICK q \in SetRequest : q.kind \in Asks(q.command) /\ q.command \in Acting /\ Serve(q)
    BY <1>2
  <2>2. PICK d \in Commands : d = q.command
    BY DEF SetRequest
  <2>3. status[c] # "new" => c = d \/ ~Conflict(c, d)
    BY <2>1, <2>2 DEF ActingKnown, Unopposed
  <2>4. q.kind \in Asks(d)
    BY <2>1, <2>2
  <2>5. ASSUME status[c] = "ok", NEW p \in Promises(c)
        PROVE  Kept(c, p)'
    <3>1. Kept(c, p)
      BY <2>5 DEF AnsweredIsInForce, Unopposed
    <3>2. c = d \/ ~Conflict(c, d)
      BY <2>3, <2>5
    <3>. QED
      BY <2>1, <2>2, <2>4, <3>1, <3>2, ServeKeepsPromise
  <2>6. ASSUME NEW run, runs[c] # None, c \notin late, run = runs[c]
        PROVE  Sound(c, run)'
    <3>1. Sound(c, run)
      BY <2>6 DEF OnTheWay
    <3>2. c = d \/ ~Conflict(c, d)
      BY <2>3, <2>6, RunsAreNotNew
    <3>3. ASSUME c.kind = "deleteMailbox", run.next = "findAccount"
          PROVE  run.domain # domain' => accounts'[c.local] = None
      <4>1. run.domain # domain => accounts[c.local] = None
        BY <3>1, <3>3 DEF Sound
      <4>. QED
        BY <2>1, <2>2, <2>4, <3>2, <3>3, <4>1, ServeKeepsSearch
    <3>4. ASSUME c.kind = "createMailbox", run.next = "setQuota"
          PROVE  Kept(c, "mailbox")' /\ Kept(c, "password")'
      <4>1. Kept(c, "mailbox") /\ Kept(c, "password")
        BY <3>1, <3>4 DEF Sound
      <4>2. "mailbox" \in Promises(c) /\ "password" \in Promises(c)
        BY <3>4, PromisesOf
      <4>. QED
        BY <2>1, <2>2, <2>4, <3>2, <4>1, <4>2, ServeKeepsPromise
    <3>. QED
      BY <3>3, <3>4 DEF Sound
  <2>. QED
    BY <2>5, <2>6
<1>. QED
  BY <1>1, <1>2 DEF ServerStep

\* And it keeps the server's own part of the invariant.
LEMMA ServerStepTypes ==
    ASSUME MailTypeOK, NoOrphans, ServerStep
    PROVE  /\ domain' \in Nat \cup {None} /\ ids' \in Nat
           /\ accounts' \in [Locals -> Mailbox \cup {None}]
           /\ NoOrphans'
<1>1. CASE UNCHANGED serverVars
  BY <1>1 DEF serverVars, MailTypeOK, NoOrphans
<1>2. CASE \E q \in SetRequest : Serve(q)
  <2>1. PICK q \in SetRequest : Serve(q)
    BY <1>2
  <2>2. PICK d, l : d = q.command /\ l = d.local
    OBVIOUS
  <2>3. /\ domain' \in Nat \cup {None} /\ ids' \in Nat
        /\ accounts' \in [Locals -> Mailbox \cup {None}]
    BY <2>1, <2>2, ServeEffect
  <2>4. NoOrphans'
    BY <2>1, ServeNoOrphans
  <2>. QED
    BY <2>3, <2>4
<1>. QED
  BY <1>1, <1>2 DEF ServerStep
-----------------------------------------------------------------------------
(* A step of one run: it goes on or it ends.                               *)

\* What neither changes: the runs of the others, and what they know.
LEMMA OthersUntouched ==
    ASSUME MailInv, NEW c \in Commands, runs[c] # None, ServerStep, UNCHANGED others,
           strays' \subseteq strays \cup InFlight(c), faults' \in 0 .. MaxFaults,
           runs' \in [Commands -> Run \cup {None}], late' \subseteq late,
           status' \in [Commands -> Statuses],
           runs'[c] # None => runs'[c].next \in Asks(c),
           \A d \in Commands \ {c} :
               runs'[d] = runs[d] /\ status'[d] = status[d] /\ (d \in late' <=> d \in late)
    PROVE  /\ MailTypeOK' /\ OwnRequests' /\ NoOrphans' /\ ActingKnown'
           /\ \A d \in Commands : Unopposed(d)' <=> Unopposed(d)
           /\ \A d \in Commands \ {c} : Unopposed(d) =>
                  /\ runs'[d] # None /\ d \notin late' => Sound(d, runs[d])'
                  /\ status'[d] = "ok" => \A p \in Promises(d) : Kept(d, p)'
<1>. USE DEF MailInv
<1>1. InFlight(c) \subseteq SetRequest /\ \A q \in InFlight(c) : q.kind \in Asks(q.command) /\ q.command = c
  BY RequestOf DEF InFlight
<1>2. MailTypeOK'
  <2>1. strays' \subseteq SetRequest
    BY <1>1 DEF MailTypeOK
  <2>. QED
    BY <2>1, ServerStepTypes DEF MailTypeOK
<1>3. OwnRequests'
  <2>1. \A d \in Commands : runs'[d] # None => runs'[d].next \in Asks(d)
    BY DEF OwnRequests
  <2>2. \A q \in strays' : q.kind \in Asks(q.command)
    BY <1>1 DEF OwnRequests
  <2>. QED
    BY <2>1, <2>2 DEF OwnRequests
<1>4. NoOrphans'
  BY ServerStepTypes
<1>5. ActingKnown'
  <2>1. Acting' \subseteq Acting
    BY <1>1 DEF Acting
  <2>2. \A d \in Commands : status'[d] # "new" => status[d] # "new"
    BY RunsAreNotNew
  <2>. QED
    BY <2>1, <2>2 DEF ActingKnown
<1>6. \A d \in Commands : Unopposed(d)' <=> Unopposed(d)
  BY DEF Unopposed
<1>7. ASSUME NEW d \in Commands \ {c}, Unopposed(d)
      PROVE  /\ runs'[d] # None /\ d \notin late' => Sound(d, runs[d])'
             /\ status'[d] = "ok" => \A p \in Promises(d) : Kept(d, p)'
  <2>1. PICK run : run = runs[d]
    OBVIOUS
  <2>2. runs'[d] # None /\ d \notin late' => Sound(d, run)'
    BY <1>7, <2>1, StaysInForce
  <2>3. run = runs'[d]
    BY <2>1
  <2>4. status'[d] = "ok" => \A p \in Promises(d) : Kept(d, p)'
    BY <1>7, StaysInForce
  <2>. QED
    BY <2>2, <2>3, <2>4
<1>. QED
  BY <1>2, <1>3, <1>4, <1>5, <1>6, <1>7

\* A run that ends: success is answered only when its promises are kept.
LEMMA Ends ==
    ASSUME MailInv, NEW c \in Commands, runs[c] # None, ServerStep, UNCHANGED others,
           strays' \subseteq strays \cup InFlight(c), faults' \in 0 .. MaxFaults,
           NEW outcome \in {"ok", "failed"}, Finish(c, outcome),
           outcome = "ok" /\ c \notin late /\ Unopposed(c) => \A p \in Promises(c) : Kept(c, p)'
    PROVE  MailInv'
<1>1. /\ runs \in [Commands -> Run \cup {None}] /\ late \subseteq Commands
      /\ status \in [Commands -> Statuses]
      /\ RunsBegun
  BY DEF MailInv, MailTypeOK
<1>2. /\ runs' \in [Commands -> Run \cup {None}] /\ late' \subseteq late
      /\ status' \in [Commands -> Statuses]
      /\ runs'[c] = None /\ c \notin late'
      /\ status'[c] = IF c \in late THEN "timedOut" ELSE outcome
      /\ \A d \in Commands \ {c} :
             runs'[d] = runs[d] /\ status'[d] = status[d] /\ (d \in late' <=> d \in late)
  BY <1>1 DEF Finish, RunsBegun, Statuses
<1>3. /\ MailTypeOK' /\ OwnRequests' /\ NoOrphans' /\ ActingKnown'
      /\ \A d \in Commands : Unopposed(d)' <=> Unopposed(d)
      /\ \A d \in Commands \ {c} : Unopposed(d) =>
             /\ runs'[d] # None /\ d \notin late' => Sound(d, runs[d])'
             /\ status'[d] = "ok" => \A p \in Promises(d) : Kept(d, p)'
  BY <1>2, OthersUntouched
<1>4. RunsBegun'
  BY <1>1, <1>2 DEF RunsBegun
<1>5. OnTheWay'
  <2>. SUFFICES ASSUME NEW d \in Commands, runs'[d] # None, d \notin late', Unopposed(d)'
                PROVE  Sound(d, runs[d])'
    BY DEF OnTheWay
  <2>1. d # c
    BY <1>2
  <2>. QED
    BY <1>3, <2>1
<1>6. AnsweredIsInForce'
  <2>. SUFFICES ASSUME NEW d \in Commands, status'[d] = "ok", Unopposed(d)', NEW p \in Promises(d)
                PROVE  Kept(d, p)'
    BY DEF AnsweredIsInForce, Unopposed
  <2>1. CASE d = c
    <3>1. outcome = "ok" /\ c \notin late
      BY <1>2, <2>1
    <3>. QED
      BY <1>3, <2>1, <3>1
  <2>2. CASE d # c
    BY <1>3, <2>2
  <2>. QED
    BY <2>1, <2>2
<1>. QED
  BY <1>3, <1>4, <1>5, <1>6 DEF MailInv

\* A run that goes on.
LEMMA Advances ==
    ASSUME MailInv, NEW c \in Commands, runs[c] # None, ServerStep,
           UNCHANGED <<others, strays, faults>>,
           NEW run \in Run, run.next \in Asks(c), Continue(c, run),
           c \notin late /\ Unopposed(c) => Sound(c, run)'
    PROVE  MailInv'
<1>1. /\ runs \in [Commands -> Run \cup {None}] /\ late \subseteq Commands
      /\ status \in [Commands -> Statuses]
      /\ faults \in 0 .. MaxFaults /\ RunsBegun
  BY DEF MailInv, MailTypeOK
<1>2. /\ runs' \in [Commands -> Run \cup {None}] /\ late' = late /\ status' = status
      /\ runs'[c] = run
      /\ \A d \in Commands \ {c} : runs'[d] = runs[d]
  BY <1>1 DEF Continue
<1>3. /\ MailTypeOK' /\ OwnRequests' /\ NoOrphans' /\ ActingKnown'
      /\ \A d \in Commands : Unopposed(d)' <=> Unopposed(d)
      /\ \A d \in Commands \ {c} : Unopposed(d) =>
             /\ runs'[d] # None /\ d \notin late' => Sound(d, runs[d])'
             /\ status'[d] = "ok" => \A p \in Promises(d) : Kept(d, p)'
  BY <1>1, <1>2, OthersUntouched
<1>4. RunsBegun'
  <2>. SUFFICES ASSUME NEW d \in Commands
                PROVE  /\ runs'[d] # None => status'[d] = IF d \in late' THEN "timedOut" ELSE "running"
                       /\ d \in late' => runs'[d] # None
    BY DEF RunsBegun
  <2>1. runs'[d] # None <=> runs[d] # None
    BY <1>2, NoneIsNothing
  <2>. QED
    BY <1>1, <1>2, <2>1 DEF RunsBegun
<1>5. OnTheWay'
  <2>. SUFFICES ASSUME NEW d \in Commands, runs'[d] # None, d \notin late', Unopposed(d)'
                PROVE  Sound(d, runs[d])'
    BY DEF OnTheWay
  <2>1. CASE d = c
    BY <1>2, <1>3, <2>1
  <2>2. CASE d # c
    BY <1>3, <2>2
  <2>. QED
    BY <2>1, <2>2
<1>6. status'[c] # "ok"
  BY <1>1, <1>2, RunsAreNotNew
<1>7. AnsweredIsInForce'
  <2>. SUFFICES ASSUME NEW d \in Commands, status'[d] = "ok", Unopposed(d)', NEW p \in Promises(d)
                PROVE  Kept(d, p)'
    BY DEF AnsweredIsInForce, Unopposed
  <2>1. d # c
    BY <1>6
  <2>. QED
    BY <1>3, <2>1
<1>. QED
  BY <1>3, <1>4, <1>5, <1>7 DEF MailInv
-----------------------------------------------------------------------------
(* The requests of a run.                                                  *)

\* The run that takes a step.
LEMMA RunOf ==
    ASSUME MailInv, NEW c \in Commands, runs[c] # None
    PROVE  /\ runs[c] \in Run /\ runs[c].next \in Asks(c) /\ c.kind \in Kinds
           /\ c.local \in Locals /\ c.quota \in Nat
           /\ domain \in Nat \cup {None} /\ accounts \in [Locals -> Mailbox \cup {None}]
           /\ faults \in 0 .. MaxFaults
BY MailAssumption DEF MailInv, MailTypeOK, OwnRequests

\* A run that goes to its next request.
LEMMA NextRequest ==
    ASSUME NEW r \in Run, NEW next \in Lookups \cup Sets
    PROVE  /\ [r EXCEPT !.next = next] \in Run
           /\ [r EXCEPT !.next = next].next = next
           /\ [r EXCEPT !.next = next].domain = r.domain
BY DEF Run

\* The server does nothing: what it holds is what it held.
LEMMA NothingServed ==
    ASSUME UNCHANGED serverVars
    PROVE  ServerStep /\ domain' = domain /\ accounts' = accounts
BY DEF ServerStep, serverVars

LEMMA FindDomainStep ==
    ASSUME MailInv, NEW c \in Commands, FindDomain(c)
    PROVE  MailInv'
<1>1. runs[c] # None /\ runs[c].next = "findDomain"
  BY DEF FindDomain, At
<1>2. /\ runs[c] \in Run /\ c.kind \in Kinds /\ c.local \in Locals
      /\ domain \in Nat \cup {None} /\ faults \in 0 .. MaxFaults
  BY <1>1, RunOf
<1>3. /\ ServerStep /\ domain' = domain /\ accounts' = accounts
      /\ UNCHANGED <<strays, others, faults>>
  BY NothingServed DEF FindDomain
<1>. DEFINE found == [runs[c] EXCEPT !.domain = domain]
<1>. HIDE DEF found
<1>0. found \in Run /\ found.domain = domain
  BY <1>2 DEF Run, found
<1>4. PICK r \in Run : r = [runs[c] EXCEPT !.domain = domain] /\ r.domain = domain
  BY <1>0 DEF found
<1>5. CASE domain # None /\ c.kind = "createDomain"
  <2>1. Finish(c, "ok")
    BY <1>5 DEF FindDomain
  <2>2. \A p \in Promises(c) : Kept(c, p)'
    BY <1>3, <1>5, PromisesOf, KeptIs, ZenonT(60) DEF Kept
  <2>. QED
    BY <1>1, <1>2, <1>3, <2>1, <2>2, Ends
<1>6. CASE domain # None /\ c.kind # "createDomain"
  <2>0. PICK next \in Lookups \cup Sets :
            next = IF c.kind = "deleteDomain" THEN "destroyDomain" ELSE "findAccount"
    BY DEF Lookups, Sets
  <2>. DEFINE going == [r EXCEPT !.next = next]
  <2>. HIDE DEF going
  <2>a. going \in Run /\ going.next = next /\ going.domain = r.domain
    BY NextRequest DEF going
  <2>1. PICK run \in Run : run = [r EXCEPT !.next = next] /\ run.next = next /\ run.domain = domain
    BY <1>4, <2>a DEF going
  <2>2. Continue(c, run)
    BY <1>4, <1>6, <2>0, <2>1 DEF FindDomain
  <2>3. run.next \in Asks(c)
    BY <1>2, <1>6, <2>0, <2>1 DEF Asks, Kinds
  <2>4. Sound(c, run)'
    BY <1>3, <2>0, <2>1 DEF Sound
  <2>. QED
    BY <1>1, <1>3, <2>2, <2>3, <2>4, Advances
<1>7. CASE domain = None /\ c.kind \in {"createDomain", "createMailbox"} /\ ~r.inner
  <2>1. PICK run \in Run : run = [r EXCEPT !.next = "createDomain"] /\ run.next = "createDomain"
    BY NextRequest DEF Sets
  <2>2. Continue(c, run)
    BY <1>4, <1>7, <2>1 DEF FindDomain
  <2>3. run.next \in Asks(c)
    BY <1>7, <2>1 DEF Asks
  <2>4. Sound(c, run)'
    BY <2>1 DEF Sound
  <2>. QED
    BY <1>1, <1>3, <2>2, <2>3, <2>4, Advances
<1>8. CASE domain = None /\ ~(c.kind \in {"createDomain", "createMailbox"} /\ ~r.inner)
  <2>1. Finish(c, NothingThere(c)) /\ NothingThere(c) \in {"ok", "failed"}
    BY <1>4, <1>8 DEF FindDomain, NothingThere
  <2>2. accounts[c.local] = None
    BY <1>2, <1>8 DEF MailInv, NoOrphans
  <2>3. NothingThere(c) = "ok" => c.kind \in {"deleteDomain", "deleteMailbox"}
    BY DEF NothingThere
  <2>4. c.kind \in {"deleteDomain", "deleteMailbox"} => \A p \in Promises(c) : Kept(c, p)'
    BY <1>3, <1>8, <2>2, PromisesOf DEF Kept
  <2>. QED
    BY <1>1, <1>2, <1>3, <2>1, <2>3, <2>4, Ends
<1>. QED
  BY <1>5, <1>6, <1>7, <1>8

LEMMA FindAccountStep ==
    ASSUME MailInv, NEW c \in Commands, FindAccount(c)
    PROVE  MailInv'
<1>1. runs[c] # None /\ runs[c].next = "findAccount"
  BY DEF FindAccount, At
<1>2. /\ runs[c] \in Run /\ c.kind \in Kinds /\ c.local \in Locals /\ runs[c].next \in Asks(c)
      /\ domain \in Nat \cup {None} /\ faults \in 0 .. MaxFaults
      /\ accounts \in [Locals -> Mailbox \cup {None}]
  BY <1>1, RunOf
<1>3. /\ ServerStep /\ domain' = domain /\ accounts' = accounts
      /\ UNCHANGED <<strays, others, faults>>
  BY NothingServed DEF FindAccount
<1>4. c.kind \notin {"createDomain", "deleteDomain"}
  BY <1>1, <1>2, WhoAsks
<1>5. /\ Account(c) \in Nat \cup {None}
      /\ Account(c) = None => accounts[c.local] = None \/ runs[c].domain # domain
  BY <1>2, NoneIsNothing DEF Account, Mailbox
<1>6. PICK r \in Run : r = [runs[c] EXCEPT !.target = Account(c)]
  BY <1>2, <1>5 DEF Run
<1>7. CASE c.kind = "createMailbox" /\ ~r.inner
  <2>. DEFINE found == [r EXCEPT !.account = Account(c), !.inner = TRUE, !.next = "findDomain"]
  <2>0. found \in Run /\ found.next = "findDomain"
    BY <1>5 DEF Run, Lookups
  <2>1. PICK run \in Run :
            /\ run = IF Account(c) = None THEN [r EXCEPT !.next = "createAccount"] ELSE found
            /\ run.next \in {"createAccount", "findDomain"}
    <3>1. CASE Account(c) = None
      BY <3>1, NextRequest DEF Sets
    <3>2. CASE Account(c) # None
      BY <2>0, <3>2
    <3>. QED
      BY <3>1, <3>2
  <2>2. Continue(c, run)
    BY <1>6, <1>7, <2>1 DEF FindAccount
  <2>3. run.next \in Asks(c)
    BY <1>7, <2>1 DEF Asks
  <2>4. Sound(c, run)'
    BY <2>1 DEF Sound
  <2>. QED
    BY <1>1, <1>3, <2>2, <2>3, <2>4, Advances
<1>8. CASE ~(c.kind = "createMailbox" /\ ~r.inner) /\ Account(c) = None
  <2>1. Finish(c, NothingThere(c)) /\ NothingThere(c) \in {"ok", "failed"}
    BY <1>6, <1>8 DEF FindAccount, NothingThere
  <2>2. NothingThere(c) = "ok" => c.kind = "deleteMailbox"
    BY <1>4 DEF NothingThere
  <2>3. ASSUME c.kind = "deleteMailbox", c \notin late, Unopposed(c)
        PROVE  \A p \in Promises(c) : Kept(c, p)'
    <3>1. Sound(c, runs[c])
      BY <1>1, <2>3 DEF MailInv, OnTheWay
    <3>2. accounts[c.local] = None
      BY <1>1, <1>5, <1>8, <2>3, <3>1 DEF Sound
    <3>. QED
      BY <1>3, <2>3, <3>2, PromisesOf DEF Kept
  <2>. QED
    BY <1>1, <1>2, <1>3, <2>1, <2>2, <2>3, Ends
<1>9. CASE ~(c.kind = "createMailbox" /\ ~r.inner) /\ Account(c) # None
  <2>. DEFINE next == CASE c.kind = "deleteMailbox" -> "destroyAccount"
                        [] c.kind = "setQuota" -> "setQuota"
                        [] c.kind = "setAliases" ->
                               IF c.aliases = {} THEN "setAliases" ELSE "findAliasDomain"
                        [] OTHER -> "setPassword"
  <2>1. next \in Asks(c) /\ next \in Lookups \cup Sets
    BY <1>2, <1>4 DEF Asks, Kinds, Lookups, Sets
  <2>2. next # "findAccount" /\ (c.kind = "createMailbox" => next # "setQuota")
    OBVIOUS
  <2>3. PICK run \in Run : run = [r EXCEPT !.next = next] /\ run.next = next
    BY <2>1, NextRequest
  <2>4. Continue(c, run)
    BY <1>6, <1>9, <2>3 DEF FindAccount
  <2>5. Sound(c, run)'
    BY <2>2, <2>3 DEF Sound
  <2>. QED
    BY <1>1, <1>3, <2>1, <2>3, <2>4, <2>5, Advances
<1>. QED
  BY <1>7, <1>8, <1>9

LEMMA FindAliasDomainStep ==
    ASSUME MailInv, NEW c \in Commands, FindAliasDomain(c)
    PROVE  MailInv'
<1>1. runs[c] # None /\ runs[c].next = "findAliasDomain"
  BY DEF FindAliasDomain, At
<1>2. /\ runs[c] \in Run /\ runs[c].next \in Asks(c)
      /\ domain \in Nat \cup {None} /\ faults \in 0 .. MaxFaults
  BY <1>1, RunOf
<1>3. ServerStep /\ UNCHANGED <<strays, others, faults>>
  BY NothingServed DEF FindAliasDomain
<1>4. c.kind = "setAliases"
  BY <1>1, <1>2, WhoAsks
<1>5. CASE domain = None
  <2>1. Finish(c, "failed")
    BY <1>5 DEF FindAliasDomain
  <2>. QED
    BY <1>1, <1>2, <1>3, <2>1, Ends
<1>6. CASE domain # None
  <2>. DEFINE found == [runs[c] EXCEPT !.domain = domain, !.next = "setAliases"]
  <2>0. found \in Run /\ found.next = "setAliases"
    BY <1>2 DEF Run, Sets
  <2>1. PICK run \in Run : run = found /\ run.next = "setAliases"
    BY <2>0
  <2>2. Continue(c, run)
    BY <1>6, <2>1 DEF FindAliasDomain
  <2>3. run.next \in Asks(c)
    BY <1>4, <2>1 DEF Asks
  <2>4. Sound(c, run)'
    BY <1>4 DEF Sound
  <2>. QED
    BY <1>1, <1>3, <2>2, <2>3, <2>4, Advances
<1>. QED
  BY <1>5, <1>6

\* A /set request that the server has taken is in force when it is the last
\* one: what came before it, the password under the quota, was kept meanwhile.
LEMMA SetDone ==
    ASSUME MailInv, NEW c \in Commands, Requests(c), Serve(Request(c)),
           ~(c.kind = "createMailbox" /\ runs[c].next = "createDomain"),
           runs[c].next # "createAccount",
           ~(c.kind = "createMailbox" /\ runs[c].next = "setPassword" /\ c.quota > 0),
           c \notin late, Unopposed(c), NEW p \in Promises(c)
    PROVE  Kept(c, p)'
<1>1. runs[c] # None /\ runs[c].next \in Sets
  BY DEF Requests
<1>2. runs[c].next \in Asks(c) /\ c.kind \in Kinds /\ c.local \in Locals /\ c.quota \in Nat
  BY <1>1, RunOf
<1>3. PICK q \in SetRequest : q = Request(c) /\ q.kind = runs[c].next /\ q.command = c
  BY RequestOf DEF MailInv
<1>4. PICK l : l = c.local
  OBVIOUS
<1>5. Serve(q) /\ MailTypeOK
  BY <1>3 DEF MailInv
<1>6. CASE q.kind = "createDomain"
  <2>1. c.kind = "createDomain"
    BY <1>2, <1>3, <1>6, WhoAsks
  <2>2. domain' # None
    BY <1>3, <1>4, <1>5, <1>6, ServeEffect
  <2>. QED
    BY <2>1, <2>2, PromisesOf DEF Kept
<1>7. CASE q.kind = "destroyDomain"
  <2>1. c.kind = "deleteDomain"
    BY <1>2, <1>3, <1>7, WhoAsks
  <2>2. domain' = None
    BY <1>3, <1>4, <1>5, <1>7, ServeEffect
  <2>. QED
    BY <2>1, <2>2, PromisesOf DEF Kept
<1>8. CASE q.kind = "destroyAccount"
  <2>1. c.kind = "deleteMailbox"
    BY <1>2, <1>3, <1>8, WhoAsks
  <2>2. accounts'[c.local] = None
    BY <1>3, <1>4, <1>5, <1>8, ServeEffect
  <2>. QED
    BY <2>1, <2>2, PromisesOf DEF Kept
<1>9. CASE q.kind = "setPassword"
  <2>1. c.kind = "setPassword" \/ (c.kind = "createMailbox" /\ ~(c.quota > 0))
    BY <1>2, <1>3, <1>9, WhoAsks
  <2>2. accounts'[c.local] # None /\ accounts'[c.local].password = c.password
    BY <1>3, <1>4, <1>5, <1>9, ServeEffect
  <2>3. p \in {"mailbox", "password"}
    BY <2>1, PromisesOf
  <2>. QED
    BY <2>2, <2>3 DEF Kept
<1>10. CASE q.kind = "setQuota"
  <2>1. c.kind = "setQuota" \/ c.kind = "createMailbox"
    BY <1>2, <1>3, <1>10, WhoAsks
  <2>2. /\ accounts'[c.local] # None /\ accounts'[c.local].quota = c.quota
        /\ accounts'[c.local].password = accounts[c.local].password
    BY <1>3, <1>4, <1>5, <1>10, ServeEffect
  <2>3. CASE c.kind = "setQuota"
    BY <2>2, <2>3, PromisesOf DEF Kept
  <2>4. CASE c.kind = "createMailbox"
    <3>1. Sound(c, runs[c])
      BY <1>1 DEF MailInv, OnTheWay
    <3>2. accounts[c.local].password = c.password
      BY <1>3, <1>10, <2>4, <3>1, KeptIs DEF Sound
    <3>3. p \in {"mailbox", "password", "quota"}
      BY <2>4, PromisesOf
    <3>. QED
      BY <2>2, <3>2, <3>3 DEF Kept
  <2>. QED
    BY <2>1, <2>3, <2>4
<1>11. CASE q.kind = "setAliases"
  <2>1. c.kind = "setAliases"
    BY <1>2, <1>3, <1>11, WhoAsks
  <2>2. accounts'[c.local] # None /\ accounts'[c.local].aliases = c.aliases
    BY <1>3, <1>4, <1>5, <1>11, ServeEffect
  <2>. QED
    BY <2>1, <2>2, PromisesOf DEF Kept
<1>. QED
  BY <1>1, <1>3, <1>6, <1>7, <1>8, <1>9, <1>10, <1>11 DEF Sets

LEMMA SetAnsweredStep ==
    ASSUME MailInv, NEW c \in Commands, SetAnswered(c)
    PROVE  MailInv'
<1>1. Requests(c) /\ Serve(Request(c)) /\ UNCHANGED <<strays, others, faults>>
  BY DEF SetAnswered
<1>2. runs[c] # None /\ runs[c].next \in Sets
  BY <1>1 DEF Requests
<1>3. /\ runs[c] \in Run /\ runs[c].next \in Asks(c) /\ c.kind \in Kinds
      /\ c.local \in Locals /\ c.quota \in Nat /\ faults \in 0 .. MaxFaults
  BY <1>2, RunOf
<1>4. PICK q \in SetRequest :
          /\ q = Request(c) /\ q.kind = runs[c].next /\ q.command = c
          /\ q.kind \in Asks(q.command) /\ q.command \in Acting
  BY <1>1, RequestOf DEF MailInv
<1>5. ServerStep
  BY <1>1, <1>4 DEF ServerStep
<1>6. domain' \in Nat \cup {None} /\ accounts' \in [Locals -> Mailbox \cup {None}]
  BY <1>5, ServerStepTypes DEF MailInv
<1>7. CASE c.kind = "createMailbox" /\ runs[c].next = "createDomain"
  <2>. DEFINE going == [runs[c] EXCEPT !.domain = domain', !.next = "findAccount"]
  <2>. HIDE DEF going
  <2>1. going \in Run /\ going.next = "findAccount"
    BY <1>3, <1>6 DEF Run, Lookups, going
  <2>2. Continue(c, going)
    BY <1>7 DEF SetAnswered, going
  <2>3. PICK run \in Run : run = going
    BY <2>1
  <2>4. run.next \in Asks(c)
    BY <1>7, <2>1, <2>3 DEF Asks
  <2>5. Sound(c, run)'
    BY <1>7, <2>1, <2>3 DEF Sound
  <2>. QED
    BY <1>1, <1>2, <1>5, <2>2, <2>3, <2>4, <2>5, Advances
<1>8. CASE runs[c].next = "createAccount"
  <2>1. c.kind = "createMailbox"
    BY <1>3, <1>8, WhoAsks
  <2>2. PICK l : l = c.local
    OBVIOUS
  <2>3. accounts'[l] # None
    BY <1>1, <1>4, <1>8, <2>2, ServeEffect DEF MailInv
  <2>4. accounts'[c.local].id \in Nat
    BY <1>3, <1>6, <2>2, <2>3 DEF Mailbox
  <2>. DEFINE going == [runs[c] EXCEPT !.account = accounts'[c.local].id,
                                       !.inner = TRUE, !.next = "findDomain"]
  <2>. HIDE DEF going
  <2>5. going \in Run /\ going.next = "findDomain"
    BY <1>3, <2>4 DEF Run, Lookups, going
  <2>6. Continue(c, going)
    BY <1>8 DEF SetAnswered, going
  <2>7. PICK run \in Run : run = going
    BY <2>5
  <2>8. run.next \in Asks(c)
    BY <2>1, <2>5, <2>7 DEF Asks
  <2>9. Sound(c, run)'
    BY <2>5, <2>7 DEF Sound
  <2>. QED
    BY <1>1, <1>2, <1>5, <2>6, <2>7, <2>8, <2>9, Advances
<1>9. CASE c.kind = "createMailbox" /\ runs[c].next = "setPassword" /\ c.quota > 0
  <2>. DEFINE going == [runs[c] EXCEPT !.next = "setQuota"]
  <2>. HIDE DEF going
  <2>1. going \in Run /\ going.next = "setQuota"
    BY <1>3 DEF Run, Sets, going
  <2>2. Continue(c, going)
    BY <1>9 DEF SetAnswered, going
  <2>3. PICK run \in Run : run = going
    BY <2>1
  <2>4. run.next \in Asks(c)
    BY <1>9, <2>1, <2>3 DEF Asks
  <2>5. PICK l : l = c.local
    OBVIOUS
  <2>6. accounts'[l] # None /\ accounts'[l].password = c.password
    BY <1>1, <1>4, <1>9, <2>5, ServeEffect DEF MailInv
  <2>7. Sound(c, run)'
    BY <1>9, <2>5, <2>6 DEF Sound, Kept
  <2>. QED
    BY <1>1, <1>2, <1>5, <2>2, <2>3, <2>4, <2>7, Advances
<1>10. CASE /\ ~(c.kind = "createMailbox" /\ runs[c].next = "createDomain")
            /\ runs[c].next # "createAccount"
            /\ ~(c.kind = "createMailbox" /\ runs[c].next = "setPassword" /\ c.quota > 0)
  <2>1. Finish(c, "ok")
    BY <1>10 DEF SetAnswered
  <2>2. c \notin late /\ Unopposed(c) => \A p \in Promises(c) : Kept(c, p)'
    BY <1>1, <1>10, SetDone
  <2>. QED
    BY <1>1, <1>2, <1>3, <1>5, <2>1, <2>2, Ends
<1>. QED
  BY <1>7, <1>8, <1>9, <1>10

LEMMA SetRejectedStep ==
    ASSUME MailInv, NEW c \in Commands, SetRejected(c)
    PROVE  MailInv'
<1>1. runs[c] # None
  BY DEF SetRejected, Requests
<1>2. faults \in 0 .. MaxFaults
  BY <1>1, RunOf
<1>3. ServerStep /\ UNCHANGED <<strays, others, faults>> /\ Finish(c, "failed")
  BY NothingServed DEF SetRejected
<1>. QED
  BY <1>1, <1>2, <1>3, Ends

LEMMA RequestFailsStep ==
    ASSUME MailInv, NEW c \in Commands, RequestFails(c)
    PROVE  MailInv'
<1>1. runs[c] # None /\ Fault /\ strays' = strays \cup InFlight(c) /\ UNCHANGED others
  BY DEF RequestFails
<1>2. faults \in 0 .. MaxFaults
  BY <1>1, RunOf
<1>3. faults' \in 0 .. MaxFaults
  BY <1>1, <1>2, MailAssumption DEF Fault
<1>4. ServerStep /\ Finish(c, "failed")
  BY NothingServed DEF RequestFails
<1>. QED
  BY <1>1, <1>3, <1>4, Ends
-----------------------------------------------------------------------------
(* Commands left behind, late requests, crashes, and the next command.     *)

LEMMA LeftBehindStep ==
    ASSUME MailInv, NEW c \in Commands, LeftBehind(c)
    PROVE  MailInv'
<1>. USE DEF MailInv
<1>1. /\ runs[c] # None /\ c \notin late /\ Fault
      /\ late' = late \cup {c} /\ status' = [status EXCEPT ![c] = "timedOut"]
      /\ domain' = domain /\ accounts' = accounts /\ ids' = ids
      /\ runs' = runs /\ strays' = strays /\ others' = others
  BY DEF LeftBehind, serverVars
<1>2. status[c] # "new"
  BY <1>1, RunsAreNotNew
<1>3. MailTypeOK'
  BY <1>1, MailAssumption DEF MailTypeOK, Statuses, Fault
<1>4. /\ status'[c] = "timedOut"
      /\ \A d \in Commands \ {c} : status'[d] = status[d]
  BY <1>1 DEF MailTypeOK
<1>5. OwnRequests'
  BY <1>1 DEF OwnRequests
<1>6. NoOrphans'
  BY <1>1 DEF NoOrphans
<1>7. RunsBegun'
  <2>1. \A d \in Commands \ {c} : d \in late' <=> d \in late
    BY <1>1
  <2>. QED
    BY <1>1, <1>4, <2>1 DEF RunsBegun
<1>8. ActingKnown'
  <2>1. Acting' = Acting
    BY <1>1 DEF Acting
  <2>. QED
    BY <1>1, <1>2, <1>4, <2>1 DEF ActingKnown
<1>9. \A d \in Commands : Unopposed(d)' <=> Unopposed(d)
  BY <1>1 DEF Unopposed
<1>10. OnTheWay'
  <2>. SUFFICES ASSUME NEW d \in Commands, runs'[d] # None, d \notin late', Unopposed(d)'
                PROVE  Sound(d, runs[d])'
    BY DEF OnTheWay
  <2>1. Sound(d, runs[d])
    BY <1>1, <1>9 DEF OnTheWay
  <2>. QED
    BY <1>1, <2>1 DEF Sound, Kept
<1>11. AnsweredIsInForce'
  <2>. SUFFICES ASSUME NEW d \in Commands, status'[d] = "ok", Unopposed(d)', NEW p \in Promises(d)
                PROVE  Kept(d, p)'
    BY DEF AnsweredIsInForce, Unopposed
  <2>1. d # c
    BY <1>4
  <2>2. Kept(d, p)
    BY <1>4, <1>9, <2>1 DEF AnsweredIsInForce, Unopposed
  <2>. QED
    BY <1>1, <2>2 DEF Kept
<1>. QED
  BY <1>3, <1>5, <1>6, <1>7, <1>8, <1>10, <1>11

\* The stray request is one of a command that everybody knows may act.
LEMMA StrayArrivesStep ==
    ASSUME MailInv, NEW q \in strays, StrayArrives(q)
    PROVE  MailInv'
<1>. USE DEF MailInv
<1>1. /\ strays' = strays \ {q} /\ runs' = runs /\ late' = late /\ status' = status
      /\ others' = others /\ faults' = faults
  BY DEF StrayArrives
<1>2. q \in SetRequest /\ q.kind \in Asks(q.command) /\ q.command \in Acting
  BY DEF MailTypeOK, OwnRequests, Acting
<1>3. ServerStep
  BY <1>2 DEF StrayArrives, ServerStep
<1>4. MailTypeOK' /\ NoOrphans'
  BY <1>1, <1>3, ServerStepTypes DEF MailTypeOK
<1>5. OwnRequests' /\ RunsBegun'
  BY <1>1 DEF OwnRequests, RunsBegun
<1>6. ActingKnown'
  <2>1. Acting' \subseteq Acting
    BY <1>1 DEF Acting
  <2>. QED
    BY <1>1, <2>1 DEF ActingKnown
<1>7. \A d \in Commands : Unopposed(d)' <=> Unopposed(d)
  BY <1>1 DEF Unopposed
<1>8. OnTheWay'
  <2>. SUFFICES ASSUME NEW d \in Commands, runs'[d] # None, d \notin late', Unopposed(d)'
                PROVE  Sound(d, runs[d])'
    BY DEF OnTheWay
  <2>1. PICK run : run = runs[d]
    OBVIOUS
  <2>2. Sound(d, run)'
    BY <1>1, <1>3, <1>7, <2>1, StaysInForce
  <2>3. run = runs'[d]
    BY <1>1, <2>1
  <2>. QED
    BY <2>2, <2>3
<1>9. AnsweredIsInForce'
  <2>. SUFFICES ASSUME NEW d \in Commands, status'[d] = "ok", Unopposed(d)', NEW p \in Promises(d)
                PROVE  Kept(d, p)'
    BY DEF AnsweredIsInForce, Unopposed
  <2>. QED
    BY <1>1, <1>3, <1>7, StaysInForce
<1>. QED
  BY <1>4, <1>5, <1>6, <1>8, <1>9

LEMMA CrashStep ==
    ASSUME MailInv, Crash
    PROVE  MailInv'
<1>. USE DEF MailInv
<1>1. /\ Fault /\ strays' = strays \cup UNION {InFlight(c) : c \in Commands}
      /\ runs' = [c \in Commands |-> None] /\ late' = {}
      /\ domain' = domain /\ accounts' = accounts /\ ids' = ids /\ others' = others
  BY DEF Crash, serverVars
<1>2. /\ status' \in [Commands -> Statuses]
      /\ \A c \in Commands : status'[c] = "ok" => status[c] = "ok"
      /\ \A c \in Commands : status'[c] # "new" => status[c] # "new"
  <2>1. PICK forgotten \in SUBSET {c \in Commands : status[c] = "timedOut"} :
            status' = [c \in Commands |->
                           IF status[c] = "running" \/ c \in forgotten THEN "failed"
                           ELSE status[c]]
    BY DEF Crash
  <2>2. status \in [Commands -> Statuses]
    BY DEF MailTypeOK
  <2>. QED
    BY <2>1, <2>2 DEF Statuses
<1>3. ASSUME NEW q \in strays'
      PROVE  q \in SetRequest /\ q.kind \in Asks(q.command) /\ q.command \in Acting
  <2>1. CASE q \in strays
    BY <2>1 DEF MailTypeOK, OwnRequests, Acting
  <2>2. CASE q \notin strays
    <3>1. PICK c \in Commands : q \in InFlight(c)
      BY <1>1, <2>2
    <3>2. Requests(c) /\ q = Request(c)
      BY <3>1 DEF InFlight
    <3>. QED
      BY <3>2, RequestOf
  <2>. QED
    BY <2>1, <2>2
<1>4. MailTypeOK'
  <2>1. strays' \subseteq SetRequest
    BY <1>3
  <2>. QED
    BY <1>1, <1>2, <2>1, MailAssumption DEF MailTypeOK, Fault
<1>5. OwnRequests'
  BY <1>1, <1>3 DEF OwnRequests
<1>6. NoOrphans' /\ RunsBegun' /\ OnTheWay'
  BY <1>1 DEF NoOrphans, RunsBegun, OnTheWay
<1>7. ActingKnown'
  <2>1. Acting' \subseteq Acting
    BY <1>1, <1>3 DEF Acting
  <2>2. \A c \in Commands : status'[c] # "new" => status[c] # "new"
    BY <1>2
  <2>. QED
    BY <1>1, <2>1, <2>2 DEF ActingKnown
<1>8. AnsweredIsInForce'
  <2>. SUFFICES ASSUME NEW d \in Commands, status'[d] = "ok", Unopposed(d)', NEW p \in Promises(d)
                PROVE  Kept(d, p)'
    BY DEF AnsweredIsInForce, Unopposed
  <2>1. status[d] = "ok"
    BY <1>2
  <2>2. Unopposed(d)
    BY <1>1 DEF Unopposed
  <2>3. Kept(d, p)
    BY <2>1, <2>2 DEF AnsweredIsInForce, Unopposed
  <2>. QED
    BY <1>1, <2>3 DEF Kept
<1>. QED
  BY <1>4, <1>5, <1>6, <1>7, <1>8

\* The command that begins is one more that may undo what others promised,
\* and whatever is still under way may undo what it will promise.
LEMMA BeginStep ==
    ASSUME MailInv, NEW c \in Commands, Begin(c)
    PROVE  MailInv'
<1>. USE DEF MailInv
<1>1. /\ status[c] \in {"new", "failed"}
      /\ \A d \in Commands : runs[d] # None => d \in late
      /\ runs' = [runs EXCEPT ![c] = NewRun] /\ status' = [status EXCEPT ![c] = "running"]
      /\ others' = [d \in Commands |-> IF d = c THEN Acting \ {c}
                                        ELSE IF status[d] = "new" THEN {} ELSE others[d] \cup {c}]
      /\ domain' = domain /\ accounts' = accounts /\ ids' = ids
      /\ late' = late /\ strays' = strays /\ faults' = faults
  BY DEF Begin, serverVars
<1>2. NewRun \in Run /\ NewRun.next = "findDomain" /\ NewRun # None
  <2>1. NewRun \in Run /\ NewRun.next = "findDomain"
    BY DEF NewRun, Run, Lookups
  <2>. QED
    BY <2>1, NoneIsNothing
<1>3. /\ runs'[c] = NewRun /\ status'[c] = "running"
      /\ \A d \in Commands \ {c} : runs'[d] = runs[d] /\ status'[d] = status[d]
  BY <1>1 DEF MailTypeOK
<1>4. runs[c] = None /\ c \notin late
  BY <1>1 DEF RunsBegun
<1>5. Acting \subseteq Commands
  BY DEF Acting, MailTypeOK, SetRequest
<1>6. MailTypeOK'
  <2>1. others' \in [Commands -> SUBSET Commands]
    BY <1>1, <1>5 DEF MailTypeOK
  <2>2. /\ runs' \in [Commands -> Run \cup {None}]
        /\ status' \in [Commands -> Statuses]
    BY <1>1, <1>2 DEF MailTypeOK, Statuses
  <2>. QED
    BY <1>1, <2>1, <2>2 DEF MailTypeOK
<1>7. OwnRequests'
  <2>1. "findDomain" \in Asks(c)
    <3>1. c.kind \in Kinds
      BY MailAssumption
    <3>. QED
      BY <3>1 DEF Asks, Kinds
  <2>2. \A d \in Commands : runs'[d] # None => runs'[d].next \in Asks(d)
    BY <1>2, <1>3, <2>1 DEF OwnRequests
  <2>. QED
    BY <1>1, <2>2 DEF OwnRequests
<1>8. NoOrphans'
  BY <1>1 DEF NoOrphans
<1>9. RunsBegun'
  BY <1>1, <1>2, <1>3, <1>4 DEF RunsBegun
<1>10. ActingKnown'
  <2>1. Acting' \subseteq Acting \cup {c}
    BY <1>1, <1>3 DEF Acting
  <2>2. ASSUME NEW d \in Commands, status'[d] # "new"
        PROVE  Acting \cup {c} \subseteq others'[d] \cup {d}
    <3>1. CASE d = c
      BY <1>1, <3>1
    <3>2. CASE d # c
      <4>1. others'[d] = others[d] \cup {c} /\ status[d] # "new"
        BY <1>1, <1>3, <2>2, <3>2
      <4>. QED
        BY <4>1 DEF ActingKnown
    <3>. QED
      BY <3>1, <3>2
  <2>. QED
    BY <2>1, <2>2 DEF ActingKnown
<1>11. OnTheWay'
  <2>. SUFFICES ASSUME NEW d \in Commands, runs'[d] # None, d \notin late'
                PROVE  Sound(d, runs[d])'
    BY DEF OnTheWay
  <2>1. d = c
    BY <1>1, <1>3
  <2>2. runs'[d].next = "findDomain"
    BY <1>2, <1>3, <2>1
  <2>. QED
    BY <2>2 DEF Sound
<1>12. AnsweredIsInForce'
  <2>. SUFFICES ASSUME NEW d \in Commands, status'[d] = "ok", Unopposed(d)', NEW p \in Promises(d)
                PROVE  Kept(d, p)'
    BY DEF AnsweredIsInForce, Unopposed
  <2>1. d # c /\ status[d] = "ok"
    BY <1>3
  <2>2. others'[d] = others[d] \cup {c}
    BY <1>1, <2>1
  <2>3. Unopposed(d)
    BY <2>2 DEF Unopposed
  <2>4. Kept(d, p)
    BY <2>1, <2>3 DEF AnsweredIsInForce, Unopposed
  <2>. QED
    BY <1>1, <2>4 DEF Kept
<1>. QED
  BY <1>6, <1>7, <1>8, <1>9, <1>10, <1>11, <1>12
-----------------------------------------------------------------------------
LEMMA MailInitInv == MailInit => MailInv
<1>. SUFFICES ASSUME MailInit PROVE MailInv
  OBVIOUS
<1>1. PICK old \in SUBSET Locals :
          /\ domain = None => old = {}
          /\ accounts = [l \in Locals |-> IF l \in old THEN NewAccount(0) ELSE None]
  BY DEF MailInit
<1>2. NewAccount(0) \in Mailbox
  BY DEF NewAccount, Mailbox
<1>3. MailTypeOK
  BY <1>1, <1>2, MailAssumption DEF MailInit, MailTypeOK, Statuses
<1>4. NoOrphans
  BY <1>1 DEF NoOrphans
<1>5. OwnRequests /\ RunsBegun /\ ActingKnown /\ OnTheWay /\ AnsweredIsInForce
  BY DEF MailInit, OwnRequests, RunsBegun, ActingKnown, Acting, OnTheWay, AnsweredIsInForce
<1>. QED
  BY <1>3, <1>4, <1>5 DEF MailInv

LEMMA MailStep == MailInv /\ [MailNext]_mailVars => MailInv'
<1>. SUFFICES ASSUME MailInv, [MailNext]_mailVars PROVE MailInv'
  OBVIOUS
<1>1. ASSUME NEW c \in Commands, Begin(c) \/ Step(c) \/ RequestFails(c) \/ LeftBehind(c)
      PROVE  MailInv'
  BY <1>1, BeginStep, FindDomainStep, FindAccountStep, FindAliasDomainStep, SetAnsweredStep,
     SetRejectedStep, RequestFailsStep, LeftBehindStep, Zenon DEF Step
<1>2. CASE UNCHANGED mailVars
  <2>1. MailTypeOK' /\ OwnRequests' /\ NoOrphans' /\ RunsBegun'
    BY <1>2 DEF mailVars, serverVars, MailInv, MailTypeOK, OwnRequests, NoOrphans, RunsBegun
  <2>2. ActingKnown' /\ OnTheWay' /\ AnsweredIsInForce'
    BY <1>2, ZenonT(60) DEF mailVars, serverVars, MailInv, ActingKnown, Acting, OnTheWay, Unopposed, Sound,
       AnsweredIsInForce, Kept
  <2>. QED
    BY <2>1, <2>2 DEF MailInv
<1>. QED
  BY <1>1, <1>2, StrayArrivesStep, CrashStep, Zenon DEF MailNext

LEMMA MailAlways == MailSpec => []MailInv
<1>. QED
  BY MailInitInv, MailStep, PTL DEF MailSpec

\* The runs of manager.go, the requests they leave behind and the server's
\* records keep their types, for every set of commands: what a run puts in its
\* local variables is an id of the server's, or nothing.
THEOREM MailTypes == MailSpec => []MailTypeOK
<1>1. MailInv => MailTypeOK
  BY DEF MailInv
<1>. QED
  BY <1>1, MailAlways, PTL

\* What a mail command answered with success is so and stays so until a command
\* that contradicts it acts (the results "active" and "absent" of manager.go),
\* for every set of commands and every number of lost answers, requests that
\* arrive late, commands left behind by their timeout, retries and crashes.
THEOREM AnswersInForce == MailSpec => []AnsweredIsInForce
<1>1. MailInv => AnsweredIsInForce
  BY DEF MailInv
<1>. QED
  BY <1>1, MailAlways, PTL
=============================================================================
