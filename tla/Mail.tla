-------------------------------- MODULE Mail ---------------------------------
(***************************************************************************)
(* internal/mail: the commands that administer one domain of the mail      *)
(* server, each a sequence of JMAP requests.                               *)
(*                                                                         *)
(* Mail commands take no site fence.  The poll loop runs one command at a  *)
(* time, but a command that timed out goes on behind the next ones, which  *)
(* may ask for the same under another key.  A request whose answer does    *)
(* not come may still reach the server, much later.                        *)
(*                                                                         *)
(* The server is external: it gives out ids that it never reuses, keeps    *)
(* addresses unique and rejects what names an id that is gone.             *)
(***************************************************************************)
EXTENDS Naturals, FiniteSets

CONSTANTS
    Commands,       \* the mail commands that Control sends, as records with their key
    Locals,         \* the local parts of the domain's addresses
    WeakPasswords,  \* the ones the server's policy refuses
    None,           \* nothing there
    MaxCommands,    \* bound: different commands sent in a behaviour
    MaxFaults       \* bound: lost answers, commands left behind and crashes

Kinds == {"createDomain", "deleteDomain", "createMailbox", "setPassword",
          "setQuota", "deleteMailbox", "setAliases"}

\* The requests of a command: lookups, and /set requests that change the server.
Lookups == {"findDomain", "findAccount", "findAliasDomain"}
Sets == {"createDomain", "destroyDomain", "createAccount", "destroyAccount",
         "setPassword", "setQuota", "setAliases"}

ASSUME MailAssumption ==
    /\ \A c \in Commands : c.kind \in Kinds /\ c.local \in Locals /\ c.quota \in Nat
    /\ MaxCommands \in Nat /\ MaxFaults \in Nat

VARIABLES
    domain,         \* the domain's id on the server, or None
    accounts,       \* the server's account for each local part, or None
    ids,            \* ids the server has given out
    runs,           \* the run of each command, or None
    late,           \* the runs that the executor has stopped waiting for
    status,         \* what Control knows of each command
    strays,         \* requests given up that may still reach the server
    others,         \* history: commands that could act since each last began
    faults

serverVars == <<domain, accounts, ids>>
mailVars == <<serverVars, runs, late, status, strays, others, faults>>

\* A run: the request it makes next, the ids it holds in local variables, and
\* whether CreateMailbox is inside SetPassword, which looks both up again.
NewRun == [next |-> "findDomain", domain |-> None, account |-> None,
           target |-> None, inner |-> FALSE]

NewAccount(id) == [id |-> id, password |-> None, quota |-> 0, aliases |-> {}]

Mailbox == [id: Nat, password: {c.password : c \in Commands} \cup {None}, quota: Nat,
            aliases: {c.aliases : c \in Commands} \cup {{}}]
Run == [next: Lookups \cup Sets, domain: Nat \cup {None}, account: Nat \cup {None},
        target: Nat \cup {None}, inner: BOOLEAN]
SetRequest == [kind: Sets, command: Commands, domain: Nat \cup {None}, account: Nat \cup {None}]

ASSUME NoneIsNothing == None \notin Nat /\ None \notin Mailbox /\ None \notin Run

\* A timeout is terminal.
Statuses == {"new", "running", "ok", "failed", "timedOut"}

MailTypeOK ==
    /\ domain \in Nat \cup {None}
    /\ accounts \in [Locals -> Mailbox \cup {None}]
    /\ ids \in Nat
    /\ runs \in [Commands -> Run \cup {None}]
    /\ late \subseteq Commands
    /\ status \in [Commands -> Statuses]
    /\ strays \subseteq SetRequest
    /\ others \in [Commands -> SUBSET Commands]
    /\ faults \in 0 .. MaxFaults

\* The server is new, or has the domain and some mailboxes from before.
MailInit ==
    /\ domain \in {None, 0}
    /\ \E old \in SUBSET Locals :
           /\ domain = None => old = {}
           /\ accounts = [l \in Locals |-> IF l \in old THEN NewAccount(0) ELSE None]
    /\ ids = 0
    /\ runs = [c \in Commands |-> None]
    /\ late = {}
    /\ status = [c \in Commands |-> "new"]
    /\ strays = {}
    /\ others = [c \in Commands |-> {}]
    /\ faults = 0
-----------------------------------------------------------------------------
(* The server.  A request is a record of its kind, its command, for the    *)
(* values in it, and the ids in it.                                        *)

Aliases(l) == IF accounts[l] = None THEN {} ELSE accounts[l].aliases

\* The addresses of all mailboxes but l, their aliases included.
AddressesBut(l) ==
    {m \in Locals \ {l} : accounts[m] # None} \cup UNION {Aliases(m) : m \in Locals \ {l}}

Holds(l, id) == accounts[l] # None /\ accounts[l].id = id

Acceptable(q) ==
    LET l == q.command.local
    IN  CASE q.kind = "createDomain" -> domain = None
          [] q.kind = "destroyDomain" -> domain # None /\ domain = q.domain
          [] q.kind = "createAccount" ->
                 /\ domain # None /\ domain = q.domain
                 /\ accounts[l] = None /\ l \notin AddressesBut(l)
          [] q.kind = "setPassword" ->
                 Holds(l, q.account) /\ q.command.password \notin WeakPasswords
          [] q.kind = "setAliases" ->
                 /\ Holds(l, q.account) /\ domain = q.domain
                 /\ q.command.aliases \cap AddressesBut(l) = {}
          [] OTHER -> Holds(l, q.account)

\* A domain goes with its mailboxes, or is refused while it has some.
Serve(q) ==
    LET l == q.command.local
    IN  /\ Acceptable(q)
        /\ domain' = CASE q.kind = "destroyDomain" -> None
                       [] q.kind = "createDomain" -> ids + 1
                       [] OTHER -> domain
        /\ ids' = IF q.kind \in {"createDomain", "createAccount"} THEN ids + 1 ELSE ids
        /\ accounts' =
               CASE q.kind = "createDomain" -> accounts
                 [] q.kind = "destroyDomain" -> [m \in Locals |-> None]
                 [] q.kind = "destroyAccount" -> [accounts EXCEPT ![l] = None]
                 [] q.kind = "createAccount" ->
                        [accounts EXCEPT ![l] = NewAccount(ids + 1)]
                 [] q.kind = "setPassword" ->
                        [accounts EXCEPT ![l].password = q.command.password]
                 [] q.kind = "setQuota" -> [accounts EXCEPT ![l].quota = q.command.quota]
                 [] q.kind = "setAliases" ->
                        [accounts EXCEPT ![l].aliases = q.command.aliases]

Refused(q) ==
    \/ ~Acceptable(q)
    \/ q.kind = "destroyDomain" /\ \E l \in Locals : accounts[l] # None
-----------------------------------------------------------------------------
(* The commands.  Each request either continues the run or ends it.        *)

\* The end of a run.  What becomes of one that was left behind nobody is told.
Finish(c, outcome) ==
    /\ runs' = [runs EXCEPT ![c] = None]
    /\ late' = late \ {c}
    /\ status' = [status EXCEPT ![c] = IF c \in late THEN @ ELSE outcome]

Continue(c, run) ==
    /\ runs' = [runs EXCEPT ![c] = run]
    /\ UNCHANGED <<late, status>>

At(c, request) == runs[c] # None /\ runs[c].next = request

\* Mutant of NothingThere: deleting what is gone is an error.
NothingThereFails(c) == "failed"

\* With no such domain or mailbox, a deletion has nothing to do, and mailboxID
\* fails.
NothingThere(c) == IF c.kind \in {"deleteDomain", "deleteMailbox"} THEN "ok" ELSE "failed"

FindDomain(c) ==
    /\ At(c, "findDomain")
    /\ LET run == [runs[c] EXCEPT !.domain = domain]
           creates == c.kind \in {"createDomain", "createMailbox"} /\ ~run.inner
       IN  IF domain # None
           THEN CASE c.kind = "createDomain" -> Finish(c, "ok")
                  [] c.kind = "deleteDomain" ->
                         Continue(c, [run EXCEPT !.next = "destroyDomain"])
                  [] OTHER -> Continue(c, [run EXCEPT !.next = "findAccount"])
           ELSE IF creates THEN Continue(c, [run EXCEPT !.next = "createDomain"])
           ELSE Finish(c, NothingThere(c))
    /\ UNCHANGED <<serverVars, strays, others, faults>>

\* findAccount matches the id of the domain that was looked up before.
Account(c) ==
    IF accounts[c.local] # None /\ runs[c].domain = domain
    THEN accounts[c.local].id ELSE None

FindAccount(c) ==
    /\ At(c, "findAccount")
    /\ LET id == Account(c)
           run == [runs[c] EXCEPT !.target = id]
       IN  CASE c.kind = "createMailbox" /\ ~run.inner ->
                    Continue(c, IF id = None
                                THEN [run EXCEPT !.next = "createAccount"]
                                ELSE [run EXCEPT !.account = id, !.inner = TRUE,
                                                 !.next = "findDomain"])
             [] OTHER ->
                    IF id = None THEN Finish(c, NothingThere(c))
                    ELSE Continue(c, [run EXCEPT !.next =
                             CASE c.kind = "deleteMailbox" -> "destroyAccount"
                               [] c.kind = "setQuota" -> "setQuota"
                               [] c.kind = "setAliases" ->
                                      IF c.aliases = {} THEN "setAliases" ELSE "findAliasDomain"
                               [] OTHER -> "setPassword"])
    /\ UNCHANGED <<serverVars, strays, others, faults>>

\* SetAliases looks the domain of each alias up; here it is the same one.
FindAliasDomain(c) ==
    /\ At(c, "findAliasDomain")
    /\ IF domain = None THEN Finish(c, "failed")
       ELSE Continue(c, [runs[c] EXCEPT !.domain = domain, !.next = "setAliases"])
    /\ UNCHANGED <<serverVars, strays, others, faults>>

\* The /set request that a run makes next.  The quota goes to the account that
\* CreateMailbox found or created, the password to the one found after that.
Request(c) ==
    [kind |-> runs[c].next, command |-> c, domain |-> runs[c].domain,
     account |-> IF c.kind = "createMailbox" /\ runs[c].next = "setQuota"
                 THEN runs[c].account ELSE runs[c].target]

Requests(c) == runs[c] # None /\ runs[c].next \in Sets

\* The server's answer to a /set request.
SetAnswered(c) ==
    /\ Requests(c)
    /\ Serve(Request(c))
    /\ LET run == runs[c]
       IN  CASE c.kind = "createMailbox" /\ run.next = "createDomain" ->
                    Continue(c, [run EXCEPT !.domain = domain', !.next = "findAccount"])
             [] run.next = "createAccount" ->
                    Continue(c, [run EXCEPT !.account = accounts'[c.local].id,
                                            !.inner = TRUE, !.next = "findDomain"])
             [] c.kind = "createMailbox" /\ run.next = "setPassword" /\ c.quota > 0 ->
                    Continue(c, [run EXCEPT !.next = "setQuota"])
             [] OTHER -> Finish(c, "ok")
    /\ UNCHANGED <<strays, others, faults>>

\* Mutant of SetRejected: an answer is taken for a success.
SetUnchecked(c) ==
    /\ Requests(c)
    /\ Refused(Request(c))
    /\ Finish(c, "ok")
    /\ UNCHANGED <<serverVars, strays, others, faults>>

\* set makes an error of a rejection in the answer.
SetRejected(c) ==
    /\ Requests(c)
    /\ Refused(Request(c))
    /\ Finish(c, "failed")
    /\ UNCHANGED <<serverVars, strays, others, faults>>
-----------------------------------------------------------------------------
(* Faults.                                                                 *)

Fault == faults < MaxFaults /\ faults' = faults + 1

InFlight(c) == IF Requests(c) THEN {Request(c)} ELSE {}

\* A request fails or its answer is lost: the command fails with it.
RequestFails(c) ==
    /\ runs[c] # None
    /\ Fault
    /\ strays' = strays \cup InFlight(c)
    /\ Finish(c, "failed")
    /\ UNCHANGED <<serverVars, others>>

\* The request that was given up on reaches the server, if it ever does.
StrayArrives(q) ==
    /\ strays' = strays \ {q}
    /\ Serve(q) \/ (Refused(q) /\ UNCHANGED serverVars)
    /\ UNCHANGED <<runs, late, status, others, faults>>

\* The command's timeout, which is recorded under its key; the run goes on.
LeftBehind(c) ==
    /\ runs[c] # None /\ c \notin late
    /\ Fault
    /\ late' = late \cup {c}
    /\ status' = [status EXCEPT ![c] = "timedOut"]
    /\ UNCHANGED <<serverVars, runs, strays, others>>

\* The process dies; what it was doing is delivered again, and so is a command
\* whose timeout could not be saved and was kept in memory.
Crash ==
    /\ \E c \in Commands : runs[c] # None
    /\ Fault
    /\ strays' = strays \cup UNION {InFlight(c) : c \in Commands}
    /\ \E forgotten \in SUBSET {c \in Commands : status[c] = "timedOut"} :
           status' = [c \in Commands |->
                          IF status[c] = "running" \/ c \in forgotten THEN "failed"
                          ELSE status[c]]
    /\ runs' = [c \in Commands |-> None] /\ late' = {}
    /\ UNCHANGED <<serverVars, others>>
-----------------------------------------------------------------------------
\* Commands that can still change the server.
Acting == {c \in Commands : runs[c] # None} \cup {q.command : q \in strays}

\* The same command under its other keys, which are sent in their order.
Copies(c) == {d \in Commands : [d EXCEPT !.key = c.key] = c}

\* The executor begins a command, for the first time or again after a failure.
\* It refuses the key of one that timed out; what that one asked for may come
\* again under another key, beside the run that was left behind.
Begin(c) ==
    /\ status[c] \in {"new", "failed"}
    /\ \A d \in Copies(c) : d.key < c.key => status[d] # "new"
    /\ status[c] = "new" => Cardinality({d \in Commands : status[d] # "new"}) < MaxCommands
    /\ \A d \in Commands : runs[d] # None => d \in late
    /\ runs' = [runs EXCEPT ![c] = NewRun]
    /\ status' = [status EXCEPT ![c] = "running"]
    /\ others' = [d \in Commands |-> IF d = c THEN Acting \ {c}
                                     ELSE IF status[d] = "new" THEN {} ELSE others[d] \cup {c}]
    /\ UNCHANGED <<serverVars, late, strays, faults>>

Step(c) ==
    \/ FindDomain(c) \/ FindAccount(c) \/ FindAliasDomain(c)
    \/ SetAnswered(c) \/ SetRejected(c)

MailNext ==
    \/ \E c \in Commands : Begin(c) \/ Step(c) \/ RequestFails(c) \/ LeftBehind(c)
    \/ \E q \in strays : StrayArrives(q)
    \/ Crash

Converging == {c \in Commands :
                   c.kind \in {"createDomain", "deleteDomain", "createMailbox", "deleteMailbox"}}

\* The run that the poll loop waits for goes on until it ends, each request
\* having a timeout; one that was left behind need not.  A creation or deletion
\* that failed is delivered again, and each poll runs all that it fetched; of
\* the other commands nothing more is assumed.
MailFairness ==
    /\ WF_mailVars(\E c \in Commands \ late : Step(c))
    /\ \A c \in Converging : SF_mailVars(status[c] = "failed" /\ Begin(c))

MailSpec == MailInit /\ [][MailNext]_mailVars /\ MailFairness
-----------------------------------------------------------------------------
\* What the answer of a command promises, and what a command may undo of it.
Promises(c) ==
    CASE c.kind = "createDomain" -> {"domain"}
      [] c.kind = "deleteDomain" -> {"no domain"}
      [] c.kind = "deleteMailbox" -> {"no mailbox"}
      [] c.kind = "createMailbox" -> {"mailbox", "password"} \cup (IF c.quota > 0 THEN {"quota"} ELSE {})
      [] c.kind = "setPassword" -> {"mailbox", "password"}
      [] c.kind = "setQuota" -> {"mailbox", "quota"}
      [] c.kind = "setAliases" -> {"mailbox", "aliases"}

Undoes(c) ==
    CASE c.kind = "createDomain" -> {"no domain"}
      [] c.kind = "deleteDomain" -> {"domain", "mailbox"}
      [] c.kind = "deleteMailbox" -> {"mailbox"}
      [] c.kind = "createMailbox" -> {"no domain", "no mailbox", "password", "quota"}
      [] c.kind = "setPassword" -> {"password"}
      [] c.kind = "setQuota" -> {"quota"}
      [] c.kind = "setAliases" -> {"aliases"}

\* The same command under another key sets the same values.
Agree(c, d, promise) ==
    \/ promise = "password" /\ c.password = d.password
    \/ promise = "quota" /\ c.quota = d.quota
    \/ promise = "aliases" /\ c.aliases = d.aliases

Conflict(c, d) ==
    /\ \E promise \in Promises(c) \cap Undoes(d) : ~Agree(c, d, promise)
    /\ c.local = d.local \/ {"createDomain", "deleteDomain"} \cap {c.kind, d.kind} # {}
       \/ c.kind = "deleteDomain"

Kept(c, promise) ==
    LET mailbox == accounts[c.local]
    IN  CASE promise = "domain" -> domain # None
          [] promise = "no domain" -> domain = None
          [] promise = "mailbox" -> mailbox # None
          [] promise = "no mailbox" -> mailbox = None
          [] promise = "password" -> mailbox # None /\ mailbox.password = c.password
          [] promise = "quota" -> mailbox # None /\ mailbox.quota = c.quota
          [] promise = "aliases" -> mailbox # None /\ mailbox.aliases = c.aliases

\* What a command answered with success is so, and stays so until a command
\* that contradicts it acts: one that ran beside it or was begun later, a run
\* left behind or a request that was given up on included (the status "active"
\* or "absent" in the results of manager.go).
AnsweredIsInForce ==
    \A c \in Commands :
        status[c] = "ok" /\ (\A d \in others[c] : ~Conflict(c, d))
            => \A promise \in Promises(c) : Kept(c, promise)

\* The server has a reason to refuse the command for as long as it lasts.
Hopeless(c) ==
    \/ c.kind = "createMailbox" /\ (c.password \in WeakPasswords \/ c.local \in AddressesBut(c.local))
    \/ c.kind = "deleteDomain" /\ \E l \in Locals : accounts[l] # None

\* A creation or a deletion that Control repeats until it succeeds does
\* succeed, unless its timeout made the key useless: whatever its earlier
\* attempts left behind, and whatever a run of the same command under another
\* key, left behind by its timeout, does beside it (the comments on Manager,
\* DeleteDomain and DeleteMailbox: a retried job converges).
RetriesConverge ==
    \A c \in Converging :
        status[c] # "new" ~> status[c] \in {"ok", "timedOut"} \/ Hopeless(c)
=============================================================================
