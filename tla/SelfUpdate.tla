----------------------------- MODULE SelfUpdate ------------------------------
(***************************************************************************)
(* internal/selfupdate and the stop check of the poll loop.  A goroutine   *)
(* tracks the published releases; Control may also order one exact release *)
(* with system.update.  Either replaces the binary on disk and then arms   *)
(* the restart flag; the poll loop exits when it finds the flag set after  *)
(* a pass, and systemd starts what is on disk.                             *)
(*                                                                         *)
(* A command runs in a goroutine of its own and may outlive the call of    *)
(* the poll loop (see Executor).  While it runs late it keeps its slot, so *)
(* that the call of a later command may wait behind it, without a timeout. *)
(***************************************************************************)
EXTENDS Integers, FiniteSets

CONSTANTS
    MaxVersion,     \* releases are numbered in the order of their tags
    MaxCrashes,     \* bound: process deaths
    MaxOrders,      \* bound: commands Control sends
    Nobody,         \* no goroutine
    Down            \* no process

ASSUME SelfUpdateAssumption ==
    /\ MaxVersion \in Nat \ {0} /\ MaxCrashes \in Nat /\ MaxOrders \in Nat
    /\ Down \notin Nat

Versions == 1 .. MaxVersion

VARIABLES
    published,  \* releases on the tagged-release list
    installed,  \* the release at BinaryPath
    running,    \* the release of the running process
    pending,    \* restartPending
    tracker,    \* Updater.Run in the middle of Stage
    jobs,       \* the goroutine of each command Control sent
    call,       \* the command whose call the poll loop is in, 0 for none
    polling,    \* the poll loop is inside pollOnce
    swapped,    \* history: the binary was replaced under this process
    broken,     \* history: an exit for an update cut provisioning short
    crashes, orders

updateVars == <<published, installed, running, pending, tracker, jobs, call,
                polling, swapped, broken, crashes, orders>>

\* A release on its way: being fetched, or renamed into place and not armed.
Staging == [tag: Versions, step: {"fetch", "arm"}]
Orders == 1 .. MaxOrders
Job == [kind: {"update"}, tag: Versions, step: {"fetch", "arm"}]
       \cup [kind: {"site"}, behind: Orders \cup {0}]

UpdateTypeOK ==
    /\ published \subseteq Versions
    /\ installed \in Versions
    /\ running \in Versions \cup {Down}
    /\ pending \in BOOLEAN
    /\ tracker \in Staging \cup {Nobody}
    /\ jobs \in [Orders -> Job \cup {Nobody}]
    /\ call \in Orders \cup {0}
    /\ polling \in BOOLEAN
    /\ swapped \in BOOLEAN
    /\ broken \in BOOLEAN
    /\ crashes \in 0 .. MaxCrashes
    /\ orders \in 0 .. MaxOrders

UpdateInit ==
    /\ published = {1}
    /\ installed = 1 /\ running = 1
    /\ pending = FALSE /\ swapped = FALSE /\ broken = FALSE
    /\ tracker = Nobody /\ polling = FALSE
    /\ jobs = [o \in Orders |-> Nobody] /\ call = 0
    /\ crashes = 0 /\ orders = 0
-----------------------------------------------------------------------------
Up == running # Down

\* The stable releases only; drafts and prereleases are never candidates.
latestVersion(v) == v \in published /\ \A u \in published : u <= v

newer(current, candidate) == candidate > current

\* A release is published, of an older line too.
Publish(v) ==
    /\ v \notin published
    /\ published' = published \cup {v}
    /\ UNCHANGED <<installed, running, pending, tracker, jobs, call, polling, swapped, broken,
                   crashes, orders>>

\* Run's check up to the version comparison of Stage.
Check ==
    /\ Up /\ tracker = Nobody /\ ~pending
    /\ \E v \in published :
          /\ latestVersion(v) /\ newer(running, v)
          /\ tracker' = [tag |-> v, step |-> "fetch"]
    /\ UNCHANGED <<published, installed, running, pending, jobs, call, polling, swapped, broken,
                   crashes, orders>>

\* replaceBinary of Stage: the verified download is renamed into place.
Replace ==
    /\ tracker # Nobody /\ tracker.step = "fetch"
    /\ installed' = tracker.tag /\ swapped' = TRUE
    /\ tracker' = [tracker EXCEPT !.step = "arm"]
    /\ UNCHANGED <<published, running, pending, jobs, call, polling, broken, crashes, orders>>

\* A download, a checksum or a signature fails: nothing is changed.
ReplaceFailsArmed ==
    /\ tracker # Nobody /\ tracker.step = "fetch"
    /\ tracker' = Nobody
    /\ pending' = TRUE
    /\ UNCHANGED <<published, installed, running, jobs, call, polling, swapped, broken,
                   crashes, orders>>

ReplaceFails ==
    /\ tracker # Nobody /\ tracker.step = "fetch"
    /\ tracker' = Nobody
    /\ UNCHANGED <<published, installed, running, pending, jobs, call, polling, swapped, broken,
                   crashes, orders>>

Arm ==
    /\ tracker # Nobody /\ tracker.step = "arm"
    /\ tracker' = Nobody
    /\ pending' = TRUE
    /\ UNCHANGED <<published, installed, running, jobs, call, polling, swapped, broken,
                   crashes, orders>>
-----------------------------------------------------------------------------
\* pollOnce begins.
PollOnce ==
    /\ Up /\ ~polling
    /\ polling' = TRUE
    /\ UNCHANGED <<published, installed, running, pending, tracker, jobs, call, swapped, broken,
                   crashes, orders>>

\* The goroutine of order o outlived its call.
Late(o) == o # call /\ jobs[o] # Nobody

\* AcquireOperation: the order waits until the late one ahead of it ends.
Blocked(o) ==
    /\ jobs[o].kind = "site" /\ jobs[o].behind # 0
    /\ jobs[jobs[o].behind] # Nobody

\* A command of the batch starts.  Work on a site may find a late one in its
\* way; system.update has no limit.  StageRelease refuses when an update is
\* staged already.
Command ==
    /\ polling /\ call = 0 /\ orders < MaxOrders
    /\ \/ \E ahead \in {0} \cup {o \in Orders : Late(o) /\ jobs[o].kind = "site"} :
             jobs' = [jobs EXCEPT ![orders + 1] = [kind |-> "site", behind |-> ahead]]
       \/ /\ ~pending
          /\ \E v \in published :
                jobs' = [jobs EXCEPT ![orders + 1] =
                            [kind |-> "update", tag |-> v, step |-> "fetch"]]
    /\ call' = orders + 1
    /\ orders' = orders + 1
    /\ UNCHANGED <<published, installed, running, pending, tracker, polling, swapped, broken,
                   crashes>>

\* The call's timeout, which runs from the admission on: the poll loop goes
\* on, the goroutine too.
Timeout ==
    /\ call # 0 /\ ~Blocked(call)
    /\ call' = 0
    /\ UNCHANGED <<published, installed, running, pending, tracker, jobs, polling, swapped,
                   broken, crashes, orders>>

\* replaceBinary of StageRelease.
ReplaceOrdered(o) ==
    /\ jobs[o] # Nobody /\ jobs[o].kind = "update" /\ jobs[o].step = "fetch"
    /\ installed' = jobs[o].tag /\ swapped' = TRUE
    /\ jobs' = [jobs EXCEPT ![o].step = "arm"]
    /\ UNCHANGED <<published, running, pending, tracker, call, polling, broken, crashes,
                   orders>>

\* The command's goroutine ends: a failed fetch, an armed flag, or any other
\* command that is done.
WorkEnds(o) ==
    /\ jobs[o] # Nobody /\ ~Blocked(o)
    /\ jobs' = [jobs EXCEPT ![o] = Nobody]
    /\ call' = IF o = call THEN 0 ELSE call
    /\ pending' = (pending \/ (jobs[o].kind = "update" /\ jobs[o].step = "arm"))
    /\ UNCHANGED <<published, installed, running, tracker, polling, swapped, broken,
                   crashes, orders>>

\* The process ends: its goroutines with it.
Die ==
    /\ running' = Down
    /\ pending' = FALSE /\ tracker' = Nobody
    /\ jobs' = [o \in Orders |-> Nobody] /\ call' = 0
    /\ polling' = FALSE /\ swapped' = FALSE

\* The pass is over: Poll asks RestartPending and exits, or waits for the
\* next tick.
PassEndsUnasked ==
    /\ polling /\ call = 0
    /\ polling' = FALSE
    /\ UNCHANGED <<published, installed, running, pending, tracker, jobs, call, swapped,
                   broken, crashes, orders>>

PassEnds ==
    /\ polling /\ call = 0
    /\ IF pending
       THEN /\ Die
            /\ broken' = (broken \/ \E o \in Orders : Late(o) /\ jobs[o].kind = "site")
       ELSE /\ polling' = FALSE
            /\ UNCHANGED <<running, pending, tracker, jobs, call, swapped, broken>>
    /\ UNCHANGED <<published, installed, crashes, orders>>

Crash ==
    /\ Up /\ crashes < MaxCrashes
    /\ crashes' = crashes + 1
    /\ Die
    /\ UNCHANGED <<published, installed, broken, orders>>

\* systemd starts the binary on disk.
Start ==
    /\ ~Up
    /\ running' = installed
    /\ UNCHANGED <<published, installed, pending, tracker, jobs, call, polling, swapped, broken,
                   crashes, orders>>

UpdateNext ==
    \/ \E v \in Versions : Publish(v)
    \/ Check \/ Replace \/ ReplaceFails \/ Arm
    \/ PollOnce \/ Command \/ Timeout \/ PassEnds
    \/ \E o \in Orders : ReplaceOrdered(o) \/ WorkEnds(o)
    \/ Crash \/ Start

UpdateSpec == UpdateInit /\ [][UpdateNext]_updateVars

\* Fair: the tickers of Run and of Poll, the call that waits for its admitted
\* command or its timeout, and systemd.  Fetches succeed now and then.  Nothing
\* is assumed of a goroutine that outlived its call.
UpdateFairness ==
    /\ WF_updateVars(Check) /\ SF_updateVars(Replace) /\ WF_updateVars(Arm)
    /\ WF_updateVars(PollOnce) /\ WF_updateVars(PassEnds)
    /\ WF_updateVars(Timeout \/ (call # 0 /\ WorkEnds(call)))
    /\ WF_updateVars(Start)

UpdateFairSpec == UpdateSpec /\ UpdateFairness
-----------------------------------------------------------------------------
\* The flag is never raised over a binary that nobody replaced: an exit for an
\* update always has one to apply.
ArmedMeansSwapped == pending => swapped

\* The poll loop is inside a call that waits behind a late goroutine.
PollHeld == call # 0 /\ Blocked(call)

\* Tracking converges: once releases, orders and crashes end, the agent comes
\* to run the latest release, whichever release Control ordered in between and
\* whatever still runs late, unless the poll loop waits for ever in the
\* admission of a command behind a late one.
RunsLatest == <>[](Up /\ latestVersion(running)) \/ <>[]PollHeld

\* README.md: "The restart only happens between polls, never with a command in
\* flight, so an update can never land halfway through provisioning a site".
UpdateInterruptsNothing == ~broken
=============================================================================
