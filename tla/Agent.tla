-------------------------------- MODULE Agent --------------------------------
(***************************************************************************)
(* The poll loop (internal/controlplane/poller.go) with Control on one     *)
(* side and the executor and the outbox on the other.                      *)
(*                                                                         *)
(* One pass: drain the outbox, fetch jobs, and for each job execute it,    *)
(* put its result in the outbox and drain again.  Any error ends the pass. *)
(* Control (external, seen through client.go) hands a job out under a      *)
(* lease; a lease can expire, after which a report under it is rejected    *)
(* with 409 and the job is handed out again under a new one.  Requests and *)
(* answers can be lost, every file write can fail, and the process can be  *)
(* killed between any two steps.                                           *)
(*                                                                         *)
(* The executor is its contract, IdempotentExecution; a job's command id   *)
(* and its idempotency key are one to one and written as one value.        *)
(***************************************************************************)
EXTENDS Outbox, IdempotentExecution

CONSTANTS
    MaxCrashes,     \* bound: process restarts
    Oversized,      \* ids of jobs whose success is larger than any outbox
    Patient,        \* Control keeps a lease while the agent works on the job
    Faults          \* outcomes of a file write that may happen

ASSUME AgentAssumption ==
    /\ Ids = Keys /\ Ids \subseteq Nat
    /\ Leases \subseteq Nat /\ Cardinality(Leases) > 1
    /\ Oversized \subseteq Ids
    /\ Patient \in BOOLEAN
    /\ MaxCrashes \in Nat
    /\ Faults \subseteq Outcomes /\ "ok" \in Faults

VARIABLES
    jobs,       \* Control: the state of each job
    lease,      \* Control: the last lease handed out for it
    phase,      \* where pollOnce stands; "down": main refuses to start
    todo,       \* Flush: ids of the listed results not yet dealt with
    then,       \* what follows the flush
    batch,      \* fetched jobs not yet executed, with their leases
    current,    \* the job being executed
    crashes     \* process restarts so far

pollVars == <<phase, todo, then, batch, current>>
controlVars == <<jobs, lease>>
vars == <<outboxVars, contractVars, pollVars, controlVars, crashes>>

Phases ==
    {"idle", "report", "delete", "fenced", "fetch", "next", "execute", "clear", "put",
     "down"}
Job == [id: Ids, lease: Leases]
Finished == {"succeeded", "failed"}

ASSUME NoneIsNoJob == None \notin Job

TypeOK ==
    /\ OutboxTypeOK
    /\ ContractTypeOK
    /\ jobs \in [Ids -> {"queued", "running"} \cup Finished]
    /\ lease \in [Ids -> Leases \cup {None}]
    /\ phase \in Phases
    /\ todo \subseteq Ids
    /\ then \in {"fetch", "next"}
    /\ batch \subseteq Job
    /\ current \in Job \cup {None}
    /\ crashes \in 0 .. MaxCrashes

Init ==
    /\ OutboxInit
    /\ ContractInit
    /\ jobs = [i \in Ids |-> "queued"]
    /\ lease = [i \in Ids |-> None]
    /\ phase = "idle" /\ todo = {} /\ then = "fetch"
    /\ batch = {} /\ current = None
    /\ crashes = 0
-----------------------------------------------------------------------------
\* The pass ends; Poll starts another one on the next tick.
EndPass ==
    /\ phase' = "idle" /\ todo' = {} /\ then' = "fetch"
    /\ batch' = {} /\ current' = None

\* Flush goes on with the listed results `rest`, and to `next` after them.
FlushOn(rest, next) ==
    /\ todo' = rest
    /\ IF rest = {} THEN phase' = next /\ then' = "fetch"
                    ELSE phase' = "report" /\ then' = next

\* A tick: pollOnce starts by draining the outbox.
Tick ==
    /\ phase = "idle" /\ ~stopping
    /\ FlushOn(Listed(pending), "fetch")
    /\ UNCHANGED <<outboxVars, contractVars, batch, current, controlVars, crashes>>

\* List sorts by id.
NextToReport == CHOOSE i \in todo : \A j \in todo : i <= j

\* Control would take a report of this result.
LeaseHeld(i) ==
    jobs[i] = "running" /\ pending[i] # None /\ pending[i].lease = lease[i]

\* A report that Control takes; the answer may get lost, which ends the pass.
ReportAccepted ==
    LET i == NextToReport
    IN  /\ phase = "report" /\ ~stopping
        /\ LeaseHeld(i)
        /\ jobs' = [jobs EXCEPT ![i] = pending[i].status]
        /\ \/ phase' = "delete" /\ UNCHANGED <<todo, then, batch, current>>
           \/ EndPass
        /\ UNCHANGED <<outboxVars, contractVars, lease, crashes>>

\* Mutant: a rejected lease is an error like any other.
ReportRejectedKept ==
    /\ phase = "report" /\ ~stopping
    /\ ~LeaseHeld(NextToReport)
    /\ EndPass
    /\ UNCHANGED <<outboxVars, contractVars, controlVars, crashes>>

\* A report under a lease that is gone.  Control answers 409, or 200 when it
\* recognises a report it has already taken.
ReportRejected ==
    LET i == NextToReport
    IN  /\ phase = "report" /\ ~stopping
        /\ ~LeaseHeld(i)
        /\ \/ phase' = "fenced"
           \/ jobs[i] \in Finished /\ pending[i].lease = lease[i] /\ phase' = "delete"
        /\ UNCHANGED <<outboxVars, contractVars, todo, then, batch, current,
                       controlVars, crashes>>

\* Mutant: pollOnce goes on after a failed flush.
ReportFailsIgnored ==
    /\ phase = "report" /\ phase' = then
    /\ todo' = {} /\ then' = "fetch"
    /\ UNCHANGED <<outboxVars, contractVars, batch, current, controlVars, crashes>>

\* The request does not reach Control, or the context is cancelled.
ReportFails ==
    /\ phase = "report"
    /\ EndPass
    /\ UNCHANGED <<outboxVars, contractVars, controlVars, crashes>>

\* An accepted result is deleted; a failing delete ends the pass.
DeleteReported(o) ==
    LET i == NextToReport
    IN  /\ phase = "delete"
        /\ Delete(i, o)
        /\ IF DeleteOK(i, o)
           THEN FlushOn(todo \ {i}, then) /\ UNCHANGED <<batch, current>>
           ELSE EndPass
        /\ UNCHANGED <<contractVars, controlVars, crashes>>

\* A rejected one too, but here a failing delete is ignored.
DeleteFenced(o) ==
    LET i == NextToReport
    IN  /\ phase = "fenced"
        /\ Delete(i, o)
        /\ FlushOn(todo \ {i}, then)
        /\ UNCHANGED <<batch, current, contractVars, controlVars, crashes>>
-----------------------------------------------------------------------------
\* The leases of a job that are still remembered somewhere.
LeaseOf(box, i) == IF box[i] = None THEN {} ELSE {box[i].lease}

KnownLeases(i) ==
    LeaseOf(pending, i) \cup LeaseOf(outboxFile, i)
    \cup {j.lease : j \in {b \in batch \cup ({current} \ {None}) : b.id = i}}

\* Control never hands the same token out twice: a token nobody remembers
\* stands for a new one, so redelivery needs no bound.
FreshLease(i) ==
    LET fresh == Leases \ KnownLeases(i)
    IN  CHOOSE l \in fresh : \A m \in fresh : l <= m

HandOut(S) ==
    /\ jobs' = [i \in Ids |-> IF i \in S THEN "running" ELSE jobs[i]]
    /\ lease' = [i \in Ids |-> IF i \in S THEN FreshLease(i) ELSE lease[i]]

Queued == {i \in Ids : jobs[i] = "queued" /\ Leases \ KnownLeases(i) # {}}

\* FetchJobs: Control marks what it returns as running.
FetchJobs(S) ==
    /\ phase = "fetch" /\ ~stopping
    /\ HandOut(S)
    /\ batch' = {[id |-> i, lease |-> lease'[i]] : i \in S}
    /\ phase' = "next"
    /\ UNCHANGED <<outboxVars, contractVars, todo, then, current, crashes>>

\* The request (S = {}) or the answer is lost; in the second case the jobs
\* stay "running" until their leases expire.
FetchFails(S) ==
    /\ phase = "fetch"
    /\ HandOut(S)
    /\ EndPass
    /\ UNCHANGED <<outboxVars, contractVars, crashes>>

BatchDone ==
    /\ phase = "next" /\ batch = {}
    /\ EndPass
    /\ UNCHANGED <<outboxVars, contractVars, controlVars, crashes>>

\* executeAndReport takes the next job of the answer.
TakeJob ==
    /\ phase = "next"
    /\ \E j \in batch : current' = j /\ batch' = batch \ {j}
    /\ phase' = "execute"
    /\ UNCHANGED <<outboxVars, contractVars, todo, then, controlVars, crashes>>

\* ExecuteContext has returned.  A system.reset without an error, a replayed
\* one included, empties the outbox before its own result goes in.
AfterCall(noError) ==
    phase' = IF noError /\ current.id \in ResetKeys THEN "clear" ELSE "put"

\* ExecuteContext for the current job: any step of the contract.
ExecuteContext ==
    LET k == current.id
    IN  /\ phase = "execute"
        /\ \/ Accept(k) /\ UNCHANGED phase
           \/ Start(k) /\ UNCHANGED phase
           \/ Replay(k) /\ AfterCall(TRUE)
           \/ Refuse(k) /\ AfterCall(FALSE)
           \/ Settle(k) /\ AfterCall(answer'.status = "succeeded")
           \/ TimeOut(k) /\ AfterCall(FALSE)
           \/ Abandon(k) /\ AfterCall(FALSE)
        /\ UNCHANGED <<outboxVars, todo, then, batch, current, controlVars, crashes>>

ClearOutbox(o) ==
    /\ phase = "clear"
    /\ ResetOutbox(o)
    /\ phase' = "put"
    /\ UNCHANGED <<contractVars, todo, then, batch, current, controlVars, crashes>>

\* What is put for the current job.  Only a success carries the command's
\* output and can be too large for the outbox.
PendingOf(status) ==
    [lease |-> current.lease, status |-> status,
     oversized |-> status = "succeeded" /\ current.id \in Oversized]

\* Mutant: an execution error does not make the status "failed".
PutResultSucceeded(o) ==
    LET i == current.id
        r == PendingOf("succeeded")
    IN  /\ phase = "put"
        /\ Put(i, r, o)
        /\ IF PutOK(i, r, o)
           THEN FlushOn(Listed(pending'), "next") /\ current' = None /\ UNCHANGED batch
           ELSE EndPass
        /\ UNCHANGED <<contractVars, controlVars, crashes>>

\* The result goes into the outbox before Control is told; a Put that fails
\* ends the pass, and with it the jobs that were fetched behind this one.
PutResult(o) ==
    LET i == current.id
        r == PendingOf(answer.status)
    IN  /\ phase = "put"
        /\ Put(i, r, o)
        /\ IF PutOK(i, r, o)
           THEN FlushOn(Listed(pending'), "next") /\ current' = None /\ UNCHANGED batch
           ELSE EndPass
        /\ UNCHANGED <<contractVars, controlVars, crashes>>
-----------------------------------------------------------------------------
\* A provisioner ends, whether or not the poller still waits for it.
ProvisionerStep ==
    /\ WorkNext
    /\ UNCHANGED <<outboxVars, pollVars, controlVars, crashes>>

\* The agent works on the job, or holds its result, under its current lease.
AgentHolds(i) ==
    \/ \E b \in batch \cup ({current} \ {None}) : b.id = i /\ b.lease = lease[i]
    \/ lease[i] \in LeaseOf(pending, i)

LeaseExpires(i) ==
    /\ jobs[i] = "running"
    /\ Patient => ~AgentHolds(i)
    /\ jobs' = [jobs EXCEPT ![i] = "queued"]
    /\ lease' = [lease EXCEPT ![i] = None]
    /\ UNCHANGED <<outboxVars, contractVars, pollVars, crashes>>

\* SIGTERM.
Shutdown ==
    /\ phase # "down"
    /\ crashes < MaxCrashes
    /\ Stop
    /\ UNCHANGED <<outboxVars, pollVars, controlVars, crashes>>

\* The process ends, killed or after Shutdown, and the next one starts.
ProcessRestart ==
    /\ phase # "down"
    /\ crashes < MaxCrashes
    /\ crashes' = crashes + 1
    /\ Crash
    /\ OpenOutbox
    /\ EndPass
    /\ UNCHANGED controlVars

\* The process ends and no other comes up: NewFileStore finds commands.json
\* past its limits, main is fatal, and so is every later start, for nothing
\* rewrites the file.  Only tombstones take the file past its limits; in the
\* contract they are the records that say "failed".
RestartRefused ==
    /\ phase # "down"
    /\ crashes < MaxCrashes
    /\ \E k \in Keys : record[k] = "failed"
    /\ crashes' = crashes + 1
    /\ Crash
    /\ OpenOutbox
    /\ phase' = "down" /\ todo' = {} /\ then' = "fetch"
    /\ batch' = {} /\ current' = None
    /\ UNCHANGED controlVars

\* The poll goroutine.
PollStep ==
    \/ Tick \/ BatchDone \/ TakeJob
    \/ ReportAccepted \/ ReportRejected \/ ReportFails
    \/ \E o \in Faults : \/ DeleteReported(o) \/ DeleteFenced(o)
                         \/ ClearOutbox(o) \/ PutResult(o)
    \/ \E S \in SUBSET Queued : FetchJobs(S) \/ FetchFails(S)
    \/ ExecuteContext

Next ==
    \/ PollStep
    \/ ProvisionerStep
    \/ \E i \in Ids : LeaseExpires(i)
    \/ Shutdown
    \/ ProcessRestart
    \/ RestartRefused

Spec == Init /\ [][Next]_vars
-----------------------------------------------------------------------------
\* What Control shows as succeeded was done on the host, however many
\* redeliveries, replays, lost answers and restarts lie between.
ControlSuccessIsReal == \A i \in Ids : jobs[i] = "succeeded" => effects[i] > 0

\* A result Control still waits for is never dropped or replaced: not by the
\* ignored delete of a fenced one, a failing write, system.reset's clearing
\* of the outbox or a restart.
AwaitedResultKept ==
    [][\A i \in Ids : LeaseHeld(i) => pending'[i] = pending[i]]_vars

\* New jobs are fetched only when every result still in the outbox is one
\* that Control has fenced out: work never piles up behind a result that
\* could be delivered (pollOnce returns when the flush fails).
FetchOnlyWhenDrained ==
    [][phase = "fetch" /\ phase' = "next" =>
         \A i \in Ids : ~LeaseHeld(i)]_vars

\* A job Control has seen succeed never runs again.
NoEffectAfterSuccess ==
    [][\A i \in Ids : jobs[i] = "succeeded" => effects'[i] = effects[i]]_vars
-----------------------------------------------------------------------------
(* Liveness.  The poll goroutine keeps going while it waits for nothing.    *)
(* The provisioners' external commands run without a context: nothing makes *)
(* one end, so a call that waits for one, its own or a late one that holds  *)
(* its place, may wait for ever.  An execution that has ended is taken note *)
(* of.  Control answers, and a write succeeds, infinitely often if tried    *)
(* infinitely often; a lease nobody works under expires; a stopped process  *)
(* is started again.                                                        *)

\* ExecuteContext is behind an execution that has not ended.
Waits ==
    /\ phase = "execute" /\ serving # Idle
    /\ \E k \in Keys : alive[k] = "running"

\* A success that fits into no outbox: Put refuses it at every redelivery,
\* and the pass ends there.
Unreportable == \E i \in Oversized : effects[i] > 0

Fairness ==
    /\ WF_vars(~Waits /\ PollStep)
    /\ \A k \in Keys : WF_vars(Depart(k) /\ ProvisionerStep)
    /\ WF_vars(stopping /\ (ProcessRestart \/ RestartRefused))
    /\ SF_vars(ReportAccepted) /\ SF_vars(ReportRejected)
    /\ SF_vars(DeleteReported("ok")) /\ SF_vars(DeleteFenced("ok"))
    /\ SF_vars(PutResult("ok"))
    /\ SF_vars(FetchJobs(Queued) /\ Queued # {})
    /\ \A i \in Ids : WF_vars(LeaseExpires(i))

FairSpec == Spec /\ Fairness

\* Every job ends in Control, whatever writes, requests and answers are lost
\* on the way.  Three things alone can keep it from that: a provisioner that
\* never returns and is waited for, a start that refuses commands.json, and a
\* job, this or another, whose success is larger than the outbox may be.
EveryJobFinishes ==
    \A i \in Ids : \/ <>(jobs[i] \in Finished \/ Unreportable)
                   \/ <>[]Waits
                   \/ <>[](phase = "down")

\* The outbox drains, unless the poll loop waits for ever or is not started
\* again: results that were rejected do not stay.
OutboxDrains ==
    \/ []<>(pending = EmptyOutbox)
    \/ <>[]Waits
    \/ <>[](phase = "down")
=============================================================================
