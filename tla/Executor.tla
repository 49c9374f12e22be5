------------------------------ MODULE Executor -------------------------------
(***************************************************************************)
(* internal/command: the executor.  ExecuteContext serves one command at a *)
(* time (Executor.mu) and looks its idempotency key up first; an admitted  *)
(* command runs in a goroutine of its own, the call waits for it or for    *)
(* its timeout, and a provisioner that outlives the call keeps its         *)
(* admission until it returns (runWithTimeout's late callback).            *)
(*                                                                         *)
(* The provisioners behind runCommand are abstracted to their result and   *)
(* to what they leave on the host: the plan each site runs with.           *)
(***************************************************************************)
EXTENDS Capacity, ResultStore

CONSTANTS
    Commands,       \* the commands Control may send, again and again
    Idle,           \* ExecuteContext serves nobody
    NoRun,          \* an unused or finished execution
    NoReply,        \* nothing was returned since the last call began
    MaxRuns,        \* bound: executions started
    MaxRestarts,    \* bound: process restarts
    Faults          \* outcomes of a file write that may happen

Types ==
    {"create", "update", "delete", "mutate", "read", "plain", "ping", "reset"}

\* type: the class of the command.  "create"/"update" reserve a plan,
\* "delete" and "mutate" fence a site, "read" is never cached, "plain" is
\* neither (mail), "ping" is also exempt from the rate limit, "reset" is
\* system.reset.
\* bounded: timeoutFor is positive.  valid: Validate accepts it.  parses:
\* admit can read the payload.  size: encoded bytes of its result.
Command ==
    [key: Keys, type: Types, site: Sites, need: Resources, kind: Kinds \cup {"none"},
     size: Nat, bounded: BOOLEAN, valid: BOOLEAN, parses: BOOLEAN]

ASSUME ExecutorAssumption ==
    /\ Commands \subseteq Command
    /\ "none" \notin Kinds
    /\ Idle \notin [cmd: Command, phase: {"admit", "slot", "run"}, run: Nat]
    /\ NoReply \notin [cmd: Command, status: Statuses]
    /\ NoRun \notin [cmd: Command, state: {"running", "wiped", "done"}, ok: BOOLEAN,
                     attached: BOOLEAN, admission: SiteAdmission]
    /\ Faults \subseteq Outcomes
    /\ MaxRuns \in Nat /\ MaxRestarts \in Nat

\* Control gives every command a key of its own: what bears one key is the
\* same command, sent again.  The store is asked by key alone.
ASSUME OneTypePerKey ==
    \A c, d \in Commands : c.key = d.key => c.type = d.type

VARIABLES
    call,       \* the ExecuteContext call being served
    reply,      \* what the last call returned
    runs,       \* provisioner goroutines and the admissions they hold
    launched,   \* executions started so far
    freeing,    \* releases that have left the channel and not yet the counter
    timedOut,   \* keys of Executor.timedOut
    cancelled,  \* the daemon's context is done
    up,         \* the process runs (FALSE: it refused to start)
    restarts,   \* process restarts so far
    host,       \* the plan each site on the host runs with
    drifted,    \* history: reservations and host parted by a restart or a reset
    unsaved,    \* history: keys of a success whose record could not be written
    effects     \* history: successful executions per key

procVars == <<cancelled, up, restarts>>
hostVars == <<host, drifted, unsaved, effects>>
vars == <<capacityVars, storeVars, call, reply, runs, launched, freeing, timedOut,
          procVars, hostVars>>

RunIds == 1 .. MaxRuns
Call == [cmd: Commands, phase: {"admit", "slot", "run"}, run: 0 .. MaxRuns]
Reply == [cmd: Commands, status: Statuses]
Run == [cmd: Commands, state: {"running", "wiped", "done"}, ok: BOOLEAN,
        attached: BOOLEAN, admission: SiteAdmission]

TypeOK ==
    /\ CapacityTypeOK
    /\ StoreTypeOK
    /\ call \in Call \cup {Idle}
    /\ reply \in Reply \cup {NoReply}
    /\ runs \in [RunIds -> Run \cup {NoRun}]
    /\ launched \in 0 .. MaxRuns
    /\ freeing \in [Kinds -> Nat]
    /\ timedOut \subseteq Keys
    /\ cancelled \in BOOLEAN
    /\ up \in BOOLEAN
    /\ restarts \in 0 .. MaxRestarts
    /\ host \in [Sites -> Resources \cup {NoReservation}]
    /\ drifted \in BOOLEAN
    /\ unsaved \subseteq Keys
    /\ effects \in [Keys -> Nat]

NoRuns == [e \in RunIds |-> NoRun]

Init ==
    /\ CapacityInit
    /\ StoreInit
    /\ call = Idle /\ reply = NoReply
    /\ runs = NoRuns /\ launched = 0
    /\ freeing = ZeroPerKind
    /\ timedOut = {}
    /\ cancelled = FALSE /\ up = TRUE /\ restarts = 0
    /\ host = FreshReservations
    /\ drifted = FALSE /\ unsaved = {}
    /\ effects = [k \in Keys |-> 0]
-----------------------------------------------------------------------------
\* resultIsNotCached, negated.
Cached(c) == c.type # "read"

Reserving(c) == c.type \in {"create", "update"}

\* siteMutationID and the delete branch of admit.
Fenced(c) == c.type \in {"create", "update", "delete", "mutate"}

\* Mutant: only the store is asked for terminal timeouts.
TerminalTimeoutStored(c) == results[c.key] # None /\ results[c.key].timedOut

\* The executor's own list of terminal timeouts, or the store's.
TerminalTimeout(c) ==
    \/ c.key \in timedOut
    \/ results[c.key] # None /\ results[c.key].timedOut

Return(c, status) ==
    /\ call' = Idle
    /\ reply' = [cmd |-> c, status |-> status]

Live == {e \in RunIds : runs[e] # NoRun}

\* Its provisioner has not returned yet.
Working == {e \in Live : runs[e].state # "done"}

Serving(phase) == up /\ call # Idle /\ call.phase = phase
-----------------------------------------------------------------------------
(* The head of ExecuteContext: one action for each way out of it.          *)

Arrives(c) == up /\ call = Idle

\* A cancelled parent, a command Validate refuses, or the rate limit (every
\* type but the exempt ones, abstracted to a refusal that may happen).
Refuse(c) ==
    /\ Arrives(c)
    /\ cancelled \/ ~c.valid \/ c.type # "ping"
    /\ Return(c, "failed")
    /\ UNCHANGED <<capacityVars, storeVars, runs, launched, freeing, timedOut,
                   procVars, hostVars>>

\* A key with a terminal timeout gets an error, a recorded one its result.
Replay(c) ==
    /\ Arrives(c) /\ ~cancelled /\ c.valid
    /\ \/ TerminalTimeout(c) /\ Return(c, "failed")
       \/ /\ ~TerminalTimeout(c) /\ Cached(c)
          /\ results[c.key] # None
          /\ Return(c, results[c.key].status)
    /\ UNCHANGED <<capacityVars, storeVars, runs, launched, freeing, timedOut,
                   procVars, hostVars>>

\* Mutant: the recorded result is not looked up.
ProceedUnchecked(c) ==
    /\ Arrives(c) /\ ~cancelled /\ c.valid
    /\ launched < MaxRuns
    /\ ~TerminalTimeout(c)
    /\ call' = [cmd |-> c, phase |-> "admit", run |-> 0]
    /\ reply' = NoReply
    /\ UNCHANGED <<capacityVars, storeVars, runs, launched, freeing, timedOut,
                   procVars, hostVars>>

\* Neither: the call goes on to admission.
Proceed(c) ==
    /\ Arrives(c) /\ ~cancelled /\ c.valid
    /\ launched < MaxRuns
    /\ ~TerminalTimeout(c)
    /\ Cached(c) => results[c.key] = None
    /\ call' = [cmd |-> c, phase |-> "admit", run |-> 0]
    /\ reply' = NoReply
    /\ UNCHANGED <<capacityVars, storeVars, runs, launched, freeing, timedOut,
                   procVars, hostVars>>
-----------------------------------------------------------------------------
(* admit: the operation pool first, then scratch space, then the site.     *)

\* `sem <- struct{}{}` and the counter.  The call waits here, with
\* Executor.mu held, while the pool is full.
AcquireOperation ==
    /\ Serving("admit")
    /\ SlotFree(call.cmd.kind)
    /\ slots' = Bump(slots, call.cmd.kind, 1)
    /\ inUse' = Bump(inUse, call.cmd.kind, 1)
    /\ call' = [call EXCEPT !.phase = "slot"]
    /\ UNCHANGED <<siteVars, storeVars, reply, runs, launched, freeing, timedOut,
                   procVars, hostVars>>

\* The daemon's context ended while the call waited for the pool.
AcquireCancelled ==
    /\ Serving("admit") /\ cancelled /\ Pooled(call.cmd.kind)
    /\ Return(call.cmd, "failed")
    /\ UNCHANGED <<capacityVars, storeVars, runs, launched, freeing, timedOut,
                   procVars, hostVars>>

\* Kinds that need free scratch space (checked with statfs, so it may fail
\* at any time).
ScratchKinds == {"backup", "restore", "archive"}

\* Mutant: an error path of admit without release().
AdmissionRejectedLeaks ==
    /\ Serving("slot")
    /\ call.cmd.kind \in ScratchKinds
    /\ Return(call.cmd, "failed")
    /\ UNCHANGED <<capacityVars, storeVars, runs, launched, freeing, timedOut,
                   procVars, hostVars>>

\* Turned down after the pool: no scratch, an unreadable payload, a fence
\* held by another command or a plan that does not fit.  release() gives the
\* slot back.
AdmissionRejected ==
    LET c == call.cmd
    IN  /\ Serving("slot")
        /\ \/ c.kind \in ScratchKinds
           \/ c.type \in {"create", "update", "delete"} /\ ~c.parses
           \/ Fenced(c) /\ ~Unfenced(c.site)
           \/ Reserving(c) /\ ~Reservable(c.site, c.need)
        /\ slots' = Bump(slots, c.kind, -1)
        /\ inUse' = Bump(inUse, c.kind, -1)
        /\ Return(c, "failed")
        /\ UNCHANGED <<siteVars, storeVars, runs, launched, freeing, timedOut,
                       procVars, hostVars>>

\* The site part of an admission.
BeginAdmission(c) ==
    \/ Reserving(c) /\ BeginSite(c.site, c.need)
    \/ Fenced(c) /\ ~Reserving(c) /\ BeginCommand(c.site)
    \/ ~Fenced(c) /\ UNCHANGED siteVars

\* Admitted: runWithTimeout starts the goroutine and waits for it.
Launch ==
    LET c == call.cmd
        e == launched + 1
    IN  /\ Serving("slot")
        /\ c.type \in {"create", "update", "delete"} => c.parses
        /\ BeginAdmission(c)
        /\ runs' = [runs EXCEPT ![e] =
                      [cmd |-> c, state |-> "running", ok |-> FALSE,
                       attached |-> TRUE, admission |-> AdmissionFor(c.site)]]
        /\ launched' = e
        /\ call' = [call EXCEPT !.phase = "run", !.run = e]
        /\ UNCHANGED <<poolVars, storeVars, reply, freeing, timedOut, procVars,
                       hostVars>>
-----------------------------------------------------------------------------
(* runCommand, in its goroutine.                                           *)

\* A create needs the site absent, an update needs it present.
Applicable(c) ==
    /\ c.type = "create" => host[c.site] = NoReservation
    /\ c.type = "update" => host[c.site] # NoReservation

\* What a successful command leaves on the host.
HostAfter(c) ==
    CASE Reserving(c)       -> [host EXCEPT ![c.site] = c.need]
      [] c.type = "delete"  -> [host EXCEPT ![c.site] = NoReservation]
      [] OTHER              -> host

RunSucceeds(e) ==
    LET c == runs[e].cmd
    IN  /\ up /\ e \in Live /\ runs[e].state = "running"
        /\ c.type # "reset" /\ Applicable(c)
        /\ runs' = [runs EXCEPT ![e].state = "done", ![e].ok = TRUE]
        /\ host' = HostAfter(c)
        /\ effects' = [effects EXCEPT ![c.key] = @ + 1]
        /\ UNCHANGED <<capacityVars, storeVars, call, reply, launched,
                       freeing, timedOut, procVars, drifted, unsaved>>

\* Any provisioner may fail (the rollback is its own affair).
RunFails(e) ==
    /\ up /\ e \in Live /\ runs[e].state = "running"
    /\ runs' = [runs EXCEPT ![e].state = "done"]
    /\ UNCHANGED <<capacityVars, storeVars, call, reply, launched, freeing,
                   timedOut, procVars, hostVars>>

\* system.reset: sites.Reset removes every site ...
ResetSites(e) ==
    /\ up /\ e \in Live /\ runs[e].state = "running"
    /\ runs[e].cmd.type = "reset"
    /\ runs' = [runs EXCEPT ![e].state = "wiped"]
    /\ host' = FreshReservations
    /\ drifted' = TRUE
    /\ UNCHANGED <<capacityVars, storeVars, call, reply, launched, freeing,
                   timedOut, procVars, unsaved, effects>>

\* ... and then store.Reset, whose error is ignored.
ResetResults(e, outcome) ==
    /\ up /\ e \in Live /\ runs[e].state = "wiped"
    /\ ResetStore(outcome)
    /\ runs' = [runs EXCEPT ![e].state = "done", ![e].ok = TRUE]
    /\ effects' = [effects EXCEPT ![runs[e].cmd.key] = @ + 1]
    /\ UNCHANGED <<capacityVars, call, reply, launched, freeing, timedOut,
                   procVars, host, drifted, unsaved>>
-----------------------------------------------------------------------------
(* The end of an execution: the closure admit returned.                    *)

finishAdmission(run) ==
    LET c == run.cmd
    IN  \/ Reserving(c) /\ FinishSite(run.admission, run.ok)
        \/ c.type = "delete" /\ run.ok /\ ReleaseSite(c.site)
        \/ /\ c.type = "mutate" \/ (c.type = "delete" /\ ~run.ok)
           /\ FinishCommand(run.admission)
        \/ ~Fenced(c) /\ UNCHANGED siteVars

\* The result runCommand returned.
ResultOf(c) ==
    [status |-> "succeeded", size |-> c.size, timedOut |-> FALSE, tombstone |-> FALSE]

\* The call takes the outcome from the channel: save what is cached, settle
\* the admission, return.  An error is returned and recorded nowhere.
CommandSettles(outcome) ==
    LET e == call.run
        c == call.cmd
    IN  /\ Serving("run") /\ runs[e].state = "done"
        /\ IF runs[e].ok /\ Cached(c)
           THEN /\ Save(c.key, ResultOf(c), outcome)
                /\ Return(c, IF SaveOK(c.key, ResultOf(c), outcome)
                             THEN "succeeded" ELSE "failed")
           ELSE /\ UNCHANGED storeVars
                /\ Return(c, IF runs[e].ok THEN "succeeded" ELSE "failed")
        /\ finishAdmission(runs[e])
        /\ slots' = Bump(slots, c.kind, -1)
        /\ inUse' = Bump(inUse, c.kind, -1)
        /\ runs' = [runs EXCEPT ![e] = NoRun]
        /\ unsaved' = IF runs[e].ok /\ (outcome = "failed" \/ TooLargeAlone(ResultOf(c)))
                      THEN unsaved \cup {c.key} ELSE unsaved
        /\ UNCHANGED <<launched, freeing, timedOut, procVars, host, drifted,
                       effects>>

\* Mutant: a timeout recorded with the wrong status.
TimeoutResultSucceeded ==
    [status |-> "succeeded", size |-> TombstoneSize, timedOut |-> FALSE, tombstone |-> FALSE]

\* The entry saved for a timeout: a short error message.
TimeoutResult ==
    [status |-> "failed", size |-> TombstoneSize, timedOut |-> TRUE, tombstone |-> FALSE]

\* The timer wins the select, even against an outcome already in the
\* channel.  The execution is left to its late callback.
CommandTimesOut(outcome) ==
    LET e == call.run
        c == call.cmd
    IN  /\ Serving("run") /\ c.bounded /\ ~cancelled
        /\ Save(c.key, TimeoutResult, outcome)
        /\ timedOut' = timedOut \cup {c.key}
        /\ runs' = [runs EXCEPT ![e].attached = FALSE]
        /\ Return(c, "failed")
        /\ UNCHANGED <<capacityVars, launched, freeing, procVars, hostVars>>

\* The daemon's context ends the wait: nothing is recorded.
CommandCancelled ==
    /\ Serving("run") /\ call.cmd.bounded /\ cancelled
    /\ runs' = [runs EXCEPT ![call.run].attached = FALSE]
    /\ Return(call.cmd, "failed")
    /\ UNCHANGED <<capacityVars, storeVars, launched, freeing, timedOut,
                   procVars, hostVars>>

\* Mutant: the late callback keeps the slot.
LateCompletionLeaks(e) ==
    /\ up /\ e \in Live /\ ~runs[e].attached /\ runs[e].state = "done"
    /\ finishAdmission(runs[e])
    /\ runs' = [runs EXCEPT ![e] = NoRun]
    /\ UNCHANGED <<poolVars, storeVars, call, reply, launched, freeing, timedOut,
                   procVars, hostVars>>

\* Mutant: the late callback only runs after a success.
LateCompletionOnSuccess(e) ==
    /\ up /\ e \in Live /\ ~runs[e].attached /\ runs[e].state = "done" /\ runs[e].ok
    /\ finishAdmission(runs[e])
    /\ slots' = Bump(slots, runs[e].cmd.kind, -1)
    /\ freeing' = Bump(freeing, runs[e].cmd.kind, 1)
    /\ runs' = [runs EXCEPT ![e] = NoRun]
    /\ UNCHANGED <<siteVars, inUse, storeVars, call, reply, launched, timedOut,
                   procVars, hostVars>>

\* The late callback: finish the admission, give the slot back ...
LateCompletion(e) ==
    LET c == runs[e].cmd
    IN  /\ up /\ e \in Live /\ ~runs[e].attached /\ runs[e].state = "done"
        /\ finishAdmission(runs[e])
        /\ slots' = Bump(slots, c.kind, -1)
        /\ freeing' = Bump(freeing, c.kind, 1)
        /\ runs' = [runs EXCEPT ![e] = NoRun]
        /\ UNCHANGED <<inUse, storeVars, call, reply, launched, timedOut,
                       procVars, hostVars>>

\* ... and only then take it off the counter.
LateCount(kind) ==
    /\ up /\ freeing[kind] > 0
    /\ freeing' = [freeing EXCEPT ![kind] = @ - 1]
    /\ inUse' = [inUse EXCEPT ![kind] = @ - 1]
    /\ UNCHANGED <<siteVars, slots, storeVars, call, reply, runs, launched,
                   timedOut, procVars, hostVars>>
-----------------------------------------------------------------------------
\* SIGTERM: the context every command runs under is cancelled.
Shutdown ==
    /\ up /\ ~cancelled /\ restarts < MaxRestarts
    /\ cancelled' = TRUE
    /\ UNCHANGED <<capacityVars, storeVars, call, reply, runs, launched,
                   freeing, timedOut, up, restarts, hostVars>>

\* The process ends, at any moment, and the next one starts from the files.
\* main does not call RestoreCapacity: reservations start empty.
Restart ==
    /\ restarts < MaxRestarts
    /\ restarts' = restarts + 1
    /\ up' = StoreOpens
    /\ results' = commandsFile
    /\ reservations' = FreshReservations
    /\ generations' = ZeroPerSite
    /\ siteFences' = ZeroPerSite
    /\ degraded' = FALSE
    /\ slots' = ZeroPerKind /\ inUse' = ZeroPerKind /\ freeing' = ZeroPerKind
    /\ runs' = NoRuns
    /\ call' = Idle /\ reply' = NoReply
    /\ timedOut' = {} /\ cancelled' = FALSE
    /\ drifted' = TRUE
    /\ UNCHANGED <<commandsFile, launched, host, unsaved, effects>>

\* The provisioner goroutines and their callbacks.
RunStep(e) ==
    \/ RunSucceeds(e)
    \/ RunFails(e)
    \/ ResetSites(e)
    \/ \E o \in Faults : ResetResults(e, o)
    \/ LateCompletion(e)

\* The call in progress.
CallStep ==
    \/ AcquireOperation
    \/ AcquireCancelled
    \/ AdmissionRejected
    \/ Launch
    \/ \E o \in Faults : CommandSettles(o) \/ CommandTimesOut(o)
    \/ CommandCancelled

Next ==
    \/ \E c \in Commands : Refuse(c) \/ Replay(c) \/ Proceed(c)
    \/ CallStep
    \/ \E e \in RunIds : RunStep(e)
    \/ \E k \in Kinds : LateCount(k)
    \/ Shutdown
    \/ Restart

Spec == Init /\ [][Next]_vars
-----------------------------------------------------------------------------
(* Safety.                                                                 *)

\* "A redelivery cannot start a second copy while a legacy provisioner is
\* still unwinding": no two executions of one idempotency key are alive,
\* whichever of timeouts, failed saves, cancellations, resets and restarts
\* came between them (runWithTimeout, ExecuteContext's two timeout checks).
NoOverlappingCopies ==
    \A e, f \in Live : runs[e].cmd.key = runs[f].cmd.key => e = f

\* "This prevents a retry from overlapping unknown work": at most one
\* mutating execution per site, late ones included (BeginSite,
\* BeginCommand and the fence that survives the dispatcher's timeout).
OneMutatorPerSite ==
    \A e, f \in Live :
        /\ Fenced(runs[e].cmd) /\ Fenced(runs[f].cmd)
        /\ runs[e].cmd.site = runs[f].cmd.site
        => e = f

RunsOfKind(kind) == {e \in Live : runs[e].cmd.kind = kind}

\* Every slot taken from a pool is held by exactly one execution (or by the
\* call that just took it), so a pool neither leaks slots, which would block
\* every later call for ever, nor hands out more than its size.
SlotsAccounted ==
    \A k \in Kinds :
        LET admitting == IF call # Idle /\ call.phase = "slot" /\ call.cmd.kind = k
                         THEN 1 ELSE 0
        IN  /\ slots[k] = Cardinality(RunsOfKind(k)) + admitting
            /\ inUse[k] = slots[k] + freeing[k]
            /\ slots[k] <= Concurrency[k]

HasMutator(s) == \E e \in Live : Fenced(runs[e].cmd) /\ runs[e].cmd.site = s

\* A fence of the site's current generation belongs to an execution that is
\* still alive: no path through timeout, late completion or rejection leaves
\* a site locked (the one left behind by a successful delete is older than
\* the generation ReleaseSite moved on to).
CurrentFenceOwned ==
    \A s \in Sites :
        siteFences[s] # 0 /\ siteFences[s] = generations[s] => HasMutator(s)

\* "A successful late completion keeps its reservation and a late error
\* rolls it back": with no execution under way on a site, its reservation is
\* the plan the host runs it with.
ReservationTracksHost ==
    ~drifted => \A s \in Sites : HasMutator(s) \/ reservations[s] = host[s]

\* "The resulting degraded flag makes the condition observable": reservations
\* beyond the limit are flagged.
OvercommitFlagged == Fitting(reservations) \/ degraded

\* A recorded or returned success stands for at least one execution that
\* succeeded on the host, never for a refusal, a timeout or a tombstone.
SuccessIsReal ==
    /\ \A k \in Keys : commandsFile[k] # None /\ commandsFile[k].status = "succeeded"
                       => effects[k] > 0
    /\ reply # NoReply /\ reply.status = "succeeded" => effects[reply.cmd.key] > 0

\* "A redelivery cannot re-run a side-effecting command": a cached command
\* succeeds on the host at most once, also when the store is full and keeps a
\* tombstone in its place, unless the process restarted, the node was reset or
\* its record could not be written: the write failed, or the result alone is
\* larger than the store.
SideEffectOnce ==
    ~drifted => \A c \in Commands : Cached(c) /\ c.key \notin unsaved
                                    => effects[c.key] <= 1

\* Between the lookup at the head of ExecuteContext and the launch, several
\* steps and a wait for the pool later: an execution starts only for a key
\* that commands.json does not hold (or holds as an uncached, finished read).
RecordedNeverRelaunched ==
    [][\A e \in RunIds :
         runs[e] = NoRun /\ runs'[e] # NoRun =>
            LET c == runs'[e].cmd
            IN  /\ Cached(c) => commandsFile[c.key] = None
                /\ commandsFile[c.key] # None => ~commandsFile[c.key].timedOut]_vars
-----------------------------------------------------------------------------
(* Liveness.  Go schedules the call and the late callbacks.  Nothing makes a *)
(* provisioner return: its external commands run without a context and go   *)
(* on after the call has given them up.                                     *)
Fairness ==
    /\ WF_vars(CallStep)
    /\ \A e \in 1 .. MaxRuns : WF_vars(LateCompletion(e))

FairSpec == Spec /\ Fairness

\* The call waits for provisioners that have not returned: for a slot of a
\* pool they hold in full, or for its own when nothing bounds it.
BehindProvisioner ==
    /\ call # Idle
    /\ \/ /\ call.phase = "admit" /\ Pooled(call.cmd.kind) /\ ~cancelled
          /\ Cardinality({e \in Working : runs[e].cmd.kind = call.cmd.kind})
                = Concurrency[call.cmd.kind]
       \/ call.phase = "run" /\ ~call.cmd.bounded /\ call.run \in Working

\* Every ExecuteContext call returns, unless provisioners that never return
\* keep it waiting: a timed-out execution that has ended, a refused admission
\* or a cancelled wait keeps no slot from the calls behind it.
EveryCallReturns == []<>(call = Idle) \/ <>[]BehindProvisioner

\* An execution whose provisioner has returned settles its admission, whether
\* the call still waits for it, gives it up at that moment or is long gone.
EveryRunSettles ==
    \A e \in 1 .. MaxRuns :
        (e \in Live /\ runs[e].state = "done") ~> (runs[e] = NoRun)
=============================================================================
