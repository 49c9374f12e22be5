------------------------- MODULE IdempotentExecution -------------------------
(***************************************************************************)
(* What the executor promises to the poll loop, without pools, fences and  *)
(* plans: calls are served one at a time, an idempotency key has at most   *)
(* one execution alive, a key with a durable record is answered from it,   *)
(* and a key that timed out is not started again by this process.          *)
(* Executor.tla implements this specification; Agent.tla builds on it.     *)
(***************************************************************************)
EXTENDS Naturals

CONSTANTS
    Keys,           \* idempotency keys
    CachedKeys,     \* those whose result is remembered
    ResetKeys,      \* those whose execution wipes the records (system.reset)
    MaxEffects,     \* bound: executions that may start
    Idle,           \* nobody is served
    NoAnswer        \* the call being served has not returned

ASSUME ContractAssumption ==
    /\ CachedKeys \subseteq Keys /\ ResetKeys \subseteq CachedKeys
    /\ MaxEffects \in Nat
    /\ Idle \notin [key: Keys, started: BOOLEAN]
    /\ NoAnswer \notin [key: Keys, status: {"succeeded", "failed"}]

VARIABLES
    serving,    \* the key being served, and whether its execution started
    answer,     \* what the last call returned
    alive,      \* the execution of each key: none, running, or its outcome
    record,     \* durable: what is known about each key
    barred,     \* keys this process saw time out
    stopping,   \* the process was told to stop
    starts,     \* executions started so far
    effects     \* history: executions that succeeded

contractVars ==
    <<serving, answer, alive, record, barred, stopping, starts, effects>>

Records == {"none", "succeeded", "failed", "timeout"}
NoRecords == [k \in Keys |-> "none"]
NobodyAlive == [k \in Keys |-> "no"]

ContractTypeOK ==
    /\ serving \in [key: Keys, started: BOOLEAN] \cup {Idle}
    /\ answer \in [key: Keys, status: {"succeeded", "failed"}] \cup {NoAnswer}
    /\ alive \in [Keys -> {"no", "running", "ok", "err"}]
    /\ record \in [Keys -> Records]
    /\ barred \subseteq Keys
    /\ stopping \in BOOLEAN
    /\ starts \in 0 .. MaxEffects
    /\ effects \in [Keys -> Nat]

ContractInit ==
    /\ serving = Idle /\ answer = NoAnswer
    /\ alive = NobodyAlive
    /\ record = NoRecords
    /\ barred = {} /\ stopping = FALSE
    /\ starts = 0
    /\ effects = [k \in Keys |-> 0]
-----------------------------------------------------------------------------
\* Nothing known about the key forbids an execution.
Startable(k) ==
    /\ k \notin barred
    /\ record[k] # "timeout"
    /\ k \in CachedKeys => record[k] = "none"

Answer(k, status) ==
    /\ serving' = Idle
    /\ answer' = [key |-> k, status |-> status]

Unstarted(k) == [key |-> k, started |-> FALSE]
Started(k) == [key |-> k, started |-> TRUE]

\* Turned away at the door or at admission: nothing happens on the host.
Refuse(k) ==
    /\ serving \in {Idle, Unstarted(k)}
    /\ Answer(k, "failed")
    /\ UNCHANGED <<alive, record, barred, stopping, starts, effects>>

\* Answered from the record.
Replay(k) ==
    /\ serving = Idle /\ ~stopping
    /\ k \in CachedKeys /\ record[k] \in {"succeeded", "failed"}
    /\ Answer(k, record[k])
    /\ UNCHANGED <<alive, record, barred, stopping, starts, effects>>

Accept(k) ==
    /\ serving = Idle /\ ~stopping
    /\ Startable(k)
    /\ serving' = Unstarted(k)
    /\ answer' = NoAnswer
    /\ UNCHANGED <<alive, record, barred, stopping, starts, effects>>

Start(k) ==
    /\ serving = Unstarted(k)
    /\ Startable(k) /\ alive[k] = "no"
    /\ starts < MaxEffects
    /\ starts' = starts + 1
    /\ serving' = Started(k)
    /\ alive' = [alive EXCEPT ![k] = "running"]
    /\ UNCHANGED <<answer, record, barred, stopping, effects>>

\* The execution ends, with or without success.
Succeed(k) ==
    /\ alive[k] = "running" /\ k \notin ResetKeys
    /\ alive' = [alive EXCEPT ![k] = "ok"]
    /\ effects' = [effects EXCEPT ![k] = @ + 1]
    /\ UNCHANGED <<serving, answer, record, barred, stopping, starts>>

Fail(k) ==
    /\ alive[k] = "running"
    /\ alive' = [alive EXCEPT ![k] = "err"]
    /\ UNCHANGED <<serving, answer, record, barred, stopping, starts, effects>>

\* A reset that succeeds also wipes the records, or fails to.
Wipe(k) ==
    /\ alive[k] = "running" /\ k \in ResetKeys
    /\ alive' = [alive EXCEPT ![k] = "ok"]
    /\ effects' = [effects EXCEPT ![k] = @ + 1]
    /\ record' \in {record, NoRecords}
    /\ UNCHANGED <<serving, answer, barred, stopping, starts>>

\* The call sees its execution end.  A success is remembered before it is
\* returned; when remembering it reports an error, so does the call.
Settle(k) ==
    /\ serving = Started(k) /\ alive[k] \in {"ok", "err"}
    /\ alive' = [alive EXCEPT ![k] = "no"]
    /\ \/ alive[k] = "err" /\ Answer(k, "failed") /\ UNCHANGED record
       \/ alive[k] = "ok" /\ k \notin CachedKeys /\ Answer(k, "succeeded") /\ UNCHANGED record
       \/ /\ alive[k] = "ok" /\ k \in CachedKeys
          /\ \/ Answer(k, "succeeded") /\ record' = [record EXCEPT ![k] = "succeeded"]
             \/ /\ Answer(k, "failed")
                /\ \/ UNCHANGED record
                   \/ \E r \in {"succeeded", "failed"} : record' = [record EXCEPT ![k] = r]
    /\ UNCHANGED <<barred, stopping, starts, effects>>

\* The call gives up on its execution, which stays alive.
TimeOut(k) ==
    /\ serving = Started(k) /\ ~stopping
    /\ Answer(k, "failed")
    /\ barred' = barred \cup {k}
    /\ \/ UNCHANGED record
       \/ \E r \in {"timeout", "failed"} : record' = [record EXCEPT ![k] = r]
    /\ UNCHANGED <<alive, stopping, starts, effects>>

Abandon(k) ==
    /\ serving = Started(k) /\ stopping
    /\ Answer(k, "failed")
    /\ UNCHANGED <<alive, record, barred, stopping, starts, effects>>

\* An abandoned execution ends for good.
Depart(k) ==
    /\ serving # Started(k) /\ alive[k] \in {"ok", "err"}
    /\ alive' = [alive EXCEPT ![k] = "no"]
    /\ UNCHANGED <<serving, answer, record, barred, stopping, starts, effects>>

Stop ==
    /\ ~stopping
    /\ stopping' = TRUE
    /\ UNCHANGED <<serving, answer, alive, record, barred, starts, effects>>

\* The process ends; only the records survive.
Crash ==
    /\ serving' = Idle /\ answer' = NoAnswer
    /\ alive' = NobodyAlive
    /\ barred' = {} /\ stopping' = FALSE
    /\ UNCHANGED <<record, starts, effects>>

ServeNext ==
    \E k \in Keys :
        \/ Refuse(k) \/ Replay(k) \/ Accept(k) \/ Start(k)
        \/ Settle(k) \/ TimeOut(k) \/ Abandon(k)

WorkNext ==
    \E k \in Keys : Succeed(k) \/ Fail(k) \/ Wipe(k) \/ Depart(k)

ContractNext == ServeNext \/ WorkNext \/ Stop \/ Crash

ContractSpec == ContractInit /\ [][ContractNext]_contractVars
-----------------------------------------------------------------------------
\* A success that is remembered or returned happened on the host.
ContractSuccessIsReal ==
    /\ \A k \in Keys : record[k] = "succeeded" => effects[k] > 0
    /\ answer # NoAnswer /\ answer.status = "succeeded" => effects[answer.key] > 0
=============================================================================
