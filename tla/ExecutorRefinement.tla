------------------------- MODULE ExecutorRefinement --------------------------
(***************************************************************************)
(* The executor implements IdempotentExecution.  The record of a key is    *)
(* its entry in commands.json; the execution of a key is the one live run  *)
(* for it.                                                                 *)
(***************************************************************************)
EXTENDS Executor

RecordOf(rs, k) ==
    CASE rs[k] = None          -> "none"
      [] rs[k] # None /\ rs[k].timedOut    -> "timeout"
      [] OTHER                 -> rs[k].status

AliveOf(rs, k) ==
    LET mine == {e \in RunIds : rs[e] # NoRun /\ rs[e].cmd.key = k}
        run  == rs[CHOOSE e \in mine : TRUE]
    IN  CASE mine = {}                    -> "no"
          [] mine # {} /\ run.state # "done"  -> "running"
          [] OTHER                        -> IF run.ok THEN "ok" ELSE "err"

\* The refinement mapping.
ServingBar ==
    IF call = Idle THEN Idle
    ELSE [key |-> call.cmd.key, started |-> call.phase = "run"]
AnswerBar ==
    IF reply = NoReply THEN NoReply ELSE [key |-> reply.cmd.key, status |-> reply.status]
AliveBar == [k \in Keys |-> AliveOf(runs, k)]
RecordBar == [k \in Keys |-> RecordOf(commandsFile, k)]

\* Idle and NoReply are no calls and no answers of the contract either.
ASSUME MappingAssumption ==
    /\ Idle \notin [key: Keys, started: BOOLEAN]
    /\ NoReply \notin [key: Keys, status: Statuses]

Contract == INSTANCE IdempotentExecution WITH
    CachedKeys <- {c.key : c \in {d \in Commands : Cached(d)}},
    ResetKeys  <- {c.key : c \in {d \in Commands : d.type = "reset"}},
    MaxEffects <- MaxRuns,
    NoAnswer   <- NoReply,
    serving    <- ServingBar,
    answer     <- AnswerBar,
    alive      <- AliveBar,
    record     <- RecordBar,
    barred     <- timedOut,
    stopping   <- cancelled,
    starts     <- launched

\* Every step of the executor, the pools, fences, late callbacks, failing
\* writes and restarts included, is a step the contract allows or leaves the
\* contract's state alone.
ImplementsContract == Contract!ContractSpec
=============================================================================
