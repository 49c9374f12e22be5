------------------------------- MODULE Outbox --------------------------------
(***************************************************************************)
(* internal/controlplane/outbox.go: FileOutbox, the results that wait to   *)
(* be reported.  `pending` is the map in memory, `outboxFile` is           *)
(* outbox.json.  An entry is keyed by the command, so a result for a       *)
(* redelivered command replaces the one under the older lease.             *)
(*                                                                         *)
(* persist wraps AtomicWrite's error with %v, which drops the CommitError  *)
(* inside it.  The callers' test !durable.IsCommitted(err) is therefore    *)
(* always true and EVERY failing write is undone in memory, the committed  *)
(* ones too.                                                               *)
(*                                                                         *)
(* A result is oversized when it alone encodes past DefaultOutboxBytes: it *)
(* fits into no outbox, an empty one included.  Results that are too large *)
(* only together meet the entry bound first: like it, that refuses the     *)
(* last one (ErrOutboxFull) until others have been reported.               *)
(***************************************************************************)
EXTENDS Naturals, FiniteSets, Durable

CONSTANTS
    Ids,            \* command ids
    Leases,         \* lease tokens
    MaxPending      \* DefaultOutboxLimit

ASSUME OutboxAssumption == MaxPending \in Nat \ {0} /\ IsFiniteSet(Ids)

VARIABLES
    pending,        \* FileOutbox.pending
    outboxFile,     \* the contents of outbox.json
    accepted        \* history: ids whose last Put returned nil, until Delete or Reset is called

outboxVars == <<pending, outboxFile, accepted>>

PendingResult ==
    [lease: Leases, status: {"succeeded", "failed"}, oversized: BOOLEAN]

ASSUME NoneIsNotPending == None \notin PendingResult

OutboxTypeOK ==
    /\ pending \in [Ids -> PendingResult \cup {None}]
    /\ outboxFile \in [Ids -> PendingResult \cup {None}]
    /\ accepted \subseteq Ids

EmptyOutbox == [i \in Ids |-> None]

OutboxInit ==
    /\ pending = EmptyOutbox
    /\ outboxFile = EmptyOutbox
    /\ accepted = {}
-----------------------------------------------------------------------------
\* The ids List returns.
Listed(box) == {i \in Ids : box[i] # None}

validateLimits(box) ==
    /\ Cardinality(Listed(box)) <= MaxPending
    /\ \A i \in Listed(box) : ~box[i].oversized

\* The write, and the rollback every error leads to.
persistOutbox(new, outcome) ==
    /\ outboxFile' = AtomicWrite(outboxFile, new, outcome)
    /\ pending' = IF outcome = "ok" THEN new ELSE pending

\* Put returned nil.
PutOK(id, result, outcome) ==
    validateLimits([pending EXCEPT ![id] = result]) /\ outcome = "ok"

\* Mutant: Put without validateLimits.
PutUnbounded(id, result, outcome) ==
    /\ persistOutbox([pending EXCEPT ![id] = result], outcome)
    /\ accepted' = IF outcome = "ok" THEN accepted \cup {id} ELSE accepted

Put(id, result, outcome) ==
    LET new == [pending EXCEPT ![id] = result]
    IN  /\ IF validateLimits(new)
           THEN persistOutbox(new, outcome)
           ELSE UNCHANGED <<pending, outboxFile>>
        /\ accepted' = IF PutOK(id, result, outcome)
                       THEN accepted \cup {id} ELSE accepted

\* A delete of an id that is not there returns before any write.
Delete(id, outcome) ==
    /\ IF pending[id] = None
       THEN UNCHANGED <<pending, outboxFile>>
       ELSE persistOutbox([pending EXCEPT ![id] = None], outcome)
    /\ accepted' = accepted \ {id}

DeleteOK(id, outcome) == pending[id] = None \/ outcome = "ok"

ResetOutbox(outcome) ==
    /\ persistOutbox(EmptyOutbox, outcome)
    /\ accepted' = {}

\* NewFileOutbox: the limits apply to the file it reads.
OutboxOpens == validateLimits(outboxFile)

\* Mutant: a start that forgets the file.
OpenOutboxEmpty ==
    /\ pending' = EmptyOutbox
    /\ UNCHANGED <<outboxFile, accepted>>

OpenOutbox ==
    /\ OutboxOpens
    /\ pending' = outboxFile
    /\ UNCHANGED <<outboxFile, accepted>>
-----------------------------------------------------------------------------
(* The outbox on its own, with a process restart at any moment.            *)
OutboxNext ==
    \/ \E i \in Ids, r \in PendingResult, o \in Outcomes : Put(i, r, o)
    \/ \E i \in Ids, o \in Outcomes : Delete(i, o)
    \/ \E o \in Outcomes : ResetOutbox(o)
    \/ OpenOutbox

OutboxSpec == OutboxInit /\ [][OutboxNext]_outboxVars

\* A command whose Put returned nil has a result in the file and in memory
\* until the poller deletes it or a reset drops everything: no failing or
\* committed write of any result and no restart loses it.
AcceptedResultsKept ==
    \A i \in accepted : pending[i] # None /\ outboxFile[i] # None

\* Every file the outbox writes is one the next start accepts.
OutboxFileOpens == OutboxOpens

\* "Callers must not roll back their in-memory value for this error": the
\* map in memory is the map in the file.
OutboxMirrorsFile == pending = outboxFile
=============================================================================
