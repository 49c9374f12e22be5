----------------------------- MODULE ResultStore -----------------------------
(***************************************************************************)
(* internal/command/file_store.go: the idempotency store.  `results` is    *)
(* the map in memory, `commandsFile` is commands.json.  A result is        *)
(* abstracted to its status, its encoded size and the two flags that the   *)
(* executor reads back.                                                    *)
(***************************************************************************)
EXTENDS Naturals, FiniteSets, FiniteSetsExt, Durable

CONSTANTS
    Keys,           \* idempotency keys
    MaxEntries,     \* DefaultResultLimit
    MaxBytes,       \* DefaultResultBytes
    TombstoneSize   \* encoded size of a tombstone

ASSUME StoreAssumption ==
    /\ MaxEntries \in Nat \ {0}
    /\ MaxBytes \in Nat \ {0}
    /\ TombstoneSize \in Nat
    /\ IsFiniteSet(Keys)

VARIABLES
    results,        \* FileStore.results
    commandsFile    \* the contents of commands.json

storeVars == <<results, commandsFile>>

Statuses == {"succeeded", "failed"}

Result ==
    [status: Statuses, size: Nat, timedOut: BOOLEAN, tombstone: BOOLEAN]

ASSUME NoneIsNoResult == None \notin Result

StoreTypeOK ==
    /\ results \in [Keys -> Result \cup {None}]
    /\ commandsFile \in [Keys -> Result \cup {None}]

NoResults == [k \in Keys |-> None]

StoreInit ==
    /\ results = NoResults
    /\ commandsFile = NoResults
-----------------------------------------------------------------------------
Present(rs) == {k \in Keys : rs[k] # None}

liveResultCount(rs) == Cardinality({k \in Present(rs) : ~rs[k].tombstone})

\* The length of the encoded map.
EncodedBytes(rs) == MapThenSumSet(LAMBDA k : rs[k].size, Present(rs))

WithinLimits(rs) ==
    /\ liveResultCount(rs) <= MaxEntries
    /\ EncodedBytes(rs) <= MaxBytes

\* The compact entry that keeps a key whose result does not fit.  It does
\* not carry over the TimedOut flag of the result it replaces.
Tombstone ==
    [status |-> "failed", size |-> TombstoneSize,
     timedOut |-> FALSE, tombstone |-> TRUE]

\* A result that could not be encoded within MaxBytes even on its own is
\* turned away before the tombstone path.
TooLargeAlone(result) == result.size > MaxBytes

\* Mutant: a full store makes room for a result by evicting the others.
CandidateEvicts(key, result) ==
    LET with == [results EXCEPT ![key] = result]
    IN  IF WithinLimits(with) THEN with ELSE [NoResults EXCEPT ![key] = result]

\* The map Save tries to write.
Candidate(key, result) ==
    LET with == [results EXCEPT ![key] = result]
    IN  IF WithinLimits(with)
        THEN with
        ELSE [results EXCEPT ![key] = Tombstone]

\* Mutant: the rollback does not ask IsCommitted.
persistUndoneAlways(new, outcome) ==
    /\ commandsFile' = AtomicWrite(commandsFile, new, outcome)
    /\ results' = IF outcome = "ok" THEN new ELSE results

persist(new, outcome) ==
    /\ commandsFile' = AtomicWrite(commandsFile, new, outcome)
    /\ results' = MemoryAfter(results, new, outcome)

Save(key, result, outcome) ==
    IF TooLargeAlone(result)
    THEN UNCHANGED storeVars
    ELSE persist(Candidate(key, result), outcome)

\* Save returned nil.
SaveOK(key, result, outcome) ==
    /\ ~TooLargeAlone(result)
    /\ WithinLimits([results EXCEPT ![key] = result])
    /\ outcome = "ok"

ResetStore(outcome) == persist(NoResults, outcome)

\* NewFileStore refuses a file outside the limits (enforceLimits).
StoreOpens == WithinLimits(commandsFile)

OpenStore ==
    /\ StoreOpens
    /\ results' = commandsFile
    /\ UNCHANGED commandsFile
-----------------------------------------------------------------------------
(* The store on its own: any caller, any result, any outcome of a write,   *)
(* and a restart of the process at any moment.                             *)

\* Results the executor saves: a normal one or a terminal timeout.
Saved ==
    {r \in [status: Statuses, size: 1 .. MaxBytes + 1, timedOut: BOOLEAN,
            tombstone: {FALSE}] : r.timedOut => r.status = "failed"}

StoreNext ==
    \/ \E k \in Keys, r \in Saved, o \in Outcomes : Save(k, r, o)
    \/ \E o \in Outcomes : ResetStore(o)
    \/ OpenStore

StoreSpec == StoreInit /\ [][StoreNext]_storeVars

\* Whatever a write's outcome, the map in memory is the map in the file: a
\* committed write is not undone in memory and a failed one is (Save,
\* saveTombstone and Reset, each with its own rollback).
StoreMirrorsFile == results = commandsFile

\* Results "are never evicted": a write keeps every key that commands.json
\* had, unless it is the reset that empties the file.
KeysNeverForgotten ==
    [][\/ Present(commandsFile) \subseteq Present(commandsFile')
       \/ commandsFile' = NoResults]_storeVars

\* "Command results are bounded by count and 64 MiB": what the next start
\* insists on (enforceLimits) holds of every file the store writes.
FileWithinLimits == WithinLimits(commandsFile)

\* The count bound alone.
FileWithinEntryLimit == liveResultCount(commandsFile) <= MaxEntries
=============================================================================
