--------------------------- MODULE ExecutorProofs ----------------------------
(* The idempotency store and the executor, for every set of keys, commands, *)
(* sites and pools, every limit and every number of executions and          *)
(* restarts.                                                                *)
EXTENDS ExecutorRefinement, FiniteSetTheorems, TLAPS

(* The idempotency store on its own.                                        *)
\* A tombstone and the results the executor saves are results.
LEMMA SavedAreResults == Tombstone \in Result /\ Saved \subseteq Result
<1>1. Tombstone \in Result
  BY StoreAssumption DEF Tombstone, Result, Statuses
<1>2. Saved \subseteq Result
  <2>1. 1 .. MaxBytes + 1 \subseteq Nat
    BY StoreAssumption
  <2>2. {FALSE} \subseteq BOOLEAN
    OBVIOUS
  <2>. QED
    BY <2>1, <2>2, Zenon DEF Saved, Result
<1>. QED
  BY <1>1, <1>2

\* What Save writes has the store's type.
LEMMA CandidateType ==
    ASSUME StoreTypeOK, NEW k \in Keys, NEW r \in Result
    PROVE  Candidate(k, r) \in [Keys -> Result \cup {None}]
BY SavedAreResults DEF StoreTypeOK, Candidate

\* Whatever its outcome, a write of a well-typed map leaves the file and the
\* memory well-typed and equal: the two rollbacks agree.
LEMMA PersistMirrors ==
    ASSUME StoreTypeOK, StoreMirrorsFile,
           NEW new \in [Keys -> Result \cup {None}], NEW o \in Outcomes,
           persist(new, o)
    PROVE  StoreTypeOK' /\ StoreMirrorsFile'
BY DEF StoreTypeOK, StoreMirrorsFile, persist, AtomicWrite, MemoryAfter,
       IsCommitted, Outcomes

\* The types of the map in memory and of the map in commands.json, and their
\* equality after every Save, Reset, failing write and restart
\* (file_store.go's three rollbacks).
THEOREM StoreMirrors == StoreSpec => [](StoreTypeOK /\ StoreMirrorsFile)
<1>1. StoreInit => StoreTypeOK /\ StoreMirrorsFile
  BY DEF StoreInit, StoreTypeOK, StoreMirrorsFile, NoResults
<1>2. StoreTypeOK /\ StoreMirrorsFile /\ [StoreNext]_storeVars
        => StoreTypeOK' /\ StoreMirrorsFile'
  <2>. SUFFICES ASSUME StoreTypeOK, StoreMirrorsFile, [StoreNext]_storeVars
                PROVE  StoreTypeOK' /\ StoreMirrorsFile'
    OBVIOUS
  <2>1. ASSUME NEW k \in Keys, NEW r \in Saved, NEW o \in Outcomes, Save(k, r, o)
        PROVE  StoreTypeOK' /\ StoreMirrorsFile'
    <3>1. CASE TooLargeAlone(r)
      BY <2>1, <3>1 DEF Save, storeVars, StoreTypeOK, StoreMirrorsFile
    <3>2. CASE ~TooLargeAlone(r)
      <4>1. Candidate(k, r) \in [Keys -> Result \cup {None}]
        BY CandidateType, SavedAreResults
      <4>2. persist(Candidate(k, r), o)
        BY <2>1, <3>2 DEF Save
      <4>. QED
        BY <4>1, <4>2, PersistMirrors
    <3>. QED
      BY <3>1, <3>2
  <2>2. ASSUME NEW o \in Outcomes, ResetStore(o)
        PROVE  StoreTypeOK' /\ StoreMirrorsFile'
    <3>1. NoResults \in [Keys -> Result \cup {None}]
      BY DEF NoResults
    <3>. QED
      BY <2>2, <3>1, PersistMirrors DEF ResetStore
  <2>3. CASE OpenStore
    BY <2>3 DEF OpenStore, StoreTypeOK, StoreMirrorsFile
  <2>4. CASE UNCHANGED storeVars
    BY <2>4 DEF storeVars, StoreTypeOK, StoreMirrorsFile
  <2>. QED
    BY <2>1, <2>2, <2>3, <2>4 DEF StoreNext
<1>. QED
  BY <1>1, <1>2, PTL DEF StoreSpec
-----------------------------------------------------------------------------
LiveKeys(rs) == {k \in Present(rs) : ~rs[k].tombstone}

\* The map Save writes never counts more live results than allowed: a result
\* that fits the count, or a tombstone, which is not live.
LEMMA CandidateWithinEntryLimit ==
    ASSUME StoreTypeOK, liveResultCount(results) <= MaxEntries,
           NEW k \in Keys, NEW r \in Result
    PROVE  liveResultCount(Candidate(k, r)) <= MaxEntries
<1>. DEFINE with == [results EXCEPT ![k] = r]
            kept == [results EXCEPT ![k] = Tombstone]
<1>1. CASE WithinLimits(with)
  BY <1>1 DEF Candidate, WithinLimits
<1>2. CASE ~WithinLimits(with)
  <2>1. Candidate(k, r) = kept
    BY <1>2 DEF Candidate
  <2>2. LiveKeys(kept) \subseteq LiveKeys(results)
    BY DEF LiveKeys, Present, Tombstone, StoreTypeOK
  <2>3. IsFiniteSet(LiveKeys(results))
    BY StoreAssumption, FS_Subset DEF LiveKeys, Present
  <2>4. /\ Cardinality(LiveKeys(kept)) <= Cardinality(LiveKeys(results))
        /\ Cardinality(LiveKeys(kept)) \in Nat
        /\ Cardinality(LiveKeys(results)) \in Nat
    BY <2>2, <2>3, FS_Subset, FS_CardinalityType
  <2>5. Cardinality(LiveKeys(results)) <= MaxEntries
    BY DEF liveResultCount, LiveKeys
  <2>6. Cardinality(LiveKeys(kept)) <= MaxEntries
    BY <2>4, <2>5, StoreAssumption
  <2>. QED
    BY <2>1, <2>6 DEF liveResultCount, LiveKeys
<1>. QED
  BY <1>1, <1>2

\* Every commands.json holds at most DefaultResultLimit live results, so the
\* next start never refuses it for their number (enforceLimits).
THEOREM EntryLimitHolds == StoreSpec => []FileWithinEntryLimit
<1>1. StoreInit => FileWithinEntryLimit
  <2>. SUFFICES ASSUME StoreInit PROVE FileWithinEntryLimit
    OBVIOUS
  <2>1. {k \in Present(commandsFile) : ~commandsFile[k].tombstone} = {}
    BY DEF StoreInit, NoResults, Present
  <2>. QED
    BY <2>1, FS_EmptySet, StoreAssumption DEF FileWithinEntryLimit, liveResultCount
<1>2. /\ StoreTypeOK /\ StoreMirrorsFile /\ FileWithinEntryLimit
      /\ [StoreNext]_storeVars
      => FileWithinEntryLimit'
  <2>. SUFFICES ASSUME StoreTypeOK, StoreMirrorsFile, FileWithinEntryLimit,
                       [StoreNext]_storeVars
                PROVE  FileWithinEntryLimit'
    OBVIOUS
  <2>0. liveResultCount(results) <= MaxEntries
    BY DEF StoreMirrorsFile, FileWithinEntryLimit
  <2>1. ASSUME NEW k \in Keys, NEW r \in Saved, NEW o \in Outcomes, Save(k, r, o)
        PROVE  commandsFile' = commandsFile \/ commandsFile' = Candidate(k, r)
    BY <2>1 DEF Save, storeVars, persist, AtomicWrite
  <2>2. ASSUME NEW o \in Outcomes, ResetStore(o)
        PROVE  commandsFile' = commandsFile \/ commandsFile' = NoResults
    BY <2>2 DEF ResetStore, persist, AtomicWrite
  <2>3. liveResultCount(NoResults) <= MaxEntries
    <3>1. {k \in Present(NoResults) : ~NoResults[k].tombstone} = {}
      BY DEF NoResults, Present
    <3>. QED
      BY <3>1, FS_EmptySet, StoreAssumption DEF liveResultCount
  <2>4. \/ commandsFile' = commandsFile
        \/ commandsFile' = NoResults
        \/ \E k \in Keys, r \in Saved : commandsFile' = Candidate(k, r)
    BY <2>1, <2>2 DEF StoreNext, OpenStore, storeVars
  <2>5. \A k \in Keys, r \in Saved : liveResultCount(Candidate(k, r)) <= MaxEntries
    BY <2>0, SavedAreResults, CandidateWithinEntryLimit
  <2>6. liveResultCount(commandsFile') <= MaxEntries
    BY <2>3, <2>4, <2>5 DEF FileWithinEntryLimit
  <2>. QED
    BY <2>6 DEF FileWithinEntryLimit, liveResultCount, Present
<1>. QED
  BY <1>1, <1>2, StoreMirrors, PTL DEF StoreSpec

\* No write forgets a key that commands.json holds, unless it empties the
\* file (saveTombstone keeps the key of a result that does not fit).
THEOREM KeysKept == StoreSpec => KeysNeverForgotten
<1>1. StoreTypeOK /\ StoreMirrorsFile /\ [StoreNext]_storeVars
      => [\/ Present(commandsFile) \subseteq Present(commandsFile')
          \/ commandsFile' = NoResults]_storeVars
  <2>. SUFFICES ASSUME StoreTypeOK, StoreMirrorsFile, StoreNext
                PROVE  \/ Present(commandsFile) \subseteq Present(commandsFile')
                       \/ commandsFile' = NoResults
    BY DEF storeVars
  <2>1. ASSUME NEW k \in Keys, NEW r \in Saved
        PROVE  Present(results) \subseteq Present(Candidate(k, r))
    <3>1. r # None /\ Tombstone # None
      BY SavedAreResults, NoneIsNoResult
    <3>. QED
      BY <3>1 DEF Candidate, Present, StoreTypeOK
  <2>2. ASSUME NEW k \in Keys, NEW r \in Saved, NEW o \in Outcomes, Save(k, r, o)
        PROVE  commandsFile' = commandsFile \/ commandsFile' = Candidate(k, r)
    BY <2>2 DEF Save, storeVars, persist, AtomicWrite
  <2>3. ASSUME NEW o \in Outcomes, ResetStore(o)
        PROVE  commandsFile' = commandsFile \/ commandsFile' = NoResults
    BY <2>3 DEF ResetStore, persist, AtomicWrite
  <2>4. \/ commandsFile' = commandsFile
        \/ commandsFile' = NoResults
        \/ \E k \in Keys, r \in Saved : commandsFile' = Candidate(k, r)
    BY <2>2, <2>3 DEF StoreNext, OpenStore
  <2>. QED
    BY <2>1, <2>4 DEF StoreMirrorsFile
<1>. QED
  BY <1>1, StoreMirrors, PTL DEF StoreSpec, KeysNeverForgotten
-----------------------------------------------------------------------------
(* The executor.                                                            *)

\* TypeOK in parts, with the pools' counters as integers: that they never
\* fall below zero follows from SlotsAccounted.
SiteTypeOK ==
    /\ reservations \in [Sites -> Resources \cup {NoReservation}]
    /\ generations \in [Sites -> Nat]
    /\ siteFences \in [Sites -> Nat]
    /\ degraded \in BOOLEAN

PoolTypeOK ==
    /\ slots \in [Kinds -> Int]
    /\ inUse \in [Kinds -> Int]
    /\ freeing \in [Kinds -> Nat]

ServeTypeOK ==
    /\ call \in Call \cup {Idle}
    /\ reply \in Reply \cup {NoReply}
    /\ runs \in [RunIds -> Run \cup {NoRun}]
    /\ launched \in 0 .. MaxRuns
    /\ timedOut \subseteq Keys

ProcTypeOK ==
    /\ cancelled \in BOOLEAN
    /\ up \in BOOLEAN
    /\ restarts \in 0 .. MaxRestarts

HostTypeOK ==
    /\ host \in [Sites -> Resources \cup {NoReservation}]
    /\ drifted \in BOOLEAN
    /\ unsaved \subseteq Keys
    /\ effects \in [Keys -> Nat]

StoreOK == StoreTypeOK /\ StoreMirrorsFile

ExecTypeOK ==
    SiteTypeOK /\ PoolTypeOK /\ StoreOK /\ ServeTypeOK /\ ProcTypeOK /\ HostTypeOK

\* The call in progress and the executions alive belong together: a call
\* that has not launched yet may still launch, for a key without a terminal
\* timeout or a record; a call that has launched waits for its execution,
\* and only that one is attached.
Waiting == call # Idle /\ call.phase \in {"admit", "slot"}

CallShape ==
    /\ Waiting => /\ launched < MaxRuns
                  /\ call.cmd.key \notin timedOut
                  /\ Cached(call.cmd) => commandsFile[call.cmd.key] = None
                  /\ commandsFile[call.cmd.key] # None => ~commandsFile[call.cmd.key].timedOut
    /\ call # Idle /\ call.phase = "run" =>
            /\ call.run \in Live
            /\ runs[call.run].attached
            /\ runs[call.run].cmd = call.cmd
    /\ \A e \in Live :
            /\ e <= launched
            /\ runs[e].attached => call # Idle /\ call.phase = "run" /\ call.run = e

\* Why a redelivery cannot catch up with a late execution: either its key
\* has a terminal timeout, or the daemon is stopping and takes no new call.
LateBarred ==
    \A e \in Live :
        \/ runs[e].attached
        \/ runs[e].cmd.key \in timedOut
        \/ cancelled /\ call = Idle

ShapeInv == CallShape /\ LateBarred /\ NoOverlappingCopies

\* A live mutating execution holds the fence of its site, in the site's
\* current generation; a fence is never ahead of its generation.
FenceHeld ==
    \A e \in Live :
        Fenced(runs[e].cmd) =>
            LET s == runs[e].cmd.site
            IN  /\ runs[e].admission.site = s
                /\ runs[e].admission.generation = generations[s]
                /\ siteFences[s] = generations[s]
                /\ generations[s] > 0

FenceInv ==
    /\ FenceHeld
    /\ \A s \in Sites : siteFences[s] <= generations[s]
    /\ OneMutatorPerSite
    /\ CurrentFenceOwned
-----------------------------------------------------------------------------
LEMMA CommandFields ==
    ASSUME NEW c \in Commands
    PROVE  /\ c.key \in Keys /\ c.site \in Sites /\ c.need \in Resources
           /\ c.kind \in Kinds \cup {"none"} /\ c.size \in Nat
           /\ c.bounded \in BOOLEAN
           /\ c \in Command
BY ExecutorAssumption DEF Command

LEMMA NoRunIsNoRun == NoRun \notin Run
<1>1. Run \subseteq [cmd: Command, state: {"running", "wiped", "done"}, ok: BOOLEAN,
                     attached: BOOLEAN, admission: SiteAdmission]
  BY ExecutorAssumption, Zenon DEF Run
<1>. QED
  BY <1>1, ExecutorAssumption

LEMMA RunFields ==
    ASSUME ExecTypeOK, NEW e \in RunIds
    PROVE  /\ e \in Live <=> runs[e] \in Run
           /\ e \in Live => /\ runs[e].cmd \in Commands
                            /\ runs[e].admission \in SiteAdmission
                            /\ runs[e].ok \in BOOLEAN
BY NoRunIsNoRun DEF ExecTypeOK, ServeTypeOK, Live, Run

LEMMA CallFields ==
    ASSUME ExecTypeOK
    PROVE  /\ Idle \notin Call
           /\ call # Idle => /\ call \in Call /\ call.cmd \in Commands
                             /\ call.run \in 0 .. MaxRuns
<1>1. Idle \notin Call
  <2>1. Call \subseteq [cmd: Command, phase: {"admit", "slot", "run"}, run: Nat]
    <3>1. 0 .. MaxRuns \subseteq Nat
      BY ExecutorAssumption
    <3>. QED
      BY <3>1, ExecutorAssumption, Zenon DEF Call
  <2>. QED
    BY <2>1, ExecutorAssumption
<1>. QED
  BY <1>1 DEF ExecTypeOK, ServeTypeOK, Call

\* The results the executor saves are results.
LEMMA ExecutorResults ==
    ASSUME NEW c \in Commands
    PROVE  ResultOf(c) \in Result /\ TimeoutResult \in Result
BY CommandFields, StoreAssumption DEF ResultOf, TimeoutResult, Result, Statuses

\* Save keeps the store's type and the agreement of memory and file, and
\* touches no other key.
LEMMA SaveKeeps ==
    ASSUME StoreTypeOK, StoreMirrorsFile, NEW k \in Keys, NEW r \in Result,
           NEW o \in Outcomes, Save(k, r, o)
    PROVE  StoreTypeOK' /\ StoreMirrorsFile'
<1>1. CASE TooLargeAlone(r)
  BY <1>1 DEF Save, storeVars, StoreTypeOK, StoreMirrorsFile
<1>2. CASE ~TooLargeAlone(r)
  BY <1>2, CandidateType, PersistMirrors DEF Save
<1>. QED
  BY <1>1, <1>2

LEMMA ResetKeeps ==
    ASSUME StoreTypeOK, StoreMirrorsFile, NEW o \in Outcomes, ResetStore(o)
    PROVE  /\ StoreTypeOK' /\ StoreMirrorsFile'
           /\ \A k \in Keys : commandsFile'[k] \in {None, commandsFile[k]}
<1>1. NoResults \in [Keys -> Result \cup {None}]
  BY DEF NoResults
<1>2. StoreTypeOK' /\ StoreMirrorsFile'
  BY <1>1, PersistMirrors DEF ResetStore
<1>3. \A k \in Keys : commandsFile'[k] \in {None, commandsFile[k]}
  BY DEF ResetStore, persist, AtomicWrite, NoResults
<1>. QED
  BY <1>2, <1>3

\* A counter of the pools keeps its type.
LEMMA BumpType ==
    ASSUME NEW f \in [Kinds -> Int], NEW k, NEW n \in Int
    PROVE  Bump(f, k, n) \in [Kinds -> Int]
BY DEF Bump, Pooled

\* Begin and Finish keep the types of the sites' state.
LEMMA BeginType ==
    ASSUME SiteTypeOK, NEW c \in Commands, BeginAdmission(c)
    PROVE  SiteTypeOK' /\ AdmissionFor(c.site) \in SiteAdmission
<1>1. AdmissionFor(c.site) \in SiteAdmission
  BY CommandFields DEF AdmissionFor, SiteAdmission, NextGeneration, SiteTypeOK
<1>2. CASE BeginSite(c.site, c.need)
  <2>1. degraded' \in BOOLEAN
    BY <1>2 DEF BeginSite
  <2>. QED
    BY <1>1, <1>2, <2>1, CommandFields DEF BeginSite, Fence, NextGeneration, SiteTypeOK
<1>3. CASE BeginCommand(c.site)
  BY <1>1, <1>3, CommandFields DEF BeginCommand, Fence, NextGeneration, SiteTypeOK
<1>4. CASE UNCHANGED siteVars
  BY <1>1, <1>4 DEF siteVars, SiteTypeOK
<1>. QED
  BY <1>2, <1>3, <1>4 DEF BeginAdmission

LEMMA FinishType ==
    ASSUME SiteTypeOK, NEW run \in Run, finishAdmission(run)
    PROVE  SiteTypeOK'
<1>1. /\ run.cmd \in Commands /\ run.cmd.site \in Sites
      /\ run.admission.site \in Sites
      /\ run.admission.previous \in Resources \cup {NoReservation}
      /\ run.admission.generation \in Nat
  BY CommandFields DEF Run, SiteAdmission
<1>2. \A rsv : DegradedAfter(rsv) \in BOOLEAN
  BY DEF DegradedAfter, SiteTypeOK
<1>3. CASE FinishSite(run.admission, run.ok)
  BY <1>1, <1>2, <1>3 DEF FinishSite, Unfence, siteVars, SiteTypeOK
<1>4. CASE ReleaseSite(run.cmd.site)
  BY <1>1, <1>2, <1>4 DEF ReleaseSite, NextGeneration, SiteTypeOK
<1>5. CASE FinishCommand(run.admission)
  BY <1>1, <1>5 DEF FinishCommand, Unfence, SiteTypeOK
<1>6. CASE UNCHANGED siteVars
  BY <1>6 DEF siteVars, SiteTypeOK
<1>. QED
  BY <1>3, <1>4, <1>5, <1>6 DEF finishAdmission
-----------------------------------------------------------------------------
LEMMA ExecTypeInit == Init => ExecTypeOK
<1>. SUFFICES ASSUME Init PROVE ExecTypeOK
  OBVIOUS
<1>1. SiteTypeOK
  BY DEF Init, CapacityInit, SiteTypeOK, FreshReservations, ZeroPerSite
<1>2. PoolTypeOK
  BY DEF Init, CapacityInit, PoolTypeOK, ZeroPerKind
<1>3. StoreOK
  BY DEF Init, StoreInit, NoResults, StoreOK, StoreTypeOK, StoreMirrorsFile
<1>4. ServeTypeOK
  BY ExecutorAssumption DEF Init, ServeTypeOK, NoRuns
<1>5. ProcTypeOK
  <2>1. cancelled \in BOOLEAN /\ up \in BOOLEAN
    BY DEF Init
  <2>2. restarts \in 0 .. MaxRestarts
    BY ExecutorAssumption DEF Init
  <2>. QED
    BY <2>1, <2>2 DEF ProcTypeOK
<1>6. HostTypeOK
  <2>1. drifted \in BOOLEAN
    BY DEF Init
  <2>. QED
    BY <2>1 DEF Init, HostTypeOK, FreshReservations
<1>. QED
  BY <1>1, <1>2, <1>3, <1>4, <1>5, <1>6 DEF ExecTypeOK

\* The parts an action leaves alone.
LEMMA SiteTypeKept == SiteTypeOK /\ UNCHANGED siteVars => SiteTypeOK'
BY DEF SiteTypeOK, siteVars

LEMMA PoolTypeKept == PoolTypeOK /\ UNCHANGED <<slots, inUse, freeing>> => PoolTypeOK'
BY DEF PoolTypeOK

LEMMA StoreKept == StoreOK /\ UNCHANGED storeVars => StoreOK'
BY DEF StoreOK, StoreTypeOK, StoreMirrorsFile, storeVars

LEMMA ProcTypeKept == ProcTypeOK /\ UNCHANGED procVars => ProcTypeOK'
BY DEF ProcTypeOK, procVars

LEMMA HostTypeKept == HostTypeOK /\ UNCHANGED hostVars => HostTypeOK'
BY DEF HostTypeOK, hostVars

LEMMA CapacityParts ==
    UNCHANGED capacityVars => UNCHANGED siteVars /\ UNCHANGED <<slots, inUse>>
BY DEF capacityVars, siteVars

LEMMA ExecTypeStep ==
    ASSUME ExecTypeOK, CallShape, [Next]_vars
    PROVE  ExecTypeOK'
<1>. USE DEF ExecTypeOK
<1>0. Faults \subseteq Outcomes /\ MaxRuns \in Nat
  BY ExecutorAssumption
<1>1. ASSUME NEW c \in Commands, Refuse(c) \/ Replay(c) \/ Proceed(c)
      PROVE  ExecTypeOK'
  <2>1. UNCHANGED <<capacityVars, storeVars, runs, launched, freeing, timedOut, procVars, hostVars>>
    BY <1>1 DEF Refuse, Replay, Proceed
  <2>2. SiteTypeOK' /\ PoolTypeOK' /\ StoreOK' /\ ProcTypeOK' /\ HostTypeOK'
    BY <2>1, CapacityParts, SiteTypeKept, PoolTypeKept, StoreKept, ProcTypeKept, HostTypeKept
  <2>3. CASE Refuse(c)
    BY <2>1, <2>2, <2>3 DEF Refuse, Return, ServeTypeOK, Reply, Statuses
  <2>4. CASE Replay(c)
    <3>1. results[c.key] # None => results[c.key].status \in Statuses
      BY CommandFields DEF StoreOK, StoreTypeOK, Result
    <3>. QED
      BY <2>1, <2>2, <2>4, <3>1 DEF Replay, Return, ServeTypeOK, Reply, Statuses
  <2>5. CASE Proceed(c)
    BY <1>0, <2>1, <2>2, <2>5 DEF Proceed, ServeTypeOK, Call
  <2>. QED
    BY <1>1, <2>3, <2>4, <2>5
<1>2. CASE AcquireOperation
  <2>1. SiteTypeOK' /\ StoreOK' /\ ProcTypeOK' /\ HostTypeOK'
    BY <1>2, SiteTypeKept, StoreKept, ProcTypeKept, HostTypeKept DEF AcquireOperation
  <2>2. PoolTypeOK'
    BY <1>2, BumpType DEF AcquireOperation, PoolTypeOK
  <2>3. ServeTypeOK'
    BY <1>2, CallFields DEF AcquireOperation, Serving, ServeTypeOK, Call
  <2>. QED
    BY <2>1, <2>2, <2>3
<1>3. CASE AcquireCancelled
  <2>1. SiteTypeOK' /\ PoolTypeOK' /\ StoreOK' /\ ProcTypeOK' /\ HostTypeOK'
    BY <1>3, CapacityParts, SiteTypeKept, PoolTypeKept, StoreKept, ProcTypeKept, HostTypeKept
    DEF AcquireCancelled
  <2>2. ServeTypeOK'
    BY <1>3, CallFields DEF AcquireCancelled, Serving, Return, ServeTypeOK, Reply, Statuses
  <2>. QED
    BY <2>1, <2>2
<1>4. CASE AdmissionRejected
  <2>1. SiteTypeOK' /\ StoreOK' /\ ProcTypeOK' /\ HostTypeOK'
    BY <1>4, SiteTypeKept, StoreKept, ProcTypeKept, HostTypeKept DEF AdmissionRejected
  <2>2. PoolTypeOK'
    BY <1>4, BumpType DEF AdmissionRejected, PoolTypeOK
  <2>3. ServeTypeOK'
    BY <1>4, CallFields DEF AdmissionRejected, Serving, Return, ServeTypeOK, Reply, Statuses
  <2>. QED
    BY <2>1, <2>2, <2>3
<1>5. CASE Launch
  <2>. DEFINE c == call.cmd
  <2>1. c \in Commands /\ call \in Call /\ launched < MaxRuns /\ call.phase = "slot"
    BY <1>5, CallFields DEF Launch, Serving, CallShape, Waiting
  <2>2. BeginAdmission(c)
    BY <1>5 DEF Launch
  <2>3. SiteTypeOK' /\ AdmissionFor(c.site) \in SiteAdmission
    BY <2>1, <2>2, BeginType
  <2>4. StoreOK' /\ ProcTypeOK' /\ HostTypeOK'
    BY <1>5, StoreKept, ProcTypeKept, HostTypeKept DEF Launch
  <2>5. PoolTypeOK'
    BY <1>5, PoolTypeKept DEF Launch, poolVars
  <2>6. launched + 1 \in RunIds /\ launched + 1 \in 0 .. MaxRuns
    BY <1>0, <2>1 DEF ServeTypeOK, RunIds
  <2>7. [cmd |-> c, state |-> "running", ok |-> FALSE, attached |-> TRUE,
         admission |-> AdmissionFor(c.site)] \in Run
    BY <2>1, <2>3 DEF Run
  <2>8. runs' \in [RunIds -> Run \cup {NoRun}]
    BY <1>5, <2>7 DEF Launch, ServeTypeOK
  <2>9. call' \in Call
    BY <1>5, <2>1, <2>6 DEF Launch, Call
  <2>10. ServeTypeOK'
    BY <1>5, <2>6, <2>8, <2>9 DEF Launch, ServeTypeOK
  <2>. QED
    BY <2>3, <2>4, <2>5, <2>10
<1>6. ASSUME NEW e \in RunIds, RunSucceeds(e)
      PROVE  ExecTypeOK'
  <2>. DEFINE c == runs[e].cmd
  <2>1. runs[e] \in Run /\ c \in Commands /\ c.key \in Keys /\ c.site \in Sites /\ c.need \in Resources
    BY <1>6, RunFields, CommandFields DEF RunSucceeds
  <2>2. SiteTypeOK' /\ PoolTypeOK' /\ StoreOK' /\ ProcTypeOK'
    BY <1>6, CapacityParts, SiteTypeKept, PoolTypeKept, StoreKept, ProcTypeKept DEF RunSucceeds
  <2>3. runs' \in [RunIds -> Run \cup {NoRun}]
    BY <1>6, <2>1 DEF RunSucceeds, ServeTypeOK, Run
  <2>4. ServeTypeOK'
    BY <1>6, <2>3 DEF RunSucceeds, ServeTypeOK
  <2>5. HostAfter(c) \in [Sites -> Resources \cup {NoReservation}]
    BY <2>1 DEF HostAfter, HostTypeOK
  <2>6. HostTypeOK'
    BY <1>6, <2>1, <2>5 DEF RunSucceeds, HostTypeOK
  <2>. QED
    BY <2>2, <2>4, <2>6
<1>7. ASSUME NEW e \in RunIds, RunFails(e)
      PROVE  ExecTypeOK'
  <2>1. runs[e] \in Run
    BY <1>7, RunFields DEF RunFails
  <2>2. SiteTypeOK' /\ PoolTypeOK' /\ StoreOK' /\ ProcTypeOK' /\ HostTypeOK'
    BY <1>7, CapacityParts, SiteTypeKept, PoolTypeKept, StoreKept, ProcTypeKept, HostTypeKept
    DEF RunFails
  <2>3. runs' \in [RunIds -> Run \cup {NoRun}]
    BY <1>7, <2>1 DEF RunFails, ServeTypeOK, Run
  <2>4. ServeTypeOK'
    BY <1>7, <2>3 DEF RunFails, ServeTypeOK
  <2>. QED
    BY <2>2, <2>4
<1>8. ASSUME NEW e \in RunIds, ResetSites(e)
      PROVE  ExecTypeOK'
  <2>1. runs[e] \in Run
    BY <1>8, RunFields DEF ResetSites
  <2>2. SiteTypeOK' /\ PoolTypeOK' /\ StoreOK' /\ ProcTypeOK'
    BY <1>8, CapacityParts, SiteTypeKept, PoolTypeKept, StoreKept, ProcTypeKept DEF ResetSites
  <2>3. runs' \in [RunIds -> Run \cup {NoRun}]
    BY <1>8, <2>1 DEF ResetSites, ServeTypeOK, Run
  <2>4. ServeTypeOK'
    BY <1>8, <2>3 DEF ResetSites, ServeTypeOK
  <2>5. drifted' \in BOOLEAN
    BY <1>8 DEF ResetSites
  <2>6. HostTypeOK'
    BY <1>8, <2>5 DEF ResetSites, HostTypeOK, FreshReservations
  <2>. QED
    BY <2>2, <2>4, <2>6
<1>9. ASSUME NEW e \in RunIds, NEW o \in Faults, ResetResults(e, o)
      PROVE  ExecTypeOK'
  <2>1. runs[e] \in Run /\ runs[e].cmd.key \in Keys
    BY <1>9, RunFields, CommandFields DEF ResetResults
  <2>2. SiteTypeOK' /\ PoolTypeOK' /\ ProcTypeOK'
    BY <1>9, CapacityParts, SiteTypeKept, PoolTypeKept, ProcTypeKept DEF ResetResults
  <2>3. StoreOK'
    BY <1>0, <1>9, ResetKeeps DEF ResetResults, StoreOK
  <2>4. runs' \in [RunIds -> Run \cup {NoRun}]
    BY <1>9, <2>1 DEF ResetResults, ServeTypeOK, Run
  <2>5. ServeTypeOK'
    BY <1>9, <2>4 DEF ResetResults, ServeTypeOK
  <2>6. HostTypeOK'
    BY <1>9, <2>1 DEF ResetResults, HostTypeOK
  <2>. QED
    BY <2>2, <2>3, <2>5, <2>6
<1>10. ASSUME NEW o \in Faults, CommandSettles(o)
       PROVE  ExecTypeOK'
  <2>. DEFINE e == call.run
              c == call.cmd
  <2>1. /\ c \in Commands /\ c.key \in Keys /\ e \in RunIds /\ runs[e] \in Run
        /\ runs[e].ok \in BOOLEAN
    BY <1>10, CallFields, CommandFields, RunFields DEF CommandSettles, Serving, CallShape, Live
  <2>2. StoreOK'
    <3>1. CASE Save(c.key, ResultOf(c), o)
      BY <1>0, <2>1, <3>1, ExecutorResults, SaveKeeps DEF StoreOK
    <3>2. CASE UNCHANGED storeVars
      BY <3>2, StoreKept
    <3>. QED
      BY <1>10, <3>1, <3>2 DEF CommandSettles
  <2>3. SiteTypeOK'
    BY <1>10, <2>1, FinishType DEF CommandSettles
  <2>4. PoolTypeOK'
    BY <1>10, BumpType DEF CommandSettles, PoolTypeOK
  <2>5. ProcTypeOK'
    BY <1>10, ProcTypeKept DEF CommandSettles
  <2>6. HostTypeOK'
    BY <1>10, <2>1 DEF CommandSettles, HostTypeOK
  <2>7. call' = Idle /\ reply' \in Reply
    <3>1. \E st \in Statuses : Return(c, st)
      BY <1>10 DEF CommandSettles, Statuses
    <3>. QED
      BY <2>1, <3>1 DEF Return, Reply
  <2>8. ServeTypeOK'
    BY <1>10, <2>7 DEF CommandSettles, ServeTypeOK
  <2>. QED
    BY <2>2, <2>3, <2>4, <2>5, <2>6, <2>8
<1>11. ASSUME NEW o \in Faults, CommandTimesOut(o)
       PROVE  ExecTypeOK'
  <2>. DEFINE e == call.run
              c == call.cmd
  <2>1. c \in Commands /\ c.key \in Keys /\ e \in RunIds /\ runs[e] \in Run
    BY <1>11, CallFields, CommandFields, RunFields DEF CommandTimesOut, Serving, CallShape, Live
  <2>2. StoreOK'
    BY <1>0, <1>11, <2>1, ExecutorResults, SaveKeeps DEF CommandTimesOut, StoreOK
  <2>3. SiteTypeOK' /\ PoolTypeOK' /\ ProcTypeOK' /\ HostTypeOK'
    BY <1>11, CapacityParts, SiteTypeKept, PoolTypeKept, ProcTypeKept, HostTypeKept
    DEF CommandTimesOut
  <2>4. runs' \in [RunIds -> Run \cup {NoRun}]
    BY <1>11, <2>1 DEF CommandTimesOut, ServeTypeOK, Run
  <2>5. ServeTypeOK'
    BY <1>11, <2>1, <2>4 DEF CommandTimesOut, Return, ServeTypeOK, Reply, Statuses
  <2>. QED
    BY <2>2, <2>3, <2>5
<1>12. CASE CommandCancelled
  <2>1. call.cmd \in Commands /\ call.run \in RunIds /\ runs[call.run] \in Run
    BY <1>12, CallFields, RunFields DEF CommandCancelled, Serving, CallShape, Live
  <2>2. SiteTypeOK' /\ PoolTypeOK' /\ StoreOK' /\ ProcTypeOK' /\ HostTypeOK'
    BY <1>12, CapacityParts, SiteTypeKept, PoolTypeKept, StoreKept, ProcTypeKept, HostTypeKept
    DEF CommandCancelled
  <2>3. runs' \in [RunIds -> Run \cup {NoRun}]
    BY <1>12, <2>1 DEF CommandCancelled, ServeTypeOK, Run
  <2>4. ServeTypeOK'
    BY <1>12, <2>1, <2>3 DEF CommandCancelled, Return, ServeTypeOK, Reply, Statuses
  <2>. QED
    BY <2>2, <2>4
<1>13. ASSUME NEW e \in RunIds, LateCompletion(e)
       PROVE  ExecTypeOK'
  <2>1. runs[e] \in Run
    BY <1>13, RunFields DEF LateCompletion
  <2>2. SiteTypeOK'
    BY <1>13, <2>1, FinishType DEF LateCompletion
  <2>3. StoreOK' /\ ProcTypeOK' /\ HostTypeOK'
    BY <1>13, StoreKept, ProcTypeKept, HostTypeKept DEF LateCompletion
  <2>4. PoolTypeOK'
    <3>1. Bump(freeing, runs[e].cmd.kind, 1) \in [Kinds -> Nat]
      BY DEF Bump, Pooled, PoolTypeOK
    <3>. QED
      BY <1>13, <3>1, BumpType DEF LateCompletion, PoolTypeOK
  <2>5. ServeTypeOK'
    BY <1>13 DEF LateCompletion, ServeTypeOK
  <2>. QED
    BY <2>2, <2>3, <2>4, <2>5
<1>14. ASSUME NEW k \in Kinds, LateCount(k)
       PROVE  ExecTypeOK'
  <2>1. SiteTypeOK' /\ StoreOK' /\ ProcTypeOK' /\ HostTypeOK'
    BY <1>14, SiteTypeKept, StoreKept, ProcTypeKept, HostTypeKept DEF LateCount
  <2>2. PoolTypeOK' /\ ServeTypeOK'
    BY <1>14 DEF LateCount, PoolTypeOK, ServeTypeOK
  <2>. QED
    BY <2>1, <2>2
<1>15. CASE Shutdown
  <2>1. SiteTypeOK' /\ PoolTypeOK' /\ StoreOK' /\ HostTypeOK'
    BY <1>15, CapacityParts, SiteTypeKept, PoolTypeKept, StoreKept, HostTypeKept DEF Shutdown
  <2>2. ServeTypeOK'
    BY <1>15 DEF Shutdown, ServeTypeOK
  <2>3. cancelled' \in BOOLEAN
    BY <1>15 DEF Shutdown
  <2>4. ProcTypeOK'
    BY <1>15, <2>3 DEF Shutdown, ProcTypeOK
  <2>. QED
    BY <2>1, <2>2, <2>4
<1>16. CASE Restart
  <2>1. degraded' \in BOOLEAN /\ cancelled' \in BOOLEAN /\ drifted' \in BOOLEAN
    BY <1>16 DEF Restart
  <2>2. up' \in BOOLEAN
    BY <1>16 DEF Restart, StoreOpens, WithinLimits
  <2>3. SiteTypeOK'
    BY <1>16, <2>1 DEF Restart, SiteTypeOK, FreshReservations, ZeroPerSite
  <2>4. PoolTypeOK'
    BY <1>16 DEF Restart, PoolTypeOK, ZeroPerKind
  <2>5. StoreOK'
    BY <1>16 DEF Restart, StoreOK, StoreTypeOK, StoreMirrorsFile
  <2>6. ServeTypeOK'
    BY <1>16 DEF Restart, ServeTypeOK, NoRuns
  <2>7. restarts' \in 0 .. MaxRestarts
    BY <1>16, ExecutorAssumption DEF Restart, ProcTypeOK
  <2>8. ProcTypeOK'
    BY <2>1, <2>2, <2>7 DEF ProcTypeOK
  <2>9. HostTypeOK'
    BY <1>16, <2>1 DEF Restart, HostTypeOK
  <2>. QED
    BY <2>3, <2>4, <2>5, <2>6, <2>8, <2>9
<1>17. CASE UNCHANGED vars
  <2>1. /\ UNCHANGED <<capacityVars, storeVars, procVars, hostVars>>
        /\ UNCHANGED <<call, reply, runs, launched, freeing, timedOut>>
    BY <1>17 DEF vars
  <2>2. SiteTypeOK' /\ PoolTypeOK' /\ StoreOK' /\ ProcTypeOK' /\ HostTypeOK'
    BY <2>1, CapacityParts, SiteTypeKept, PoolTypeKept, StoreKept, ProcTypeKept, HostTypeKept
  <2>3. ServeTypeOK'
    BY <2>1 DEF ServeTypeOK
  <2>. QED
    BY <2>2, <2>3
<1>. QED
  BY <1>1, <1>2, <1>3, <1>4, <1>5, <1>6, <1>7, <1>8, <1>9, <1>10, <1>11, <1>12,
     <1>13, <1>14, <1>15, <1>16, <1>17
  DEF Next, CallStep, RunStep
-----------------------------------------------------------------------------
LEMMA ShapeInit == Init => ShapeInv
BY DEF Init, NoRuns, ShapeInv, CallShape, LateBarred, NoOverlappingCopies, Waiting, Live, RunIds

\* Runs keep their commands and attachments, and nothing else moves: the four
\* steps of a provisioner.
LEMMA ShapeRunMoves ==
    ASSUME ExecTypeOK, ShapeInv, NEW e \in Live, NEW st, NEW res,
           runs' = [runs EXCEPT ![e].state = st, ![e].ok = res], runs'[e] # NoRun,
           UNCHANGED <<call, launched, timedOut, cancelled>>,
           \A k \in Keys : commandsFile'[k] \in {None, commandsFile[k]}
    PROVE  ShapeInv'
<1>. USE DEF ShapeInv
<1>1. runs[e] \in Run /\ e \in RunIds
  BY RunFields DEF Live
<1>2. Live' = Live
  BY <1>1 DEF Live, ExecTypeOK, ServeTypeOK
<1>3. \A f \in Live : runs'[f].cmd = runs[f].cmd /\ runs'[f].attached = runs[f].attached
  BY <1>1 DEF Live, ExecTypeOK, ServeTypeOK, Run
<1>4. call # Idle => call.cmd.key \in Keys
  BY CallFields, CommandFields
<1>5. CallShape'
  <2>1. /\ Waiting' => Waiting /\ call.cmd.key \in Keys
        /\ call' = call /\ launched' = launched /\ timedOut' = timedOut
    BY <1>4 DEF Waiting
  <2>2. Waiting' =>
            /\ launched' < MaxRuns
            /\ call'.cmd.key \notin timedOut'
            /\ Cached(call'.cmd) => commandsFile'[call'.cmd.key] = None
            /\ commandsFile'[call'.cmd.key] # None => ~commandsFile'[call'.cmd.key].timedOut
    BY <2>1 DEF CallShape, Cached
  <2>3. call' # Idle /\ call'.phase = "run" =>
            /\ call'.run \in Live'
            /\ runs'[call'.run].attached
            /\ runs'[call'.run].cmd = call'.cmd
    <3>1. call # Idle /\ call.phase = "run" =>
              /\ call.run \in Live
              /\ runs[call.run].attached
              /\ runs[call.run].cmd = call.cmd
      BY DEF CallShape
    <3>. QED
      BY <1>2, <1>3, <2>1, <3>1, ZenonT(40)
  <2>4. \A f \in Live' :
            /\ f <= launched'
            /\ runs'[f].attached => call' # Idle /\ call'.phase = "run" /\ call'.run = f
    <3>1. \A f \in Live :
              /\ f <= launched
              /\ runs[f].attached => call # Idle /\ call.phase = "run" /\ call.run = f
      BY DEF CallShape
    <3>. QED
      BY <1>2, <1>3, <2>1, <3>1, ZenonT(40)
  <2>. QED
    BY <2>2, <2>3, <2>4, Zenon DEF CallShape
<1>6. LateBarred'
  <2>. SUFFICES ASSUME NEW f \in Live
                PROVE  runs'[f].attached \/ runs'[f].cmd.key \in timedOut' \/ (cancelled' /\ call' = Idle)
    BY <1>2, Zenon DEF LateBarred
  <2>1. runs[f].attached \/ runs[f].cmd.key \in timedOut \/ (cancelled /\ call = Idle)
    BY Zenon DEF LateBarred
  <2>2. runs'[f].cmd = runs[f].cmd /\ runs'[f].attached = runs[f].attached
    BY <1>3
  <2>3. timedOut' = timedOut /\ cancelled' = cancelled /\ call' = call
    OBVIOUS
  <2>4. runs[f].attached => runs'[f].attached
    BY <2>2, Zenon
  <2>5. runs[f].cmd.key \in timedOut => runs'[f].cmd.key \in timedOut'
    BY <2>2, <2>3
  <2>6. cancelled /\ call = Idle => cancelled' /\ call' = Idle
    BY <2>3
  <2>. QED
    BY <2>1, <2>4, <2>5, <2>6, Zenon
<1>7. NoOverlappingCopies'
  BY <1>2, <1>3 DEF NoOverlappingCopies
<1>. QED
  BY <1>5, <1>6, <1>7

\* Run e is gone, and the call that waited for it, if any, has returned.
LEMMA ShapeRunEnds ==
    ASSUME ExecTypeOK, ShapeInv, NEW e \in Live,
           runs' = [runs EXCEPT ![e] = NoRun], UNCHANGED <<launched, timedOut, cancelled>>,
           \/ ~runs[e].attached /\ UNCHANGED <<call, commandsFile>>
           \/ runs[e].attached /\ call' = Idle
    PROVE  ShapeInv'
<1>. USE DEF ShapeInv
<1>1. e \in RunIds /\ Live' = Live \ {e} /\ \A f \in Live' : runs'[f] = runs[f]
  BY DEF Live, ExecTypeOK, ServeTypeOK
<1>2. CallShape'
  BY <1>1 DEF CallShape, Waiting
<1>3. LateBarred' /\ NoOverlappingCopies'
  BY <1>1 DEF CallShape, LateBarred, NoOverlappingCopies
<1>. QED
  BY <1>2, <1>3

\* The call leaves run e to itself.
LEMMA ShapeDetaches ==
    ASSUME ExecTypeOK, ShapeInv, call # Idle, call.phase = "run",
           runs' = [runs EXCEPT ![call.run].attached = FALSE],
           call' = Idle, UNCHANGED <<launched, cancelled>>,
           \/ timedOut' = timedOut \cup {call.cmd.key}
           \/ timedOut' = timedOut /\ cancelled
    PROVE  ShapeInv'
<1>. USE DEF ShapeInv
<1>. DEFINE e == call.run
<1>1. e \in Live /\ e \in RunIds /\ runs[e] \in Run /\ runs[e].cmd = call.cmd
  BY RunFields DEF CallShape, Live
<1>2. runs'[e] \in Run
  BY <1>1 DEF ExecTypeOK, ServeTypeOK, Run
<1>4. Live' = Live
  BY <1>1, <1>2, NoRunIsNoRun DEF Live, ExecTypeOK, ServeTypeOK
<1>5. /\ \A f \in Live : runs'[f].cmd = runs[f].cmd
      /\ \A f \in Live : f # e => runs'[f] = runs[f]
      /\ ~runs'[e].attached
  BY <1>1 DEF Live, ExecTypeOK, ServeTypeOK, Run
<1>6. CallShape'
  BY <1>1, <1>4, <1>5 DEF CallShape, Waiting
<1>7. LateBarred'
  <2>. SUFFICES ASSUME NEW f \in Live
                PROVE  \/ runs'[f].cmd.key \in timedOut'
                       \/ cancelled' /\ call' = Idle
    BY <1>4 DEF LateBarred
  <2>1. CASE f = e
    BY <1>1, <1>5, <2>1
  <2>2. CASE f # e
    BY <1>5, <2>2 DEF LateBarred, CallShape
  <2>. QED
    BY <2>1, <2>2
<1>8. NoOverlappingCopies'
  BY <1>4, <1>5 DEF NoOverlappingCopies
<1>. QED
  BY <1>6, <1>7, <1>8

\* The one step that makes an execution.
LEMMA LaunchRuns ==
    ASSUME ExecTypeOK, CallShape, Launch
    PROVE  /\ call # Idle /\ call.phase = "slot" /\ call.cmd \in Commands
           /\ launched + 1 \in RunIds /\ launched + 1 \notin Live
           /\ Live' = Live \cup {launched + 1}
           /\ \A f \in Live : runs'[f] = runs[f]
           /\ runs'[launched + 1].cmd = call.cmd
           /\ runs'[launched + 1].admission = AdmissionFor(call.cmd.site)
           /\ runs'[launched + 1].attached
           /\ call' # Idle /\ call'.phase = "run"
           /\ call'.run = launched + 1 /\ call'.cmd = call.cmd
<1>. DEFINE c == call.cmd
            e == launched + 1
            new == [cmd |-> c, state |-> "running", ok |-> FALSE, attached |-> TRUE,
                    admission |-> AdmissionFor(c.site)]
<1>1. call # Idle /\ call \in Call /\ c \in Commands /\ call.phase = "slot" /\ launched < MaxRuns
  BY CallFields DEF Launch, Serving, CallShape, Waiting
<1>2. e \in RunIds /\ e \notin Live
  BY <1>1, ExecutorAssumption DEF ExecTypeOK, ServeTypeOK, RunIds, CallShape
<1>3. runs' = [runs EXCEPT ![e] = new]
  BY DEF Launch
<1>4. runs'[e] = new /\ \A f \in RunIds : f # e => runs'[f] = runs[f]
  BY <1>2, <1>3 DEF ExecTypeOK, ServeTypeOK
<1>5. new # NoRun
  <2>1. AdmissionFor(c.site) \in SiteAdmission
    BY <1>1, BeginType DEF Launch, ExecTypeOK
  <2>2. new \in Run
    BY <1>1, <2>1 DEF Run
  <2>. QED
    BY <2>2, NoRunIsNoRun
<1>6. Live' = Live \cup {e}
  BY <1>2, <1>4, <1>5 DEF Live
<1>7. \A f \in Live : runs'[f] = runs[f]
  BY <1>2, <1>4 DEF Live
<1>8. call' = [call EXCEPT !.phase = "run", !.run = e]
  BY DEF Launch
<1>9. call' \in Call /\ call'.phase = "run" /\ call'.run = e /\ call'.cmd = c
  <2>1. e \in 0 .. MaxRuns
    BY <1>2, ExecutorAssumption DEF RunIds
  <2>. QED
    BY <1>1, <1>8, <2>1 DEF Call
<1>. QED
  BY <1>1, <1>2, <1>4, <1>6, <1>7, <1>9, CallFields

LEMMA ShapeLaunch ==
    ASSUME ExecTypeOK, ShapeInv, Launch
    PROVE  ShapeInv'
<1>. USE DEF ShapeInv
<1>. DEFINE e == launched + 1
<1>1. /\ call # Idle /\ call.phase = "slot"
      /\ e \in RunIds /\ e \notin Live /\ Live' = Live \cup {e}
      /\ \A f \in Live : runs'[f] = runs[f]
      /\ runs'[e].cmd = call.cmd
      /\ call' # Idle /\ call'.phase = "run" /\ call'.run = e /\ call'.cmd = call.cmd
      /\ runs'[e].attached
  BY LaunchRuns
<1>2. call.cmd.key \notin timedOut /\ \A f \in Live : ~runs[f].attached /\ runs[f].cmd.key \in timedOut
  BY <1>1 DEF CallShape, Waiting, LateBarred
<1>3. launched' = e /\ UNCHANGED timedOut
  BY DEF Launch
<1>4. CallShape'
  <2>1. ~Waiting'
    BY <1>1 DEF Waiting
  <2>2. \A f \in Live' : f <= launched' /\ (runs'[f].attached => f = e)
    <3>. SUFFICES ASSUME NEW f \in Live' PROVE f <= launched' /\ (runs'[f].attached => f = e)
      OBVIOUS
    <3>1. CASE f = e
      BY <1>1, <1>3, <3>1 DEF RunIds
    <3>2. CASE f # e
      <4>1. f \in Live /\ f \in RunIds /\ launched \in Nat
        BY <1>1, <3>2, ExecutorAssumption DEF Live, ExecTypeOK, ServeTypeOK
      <4>. QED
        BY <1>1, <1>2, <1>3, <3>2, <4>1 DEF CallShape, RunIds
    <3>. QED
      BY <3>1, <3>2
  <2>. QED
    BY <1>1, <2>1, <2>2 DEF CallShape
<1>5. LateBarred'
  BY <1>1, <1>2, <1>3 DEF LateBarred
<1>6. NoOverlappingCopies'
  BY <1>1, <1>2 DEF NoOverlappingCopies
<1>. QED
  BY <1>4, <1>5, <1>6

\* Nothing alive changes and the call returns without having launched.
LEMMA ShapeReturns ==
    ASSUME ShapeInv, call' = Idle, UNCHANGED <<runs, launched, timedOut, cancelled>>,
           call = Idle \/ call.phase # "run"
    PROVE  ShapeInv'
<1>1. Live' = Live
  BY DEF Live
<1>2. CallShape'
  BY <1>1 DEF ShapeInv, CallShape, Waiting
<1>3. LateBarred'
  BY <1>1 DEF ShapeInv, LateBarred, CallShape
<1>4. NoOverlappingCopies'
  BY <1>1 DEF ShapeInv, NoOverlappingCopies
<1>. QED
  BY <1>2, <1>3, <1>4 DEF ShapeInv

LEMMA ShapeKept ==
    ASSUME ShapeInv, UNCHANGED <<call, runs, launched, timedOut, cancelled, commandsFile>>
    PROVE  ShapeInv'
BY DEF ShapeInv, CallShape, LateBarred, NoOverlappingCopies, Waiting, Live

LEMMA ShapeStep ==
    ASSUME ExecTypeOK, ShapeInv, [Next]_vars
    PROVE  ShapeInv'
<1>1. ASSUME NEW c \in Commands, Refuse(c) \/ Replay(c)
      PROVE  ShapeInv'
  BY <1>1, ShapeReturns DEF Refuse, Replay, Arrives, Return, procVars
<1>2. ASSUME NEW c \in Commands, Proceed(c)
      PROVE  ShapeInv'
  <2>1. /\ call = Idle /\ ~cancelled /\ launched < MaxRuns /\ ~TerminalTimeout(c)
        /\ Cached(c) => results[c.key] = None
        /\ call' = [cmd |-> c, phase |-> "admit", run |-> 0]
        /\ UNCHANGED <<runs, launched, timedOut, cancelled, commandsFile>>
    BY <1>2 DEF Proceed, Arrives, storeVars, procVars
  <2>2. /\ call'.cmd = c /\ call'.phase = "admit" /\ Live' = Live
    BY <2>1 DEF Live
  <2>3. commandsFile = results
    BY DEF ExecTypeOK, StoreOK, StoreMirrorsFile
  <2>4. CallShape'
    BY <2>1, <2>2, <2>3 DEF ShapeInv, CallShape, Waiting, TerminalTimeout, Cached
  <2>5. LateBarred'
    BY <2>1, <2>2 DEF ShapeInv, LateBarred
  <2>6. NoOverlappingCopies'
    BY <2>1, <2>2 DEF ShapeInv, NoOverlappingCopies
  <2>. QED
    BY <2>4, <2>5, <2>6 DEF ShapeInv
<1>3. CASE AcquireOperation
  <2>1. /\ call # Idle /\ call.phase = "admit" /\ call \in Call
        /\ call' = [call EXCEPT !.phase = "slot"]
        /\ UNCHANGED <<runs, launched, timedOut, cancelled, commandsFile>>
    BY <1>3, CallFields DEF AcquireOperation, Serving, storeVars, procVars
  <2>2. call'.cmd = call.cmd /\ call'.phase = "slot" /\ Live' = Live
    BY <2>1 DEF Call, Live
  <2>3. CallShape'
    BY <2>1, <2>2 DEF ShapeInv, CallShape, Waiting, Cached
  <2>4. LateBarred'
    BY <2>1, <2>2 DEF ShapeInv, LateBarred
  <2>5. NoOverlappingCopies'
    BY <2>1, <2>2 DEF ShapeInv, NoOverlappingCopies
  <2>. QED
    BY <2>3, <2>4, <2>5 DEF ShapeInv
<1>4. CASE AcquireCancelled \/ AdmissionRejected
  BY <1>4, ShapeReturns DEF AcquireCancelled, AdmissionRejected, Serving, Return, procVars
<1>5. CASE Launch
  BY <1>5, ShapeLaunch
<1>6. ASSUME NEW e \in RunIds, RunSucceeds(e)
      PROVE  ShapeInv'
  <2>1. e \in Live /\ runs[e] \in Run
    BY <1>6, RunFields DEF RunSucceeds
  <2>2. /\ runs' = [runs EXCEPT ![e].state = "done", ![e].ok = TRUE]
        /\ UNCHANGED <<call, launched, timedOut, cancelled, commandsFile>>
    BY <1>6 DEF RunSucceeds, storeVars, procVars
  <2>3. runs'[e] # NoRun
    BY <2>1, <2>2, NoRunIsNoRun DEF Run, ExecTypeOK, ServeTypeOK
  <2>. QED
    BY <2>1, <2>2, <2>3, ShapeRunMoves
<1>7. ASSUME NEW e \in RunIds, RunFails(e)
      PROVE  ShapeInv'
  <2>1. e \in Live /\ runs[e] \in Run
    BY <1>7, RunFields DEF RunFails
  <2>2. UNCHANGED <<call, launched, timedOut, cancelled, commandsFile>>
    BY <1>7 DEF RunFails, storeVars, procVars
  <2>3. runs' = [runs EXCEPT ![e].state = "done", ![e].ok = runs[e].ok]
    BY <1>7, <2>1 DEF RunFails, ExecTypeOK, ServeTypeOK, Run
  <2>4. runs'[e] # NoRun
    BY <2>1, <2>3, NoRunIsNoRun DEF Run, ExecTypeOK, ServeTypeOK
  <2>. QED
    BY <2>1, <2>2, <2>3, <2>4, ShapeRunMoves
<1>8. ASSUME NEW e \in RunIds, ResetSites(e)
      PROVE  ShapeInv'
  <2>1. e \in Live /\ runs[e] \in Run
    BY <1>8, RunFields DEF ResetSites
  <2>2. UNCHANGED <<call, launched, timedOut, cancelled, commandsFile>>
    BY <1>8 DEF ResetSites, storeVars, procVars
  <2>3. runs' = [runs EXCEPT ![e].state = "wiped", ![e].ok = runs[e].ok]
    BY <1>8, <2>1 DEF ResetSites, ExecTypeOK, ServeTypeOK, Run
  <2>4. runs'[e] # NoRun
    BY <2>1, <2>3, NoRunIsNoRun DEF Run, ExecTypeOK, ServeTypeOK
  <2>. QED
    BY <2>1, <2>2, <2>3, <2>4, ShapeRunMoves
<1>9. ASSUME NEW e \in RunIds, NEW o \in Faults, ResetResults(e, o)
      PROVE  ShapeInv'
  <2>1. e \in Live /\ runs[e] \in Run
    BY <1>9, RunFields DEF ResetResults
  <2>2. /\ runs' = [runs EXCEPT ![e].state = "done", ![e].ok = TRUE]
        /\ UNCHANGED <<call, launched, timedOut, cancelled>>
    BY <1>9 DEF ResetResults, procVars
  <2>3. \A k \in Keys : commandsFile'[k] \in {None, commandsFile[k]}
    BY <1>9, ExecutorAssumption, ResetKeeps DEF ResetResults, ExecTypeOK, StoreOK
  <2>4. runs'[e] # NoRun
    BY <2>1, <2>2, NoRunIsNoRun DEF Run, ExecTypeOK, ServeTypeOK
  <2>. QED
    BY <2>1, <2>2, <2>3, <2>4, ShapeRunMoves
<1>10. ASSUME NEW o \in Faults, CommandSettles(o)
       PROVE  ShapeInv'
  <2>1. call # Idle /\ call.phase = "run"
    BY <1>10 DEF CommandSettles, Serving
  <2>2. call.run \in Live /\ runs[call.run].attached
    BY <2>1 DEF ShapeInv, CallShape
  <2>3. /\ runs' = [runs EXCEPT ![call.run] = NoRun] /\ call' = Idle
        /\ UNCHANGED <<launched, timedOut, cancelled>>
    BY <1>10 DEF CommandSettles, Return, procVars
  <2>. QED
    BY <2>2, <2>3, ShapeRunEnds
<1>11. ASSUME NEW o \in Faults, CommandTimesOut(o)
       PROVE  ShapeInv'
  <2>1. /\ call # Idle /\ call.phase = "run" /\ call' = Idle
        /\ timedOut' = timedOut \cup {call.cmd.key}
        /\ runs' = [runs EXCEPT ![call.run].attached = FALSE]
        /\ UNCHANGED <<launched, cancelled>>
    BY <1>11 DEF CommandTimesOut, Serving, Return, procVars
  <2>. QED
    BY <2>1, ShapeDetaches
<1>12. CASE CommandCancelled
  <2>1. /\ call # Idle /\ call.phase = "run" /\ call' = Idle /\ cancelled
        /\ runs' = [runs EXCEPT ![call.run].attached = FALSE]
        /\ UNCHANGED <<launched, cancelled, timedOut>>
    BY <1>12 DEF CommandCancelled, Serving, Return, procVars
  <2>. QED
    BY <2>1, ShapeDetaches
<1>13. ASSUME NEW e \in RunIds, LateCompletion(e)
       PROVE  ShapeInv'
  <2>1. /\ e \in Live /\ ~runs[e].attached
        /\ runs' = [runs EXCEPT ![e] = NoRun]
        /\ UNCHANGED <<launched, timedOut, cancelled, call, commandsFile>>
    BY <1>13 DEF LateCompletion, storeVars, procVars
  <2>. QED
    BY <2>1, ShapeRunEnds
<1>14. ASSUME NEW k \in Kinds, LateCount(k)
       PROVE  ShapeInv'
  BY <1>14, ShapeKept DEF LateCount, storeVars, procVars
<1>15. CASE Shutdown
  <2>1. /\ UNCHANGED <<call, runs, launched, timedOut, commandsFile>>
        /\ ~cancelled
    BY <1>15 DEF Shutdown, storeVars
  <2>2. Live' = Live
    BY <2>1 DEF Live
  <2>3. CallShape'
    BY <2>1, <2>2 DEF ShapeInv, CallShape, Waiting
  <2>4. LateBarred'
    BY <2>1, <2>2 DEF ShapeInv, LateBarred
  <2>5. NoOverlappingCopies'
    BY <2>1, <2>2 DEF ShapeInv, NoOverlappingCopies
  <2>. QED
    BY <2>3, <2>4, <2>5 DEF ShapeInv
<1>16. CASE Restart
  <2>1. call' = Idle /\ Live' = {}
    BY <1>16 DEF Restart, NoRuns, Live
  <2>. QED
    BY <2>1 DEF ShapeInv, CallShape, LateBarred, NoOverlappingCopies, Waiting
<1>17. CASE UNCHANGED vars
  BY <1>17, ShapeKept DEF vars, storeVars, procVars
<1>. QED
  BY <1>1, <1>2, <1>3, <1>4, <1>5, <1>6, <1>7, <1>8, <1>9, <1>10, <1>11, <1>12,
     <1>13, <1>14, <1>15, <1>16, <1>17
  DEF Next, CallStep, RunStep
-----------------------------------------------------------------------------
LEMMA FenceInit == Init => FenceInv
<1>. SUFFICES ASSUME Init PROVE FenceInv
  OBVIOUS
<1>1. Live = {}
  BY DEF Init, NoRuns, Live
<1>2. \A s \in Sites : siteFences[s] = 0 /\ generations[s] = 0
  BY DEF Init, CapacityInit, ZeroPerSite
<1>. QED
  BY <1>1, <1>2 DEF FenceInv, FenceHeld, OneMutatorPerSite, CurrentFenceOwned

\* Sites and executions keep what the fences are about.
LEMMA FenceKept ==
    ASSUME FenceInv, UNCHANGED siteVars, Live' = Live,
           \A e \in Live : /\ runs'[e].cmd = runs[e].cmd
                           /\ runs'[e].admission = runs[e].admission
    PROVE  FenceInv'
<1>. UNCHANGED <<siteFences, generations>>
  BY DEF siteVars
<1>1. FenceHeld'
  BY DEF FenceInv, FenceHeld, Fenced
<1>2. OneMutatorPerSite'
  BY DEF FenceInv, OneMutatorPerSite, Fenced
<1>3. CurrentFenceOwned'
  BY DEF FenceInv, CurrentFenceOwned, HasMutator, Fenced
<1>. QED
  BY <1>1, <1>2, <1>3 DEF FenceInv

\* A new execution e of command c.
LEMMA FenceStarts ==
    ASSUME ExecTypeOK, FenceInv, NEW c \in Commands, NEW e \in RunIds, e \notin Live,
           BeginAdmission(c), Live' = Live \cup {e},
           \A f \in Live : runs'[f] = runs[f],
           runs'[e].cmd = c, runs'[e].admission = AdmissionFor(c.site)
    PROVE  FenceInv'
<1>. DEFINE s == c.site
<1>0. s \in Sites /\ siteFences \in [Sites -> Nat] /\ generations \in [Sites -> Nat]
  BY CommandFields DEF ExecTypeOK, SiteTypeOK
<1>1. CASE Fenced(c)
  <2>1. /\ siteFences[s] = 0
        /\ generations' = [generations EXCEPT ![s] = generations[s] + 1]
        /\ siteFences' = [siteFences EXCEPT ![s] = generations[s] + 1]
    BY <1>1 DEF BeginAdmission, BeginSite, BeginCommand, Unfenced, Fence, NextGeneration
  <2>2. /\ siteFences'[s] = generations[s] + 1 /\ generations'[s] = generations[s] + 1
        /\ \A t \in Sites : t # s => siteFences'[t] = siteFences[t] /\ generations'[t] = generations[t]
    BY <1>0, <2>1
  <2>3. \A f \in Live : Fenced(runs[f].cmd) => runs[f].cmd.site # s
    <3>. SUFFICES ASSUME NEW f \in Live, Fenced(runs[f].cmd), runs[f].cmd.site = s
                  PROVE  FALSE
      OBVIOUS
    <3>1. siteFences[s] = generations[s] /\ generations[s] > 0
      BY DEF FenceInv, FenceHeld
    <3>. QED
      BY <1>0, <2>1, <3>1
  <2>4. \A f \in Live : runs[f].cmd.site \in Sites
    BY RunFields, CommandFields DEF Live
  <2>5. FenceHeld'
    <3>. SUFFICES ASSUME NEW f \in Live', Fenced(runs'[f].cmd)
                  PROVE  /\ runs'[f].admission.site = runs'[f].cmd.site
                         /\ runs'[f].admission.generation = generations'[runs'[f].cmd.site]
                         /\ siteFences'[runs'[f].cmd.site] = generations'[runs'[f].cmd.site]
                         /\ generations'[runs'[f].cmd.site] > 0
      BY DEF FenceHeld, Fenced
    <3>1. CASE f = e
      BY <1>0, <2>2, <3>1 DEF AdmissionFor, NextGeneration
    <3>2. CASE f # e
      <4>1. f \in Live /\ runs'[f] = runs[f] /\ Fenced(runs[f].cmd)
        BY <3>2 DEF Fenced
      <4>2. runs[f].cmd.site # s /\ runs[f].cmd.site \in Sites
        BY <2>3, <2>4, <4>1
      <4>. QED
        BY <2>2, <4>1, <4>2 DEF FenceInv, FenceHeld
    <3>. QED
      BY <3>1, <3>2
  <2>6. \A t \in Sites : siteFences'[t] <= generations'[t]
    BY <1>0, <2>2 DEF FenceInv
  <2>7. OneMutatorPerSite'
    BY <2>3 DEF FenceInv, OneMutatorPerSite, Fenced
  <2>8. CurrentFenceOwned'
    <3>. SUFFICES ASSUME NEW t \in Sites, siteFences'[t] # 0, siteFences'[t] = generations'[t]
                  PROVE  HasMutator(t)'
      BY DEF CurrentFenceOwned
    <3>1. CASE t = s
      BY <1>1, <3>1 DEF HasMutator, Fenced
    <3>2. CASE t # s
      <4>1. HasMutator(t)
        BY <2>2, <3>2 DEF FenceInv, CurrentFenceOwned
      <4>. QED
        BY <4>1 DEF HasMutator, Fenced
    <3>. QED
      BY <3>1, <3>2
  <2>. QED
    BY <2>5, <2>6, <2>7, <2>8 DEF FenceInv
<1>2. CASE ~Fenced(c)
  <2>1. UNCHANGED <<siteFences, generations>>
    BY <1>2 DEF BeginAdmission, Reserving, Fenced, siteVars
  <2>2. ~Fenced(runs'[e].cmd)
    BY <1>2 DEF Fenced
  <2>3. FenceHeld'
    BY <2>1, <2>2 DEF FenceInv, FenceHeld, Fenced
  <2>4. OneMutatorPerSite'
    BY <2>2 DEF FenceInv, OneMutatorPerSite, Fenced
  <2>5. CurrentFenceOwned'
    BY <2>1 DEF FenceInv, CurrentFenceOwned, HasMutator, Fenced
  <2>. QED
    BY <2>1, <2>3, <2>4, <2>5 DEF FenceInv
<1>. QED
  BY <1>1, <1>2

\* Execution e ends and settles its admission.
LEMMA FenceEnds ==
    ASSUME ExecTypeOK, FenceInv, NEW e \in Live, finishAdmission(runs[e]),
           Live' = Live \ {e}, \A f \in Live' : runs'[f] = runs[f]
    PROVE  FenceInv'
<1>. DEFINE c == runs[e].cmd
            s == c.site
<1>0. /\ c \in Commands /\ s \in Sites
      /\ siteFences \in [Sites -> Nat] /\ generations \in [Sites -> Nat]
  BY RunFields, CommandFields DEF ExecTypeOK, SiteTypeOK, Live
<1>1. CASE Fenced(c)
  <2>1. /\ runs[e].admission.site = s /\ runs[e].admission.generation = generations[s]
        /\ siteFences[s] = generations[s] /\ generations[s] > 0
    BY <1>1 DEF FenceInv, FenceHeld
  <2>2. /\ \A t \in Sites : t # s => siteFences'[t] = siteFences[t] /\ generations'[t] = generations[t]
        /\ siteFences'[s] <= generations'[s]
        /\ siteFences'[s] # 0 => siteFences'[s] # generations'[s]
    <3>1. CASE FinishSite(runs[e].admission, runs[e].ok)
      <4>1. siteFences' = [siteFences EXCEPT ![s] = 0] /\ UNCHANGED generations
        BY <2>1, <3>1 DEF FinishSite, Unfence
      <4>. QED
        BY <1>0, <4>1
    <3>2. CASE ReleaseSite(s)
      <4>1. /\ generations' = [generations EXCEPT ![s] = generations[s] + 1]
            /\ UNCHANGED siteFences
        BY <3>2 DEF ReleaseSite, NextGeneration
      <4>. QED
        BY <1>0, <2>1, <4>1
    <3>3. CASE FinishCommand(runs[e].admission)
      <4>1. siteFences' = [siteFences EXCEPT ![s] = 0] /\ UNCHANGED generations
        BY <2>1, <3>3 DEF FinishCommand, Unfence
      <4>. QED
        BY <1>0, <4>1
    <3>. QED
      BY <1>1, <3>1, <3>2, <3>3 DEF finishAdmission
  <2>3. \A f \in Live' : f \in Live /\ runs'[f] = runs[f] /\ runs[f].cmd.site \in Sites
                         /\ (Fenced(runs[f].cmd) => runs[f].cmd.site # s)
    BY <1>1, RunFields, CommandFields DEF Live, FenceInv, OneMutatorPerSite
  <2>4. FenceHeld'
    BY <2>2, <2>3 DEF FenceInv, FenceHeld, Fenced
  <2>5. \A t \in Sites : siteFences'[t] <= generations'[t]
    BY <2>2 DEF FenceInv
  <2>6. OneMutatorPerSite'
    BY <2>3 DEF FenceInv, OneMutatorPerSite, Fenced
  <2>7. CurrentFenceOwned'
    <3>. SUFFICES ASSUME NEW t \in Sites, siteFences'[t] # 0, siteFences'[t] = generations'[t]
                  PROVE  HasMutator(t)'
      BY DEF CurrentFenceOwned
    <3>1. t # s
      BY <2>2
    <3>2. HasMutator(t)
      BY <2>2, <3>1 DEF FenceInv, CurrentFenceOwned
    <3>3. PICK f \in Live : Fenced(runs[f].cmd) /\ runs[f].cmd.site = t
      BY <3>2 DEF HasMutator
    <3>4. f \in Live' /\ runs'[f] = runs[f]
      BY <3>1, <3>3
    <3>. QED
      BY <3>3, <3>4 DEF HasMutator, Fenced
  <2>. QED
    BY <2>4, <2>5, <2>6, <2>7 DEF FenceInv
<1>2. CASE ~Fenced(c)
  <2>1. UNCHANGED <<siteFences, generations>>
    BY <1>2 DEF finishAdmission, Reserving, Fenced, siteVars
  <2>2. FenceHeld'
    BY <2>1 DEF FenceInv, FenceHeld, Fenced
  <2>3. OneMutatorPerSite'
    BY DEF FenceInv, OneMutatorPerSite, Fenced
  <2>4. CurrentFenceOwned'
    <3>. SUFFICES ASSUME NEW t \in Sites, siteFences'[t] # 0, siteFences'[t] = generations'[t]
                  PROVE  HasMutator(t)'
      BY DEF CurrentFenceOwned
    <3>1. PICK f \in Live : Fenced(runs[f].cmd) /\ runs[f].cmd.site = t
      BY <2>1 DEF FenceInv, CurrentFenceOwned, HasMutator
    <3>2. f \in Live' /\ runs'[f] = runs[f]
      BY <1>2, <3>1
    <3>. QED
      BY <3>1, <3>2 DEF HasMutator, Fenced
  <2>. QED
    BY <2>1, <2>2, <2>3, <2>4 DEF FenceInv
<1>. QED
  BY <1>1, <1>2

\* A step of execution e that keeps its command and its admission.
LEMMA LiveKept ==
    ASSUME ExecTypeOK, NEW e \in Live, NEW r \in Run,
           runs' = [runs EXCEPT ![e] = r],
           r.cmd = runs[e].cmd, r.admission = runs[e].admission
    PROVE  /\ Live' = Live
           /\ \A f \in Live : /\ runs'[f].cmd = runs[f].cmd
                              /\ runs'[f].admission = runs[f].admission
BY NoRunIsNoRun DEF ExecTypeOK, ServeTypeOK, Live

\* What each step does to the executions, besides Launch.
LEMMA RunsStep ==
    ASSUME ExecTypeOK, CallShape, [Next]_vars, ~Launch, ~Restart
    PROVE  \/ /\ Live' = Live
              /\ \A f \in Live : /\ runs'[f].cmd = runs[f].cmd
                                 /\ runs'[f].admission = runs[f].admission
              /\ UNCHANGED siteVars
           \/ \E e \in Live : /\ Live' = Live \ {e}
                              /\ \A f \in Live' : runs'[f] = runs[f]
                              /\ finishAdmission(runs[e])
                              /\ \/ LateCompletion(e)
                                 \/ \E o \in Faults : e = call.run /\ CommandSettles(o)
<1>. DEFINE Same == /\ Live' = Live
                    /\ \A f \in Live : /\ runs'[f].cmd = runs[f].cmd
                                       /\ runs'[f].admission = runs[f].admission
                    /\ UNCHANGED siteVars
<1>0. runs \in [RunIds -> Run \cup {NoRun}]
  BY DEF ExecTypeOK, ServeTypeOK
<1>1. ASSUME UNCHANGED runs, UNCHANGED siteVars PROVE Same
  BY <1>1 DEF Live
<1>2. ASSUME NEW e \in RunIds,
             RunSucceeds(e) \/ RunFails(e) \/ ResetSites(e) \/ (\E o \in Faults : ResetResults(e, o))
      PROVE  Same
  <2>1. e \in Live /\ runs[e] \in Run /\ UNCHANGED capacityVars
    BY <1>2, RunFields DEF RunSucceeds, RunFails, ResetSites, ResetResults
  <2>2. runs' = [runs EXCEPT ![e] = runs'[e]]
    BY <1>0, <1>2 DEF RunSucceeds, RunFails, ResetSites, ResetResults
  <2>3. runs'[e] \in Run /\ runs'[e].cmd = runs[e].cmd /\ runs'[e].admission = runs[e].admission
    BY <1>0, <1>2, <2>1 DEF RunSucceeds, RunFails, ResetSites, ResetResults, Run
  <2>. QED
    BY <2>1, <2>2, <2>3, LiveKept, CapacityParts
<1>3. ASSUME CommandCancelled \/ \E o \in Faults : CommandTimesOut(o)
      PROVE  Same
  <2>. DEFINE e == call.run
  <2>1. e \in Live /\ e \in RunIds /\ runs[e] \in Run /\ UNCHANGED capacityVars
    BY <1>3, RunFields DEF CommandTimesOut, CommandCancelled, Serving, CallShape, Live
  <2>2. runs' = [runs EXCEPT ![e].attached = FALSE]
    BY <1>3 DEF CommandTimesOut, CommandCancelled
  <2>3. runs' = [runs EXCEPT ![e] = runs'[e]]
    BY <1>0, <2>1, <2>2
  <2>4. runs'[e] \in Run /\ runs'[e].cmd = runs[e].cmd /\ runs'[e].admission = runs[e].admission
    BY <1>0, <2>1, <2>2 DEF Run
  <2>. QED
    BY <2>1, <2>3, <2>4, LiveKept, CapacityParts
<1>4. ASSUME NEW e \in Live, runs' = [runs EXCEPT ![e] = NoRun]
      PROVE  Live' = Live \ {e} /\ \A f \in Live' : runs'[f] = runs[f]
  BY <1>0, <1>4 DEF Live
<1>5. ASSUME NEW o \in Faults, CommandSettles(o)
      PROVE  /\ call.run \in Live /\ finishAdmission(runs[call.run])
             /\ Live' = Live \ {call.run} /\ \A f \in Live' : runs'[f] = runs[f]
  BY <1>4, <1>5 DEF CommandSettles, Serving, CallShape
<1>6. ASSUME NEW e \in RunIds, LateCompletion(e)
      PROVE  /\ e \in Live /\ finishAdmission(runs[e])
             /\ Live' = Live \ {e} /\ \A f \in Live' : runs'[f] = runs[f]
  BY <1>4, <1>6 DEF LateCompletion
<1>7. CASE \/ \E c \in Commands : Refuse(c) \/ Replay(c) \/ Proceed(c)
           \/ AcquireOperation \/ AcquireCancelled \/ AdmissionRejected
           \/ \E k \in Kinds : LateCount(k)
           \/ Shutdown \/ UNCHANGED vars
  <2>1. UNCHANGED runs
    BY <1>7 DEF Refuse, Replay, Proceed, AcquireOperation, AcquireCancelled,
                AdmissionRejected, LateCount, Shutdown, vars
  <2>2. UNCHANGED siteVars
    BY <1>7, CapacityParts
    DEF Refuse, Replay, Proceed, AcquireOperation, AcquireCancelled,
        AdmissionRejected, LateCount, Shutdown, vars
  <2>. QED
    BY <1>1, <2>1, <2>2
<1>. QED
  BY <1>2, <1>3, <1>5, <1>6, <1>7 DEF Next, CallStep, RunStep

LEMMA FenceStep ==
    ASSUME ExecTypeOK, CallShape, FenceInv, [Next]_vars
    PROVE  FenceInv'
<1>1. CASE Launch
  BY <1>1, LaunchRuns, FenceStarts DEF Launch
<1>2. CASE Restart
  <2>1. Live' = {}
    BY <1>2 DEF Restart, NoRuns, Live
  <2>2. \A s \in Sites : siteFences'[s] = 0 /\ generations'[s] = 0
    BY <1>2 DEF Restart, ZeroPerSite
  <2>. QED
    BY <2>1, <2>2 DEF FenceInv, FenceHeld, OneMutatorPerSite, CurrentFenceOwned
<1>3. CASE ~Launch /\ ~Restart
  BY <1>3, RunsStep, FenceKept, FenceEnds
<1>. QED
  BY <1>1, <1>2, <1>3
-----------------------------------------------------------------------------
\* The slot held by a call between the pool and its execution.
Admitting(k) ==
    IF call # Idle /\ call.phase = "slot" /\ call.cmd.kind = k THEN 1 ELSE 0

\* SlotsAccounted, one pool at a time.
PoolOK(k) ==
    /\ slots[k] = Cardinality(RunsOfKind(k)) + Admitting(k)
    /\ inUse[k] = slots[k] + freeing[k]
    /\ slots[k] <= Concurrency[k]

LEMMA PoolsOK == SlotsAccounted <=> \A k \in Kinds : PoolOK(k)
BY DEF SlotsAccounted, PoolOK, Admitting

LEMMA RunsFinite ==
    ASSUME NEW k
    PROVE  IsFiniteSet(RunsOfKind(k)) /\ Cardinality(RunsOfKind(k)) \in Nat
<1>1. IsFiniteSet(RunIds)
  BY FS_Interval, ExecutorAssumption DEF RunIds
<1>2. RunsOfKind(k) \subseteq RunIds
  BY DEF RunsOfKind, Live
<1>. QED
  BY <1>1, <1>2, FS_Subset, FS_CardinalityType

\* The executions of a kind after a step.
LEMMA KindKept ==
    ASSUME NEW k, Live' = Live, \A f \in Live : runs'[f].cmd = runs[f].cmd
    PROVE  RunsOfKind(k)' = RunsOfKind(k)
BY DEF RunsOfKind

LEMMA KindStarts ==
    ASSUME NEW k, NEW e, e \notin Live, Live' = Live \cup {e}, \A f \in Live : runs'[f] = runs[f]
    PROVE  Cardinality(RunsOfKind(k)') =
             Cardinality(RunsOfKind(k)) + (IF runs'[e].cmd.kind = k THEN 1 ELSE 0)
<1>1. CASE runs'[e].cmd.kind = k
  <2>1. RunsOfKind(k)' = RunsOfKind(k) \cup {e} /\ e \notin RunsOfKind(k)
    BY <1>1 DEF RunsOfKind
  <2>. QED
    BY <1>1, <2>1, RunsFinite, FS_AddElement
<1>2. CASE runs'[e].cmd.kind # k
  <2>1. RunsOfKind(k)' = RunsOfKind(k)
    BY <1>2 DEF RunsOfKind
  <2>. QED
    BY <1>2, <2>1, RunsFinite
<1>. QED
  BY <1>1, <1>2

LEMMA KindEnds ==
    ASSUME NEW k, NEW e \in Live, Live' = Live \ {e}, \A f \in Live' : runs'[f] = runs[f]
    PROVE  Cardinality(RunsOfKind(k)') =
             Cardinality(RunsOfKind(k)) - (IF runs[e].cmd.kind = k THEN 1 ELSE 0)
<1>1. CASE runs[e].cmd.kind = k
  <2>1. RunsOfKind(k)' = RunsOfKind(k) \ {e} /\ e \in RunsOfKind(k)
    BY <1>1 DEF RunsOfKind
  <2>2. Cardinality(RunsOfKind(k) \ {e}) = Cardinality(RunsOfKind(k)) - 1
    BY <2>1, RunsFinite, FS_RemoveElement
  <2>. QED
    BY <1>1, <2>1, <2>2
<1>2. CASE runs[e].cmd.kind # k
  <2>1. RunsOfKind(k)' = RunsOfKind(k)
    BY <1>2 DEF RunsOfKind
  <2>. QED
    BY <1>2, <2>1, RunsFinite
<1>. QED
  BY <1>1, <1>2

\* A counter after a change of the pool of one kind.
LEMMA BumpAt ==
    ASSUME NEW f \in [Kinds -> Int], NEW kind, NEW by \in Int, NEW k \in Kinds
    PROVE  Bump(f, kind, by)[k] = f[k] + (IF kind = k THEN by ELSE 0)
BY DEF Bump, Pooled

LEMMA SlotsInit == Init => SlotsAccounted
<1>. SUFFICES ASSUME Init, NEW k \in Kinds PROVE PoolOK(k)
  BY PoolsOK
<1>1. RunsOfKind(k) = {}
  BY DEF Init, NoRuns, Live, RunsOfKind
<1>2. Cardinality(RunsOfKind(k)) = 0
  BY <1>1, FS_EmptySet
<1>3. Concurrency[k] \in Nat
  BY CapacityAssumption
<1>. QED
  BY <1>2, <1>3 DEF Init, CapacityInit, ZeroPerKind, PoolOK, Admitting

LEMMA SlotsStep ==
    ASSUME ExecTypeOK, CallShape, SlotsAccounted, [Next]_vars
    PROVE  SlotsAccounted'
<1>. SUFFICES ASSUME NEW k \in Kinds PROVE PoolOK(k)'
  BY PoolsOK, Zenon DEF SlotsAccounted, PoolOK, Admitting
<1>. DEFINE n == Cardinality(RunsOfKind(k))
<1>1. PoolOK(k)
  BY PoolsOK
<1>2. /\ slots \in [Kinds -> Int] /\ inUse \in [Kinds -> Int] /\ freeing \in [Kinds -> Int]
      /\ slots[k] \in Int /\ inUse[k] \in Int /\ freeing[k] \in Nat
      /\ n \in Nat /\ Concurrency[k] \in Nat
  BY RunsFinite, CapacityAssumption DEF ExecTypeOK, PoolTypeOK
<1>3. CASE Launch
  <2>1. Cardinality(RunsOfKind(k)') = n + (IF call.cmd.kind = k THEN 1 ELSE 0)
    BY <1>3, LaunchRuns, KindStarts
  <2>2. Admitting(k) = (IF call.cmd.kind = k THEN 1 ELSE 0) /\ Admitting(k)' = 0
    BY <1>3, LaunchRuns DEF Admitting
  <2>3. UNCHANGED <<slots, inUse, freeing>>
    BY <1>3 DEF Launch, poolVars
  <2>. QED
    BY <1>1, <1>2, <2>1, <2>2, <2>3 DEF PoolOK
<1>4. CASE Restart
  <2>1. RunsOfKind(k)' = {} /\ call' = Idle
    BY <1>4 DEF Restart, NoRuns, Live, RunsOfKind
  <2>2. Cardinality(RunsOfKind(k)') = 0
    BY <2>1, FS_EmptySet
  <2>. QED
    BY <1>2, <1>4, <2>1, <2>2 DEF Restart, ZeroPerKind, PoolOK, Admitting
<1>5. ASSUME NEW e \in Live, LateCompletion(e), Live' = Live \ {e},
             \A f \in Live' : runs'[f] = runs[f]
      PROVE  PoolOK(k)'
  <2>. DEFINE d == IF runs[e].cmd.kind = k THEN 1 ELSE 0
  <2>1. Cardinality(RunsOfKind(k)') = n - d
    BY <1>5, KindEnds
  <2>2. Admitting(k)' = Admitting(k)
    BY <1>5 DEF LateCompletion, Admitting
  <2>3. slots'[k] = slots[k] - d /\ freeing'[k] = freeing[k] + d /\ inUse'[k] = inUse[k]
    BY <1>2, <1>5, BumpAt DEF LateCompletion
  <2>4. d \in {0, 1} /\ Admitting(k) \in {0, 1}
    BY DEF Admitting
  <2>. QED
    BY <1>1, <1>2, <2>1, <2>2, <2>3, <2>4 DEF PoolOK
<1>6. ASSUME NEW o \in Faults, CommandSettles(o), call.run \in Live,
             Live' = Live \ {call.run}, \A f \in Live' : runs'[f] = runs[f]
      PROVE  PoolOK(k)'
  <2>. DEFINE d == IF call.cmd.kind = k THEN 1 ELSE 0
  <2>1. call # Idle /\ call.phase = "run" /\ runs[call.run].cmd = call.cmd /\ call' = Idle
    BY <1>6 DEF CommandSettles, Serving, CallShape, Return
  <2>2. Cardinality(RunsOfKind(k)') = n - d
    BY <1>6, <2>1, KindEnds
  <2>3. Admitting(k)' = 0 /\ Admitting(k) = 0
    BY <2>1 DEF Admitting
  <2>4. slots'[k] = slots[k] - d /\ freeing'[k] = freeing[k] /\ inUse'[k] = inUse[k] - d
    BY <1>2, <1>6, BumpAt DEF CommandSettles
  <2>5. d \in {0, 1}
    OBVIOUS
  <2>. QED
    BY <1>1, <1>2, <2>2, <2>3, <2>4, <2>5 DEF PoolOK
<1>7. ASSUME Live' = Live, \A f \in Live : runs'[f].cmd = runs[f].cmd, ~Launch, ~Restart,
             ~\E e \in RunIds : LateCompletion(e), ~\E o \in Faults : CommandSettles(o)
      PROVE  PoolOK(k)'
  <2>1. RunsOfKind(k)' = RunsOfKind(k)
    BY <1>7, KindKept
  <2>2. CASE AcquireOperation
    <3>1. /\ call # Idle /\ call \in Call /\ call.phase = "admit" /\ SlotFree(call.cmd.kind)
          /\ call' = [call EXCEPT !.phase = "slot"]
      BY <2>2, CallFields DEF AcquireOperation, Serving
    <3>2. call' \in Call /\ call'.phase = "slot" /\ call'.cmd = call.cmd
      BY <3>1 DEF Call
    <3>3. Admitting(k) = 0 /\ Admitting(k)' = (IF call.cmd.kind = k THEN 1 ELSE 0)
      BY <3>1, <3>2, CallFields DEF Admitting
    <3>4. /\ slots'[k] = slots[k] + (IF call.cmd.kind = k THEN 1 ELSE 0)
          /\ inUse'[k] = inUse[k] + (IF call.cmd.kind = k THEN 1 ELSE 0)
          /\ UNCHANGED freeing
      BY <1>2, <2>2, BumpAt DEF AcquireOperation
    <3>5. call.cmd.kind = k => slots[k] < Concurrency[k]
      BY <3>1 DEF SlotFree, Pooled
    <3>. QED
      BY <1>1, <1>2, <2>1, <3>3, <3>4, <3>5 DEF PoolOK
  <2>3. CASE AdmissionRejected
    <3>1. call # Idle /\ call.phase = "slot" /\ call' = Idle
      BY <2>3 DEF AdmissionRejected, Serving, Return
    <3>2. Admitting(k)' = 0 /\ Admitting(k) = (IF call.cmd.kind = k THEN 1 ELSE 0)
      BY <3>1 DEF Admitting
    <3>3. /\ slots'[k] = slots[k] + (IF call.cmd.kind = k THEN -1 ELSE 0)
          /\ inUse'[k] = inUse[k] + (IF call.cmd.kind = k THEN -1 ELSE 0)
          /\ UNCHANGED freeing
      BY <1>2, <2>3, BumpAt DEF AdmissionRejected
    <3>. QED
      BY <1>1, <1>2, <2>1, <3>2, <3>3 DEF PoolOK
  <2>4. ASSUME NEW kind \in Kinds, LateCount(kind)
        PROVE  PoolOK(k)'
    <3>1. /\ freeing' = [freeing EXCEPT ![kind] = freeing[kind] - 1]
          /\ inUse' = [inUse EXCEPT ![kind] = inUse[kind] - 1]
          /\ UNCHANGED <<slots, call>>
      BY <2>4 DEF LateCount
    <3>2. Admitting(k)' = Admitting(k)
      BY <3>1 DEF Admitting
    <3>. QED
      BY <1>1, <1>2, <2>1, <3>1, <3>2 DEF PoolOK
  <2>5. ASSUME UNCHANGED <<slots, inUse, freeing>>, Admitting(k)' = Admitting(k)
        PROVE  PoolOK(k)'
    BY <1>1, <2>1, <2>5 DEF PoolOK
  <2>6. ASSUME NEW c \in Commands, Refuse(c) \/ Replay(c) \/ Proceed(c)
        PROVE  PoolOK(k)'
    <3>1. call = Idle /\ (call' = Idle \/ call'.phase = "admit")
      BY <2>6 DEF Refuse, Replay, Proceed, Arrives, Return
    <3>2. UNCHANGED <<slots, inUse, freeing>>
      BY <2>6, CapacityParts DEF Refuse, Replay, Proceed
    <3>. QED
      BY <2>5, <3>1, <3>2 DEF Admitting
  <2>7. CASE AcquireCancelled \/ CommandCancelled \/ \E o \in Faults : CommandTimesOut(o)
    <3>1. call # Idle /\ call.phase \in {"admit", "run"} /\ call' = Idle
      BY <2>7 DEF AcquireCancelled, CommandCancelled, CommandTimesOut, Serving, Return
    <3>2. UNCHANGED <<slots, inUse, freeing>>
      BY <2>7, CapacityParts DEF AcquireCancelled, CommandCancelled, CommandTimesOut
    <3>. QED
      BY <2>5, <3>1, <3>2 DEF Admitting
  <2>8. CASE \/ \E e \in RunIds : \/ RunSucceeds(e) \/ RunFails(e) \/ ResetSites(e)
                                  \/ \E o \in Faults : ResetResults(e, o)
             \/ Shutdown
             \/ UNCHANGED vars
    <3>1. UNCHANGED <<call, freeing>>
      BY <2>8 DEF RunSucceeds, RunFails, ResetSites, ResetResults, Shutdown, vars
    <3>2. UNCHANGED <<slots, inUse>>
      BY <2>8, CapacityParts DEF RunSucceeds, RunFails, ResetSites, ResetResults, Shutdown, vars
    <3>. QED
      BY <2>5, <3>1, <3>2 DEF Admitting
  <2>. QED
    BY <1>7, <2>2, <2>3, <2>4, <2>6, <2>7, <2>8 DEF Next, CallStep, RunStep
<1>8. ASSUME NEW e \in RunIds, LateCompletion(e), ~Launch, ~Restart PROVE PoolOK(k)'
  <2>1. runs' = [runs EXCEPT ![e] = NoRun] /\ e \in Live
    BY <1>8 DEF LateCompletion
  <2>2. Live' = Live \ {e} /\ \A f \in Live' : runs'[f] = runs[f]
    BY <2>1 DEF Live, ExecTypeOK, ServeTypeOK
  <2>. QED
    BY <1>5, <1>8, <2>1, <2>2
<1>9. ASSUME NEW o \in Faults, CommandSettles(o) PROVE PoolOK(k)'
  <2>1. runs' = [runs EXCEPT ![call.run] = NoRun] /\ call.run \in Live
    BY <1>9 DEF CommandSettles, Serving, CallShape
  <2>2. Live' = Live \ {call.run} /\ \A f \in Live' : runs'[f] = runs[f]
    BY <2>1 DEF Live, ExecTypeOK, ServeTypeOK
  <2>. QED
    BY <1>6, <1>9, <2>1, <2>2
<1>10. ASSUME ~Launch, ~Restart, ~\E e \in RunIds : LateCompletion(e),
              ~\E o \in Faults : CommandSettles(o)
       PROVE  Live' = Live /\ \A f \in Live : runs'[f].cmd = runs[f].cmd
  <2>1. \A e \in Live : e \in RunIds
    BY DEF Live
  <2>. QED
    BY <1>10, <2>1, RunsStep
<1>. QED
  BY <1>3, <1>4, <1>7, <1>8, <1>9, <1>10
-----------------------------------------------------------------------------
(* The theorems.                                                            *)

\* The inductive invariant.
-----------------------------------------------------------------------------
(* What the records, the answers and the reservations say of the host.      *)

\* An execution that ended well has had its effect.
EndedWellHappened ==
    \A e \in Live : runs[e].ok => runs[e].state = "done" /\ effects[runs[e].cmd.key] > 0

RealInv == SuccessIsReal /\ EndedWellHappened

\* What Save may leave under a key.
LEMMA SaveWrites ==
    ASSUME StoreTypeOK, StoreMirrorsFile, NEW k \in Keys, NEW r \in Result,
           NEW o \in Outcomes, Save(k, r, o)
    PROVE  /\ \A j \in Keys : \/ commandsFile'[j] = commandsFile[j]
                              \/ j = k /\ commandsFile'[j] \in {r, Tombstone}
           /\ TooLargeAlone(r) => UNCHANGED commandsFile
           /\ ~TooLargeAlone(r) /\ o # "failed" => commandsFile'[k] \in {r, Tombstone}
<1>1. CASE TooLargeAlone(r)
  BY <1>1 DEF Save, storeVars
<1>2. CASE ~TooLargeAlone(r)
  <2>1. commandsFile' = IF o = "failed" THEN commandsFile ELSE Candidate(k, r)
    BY <1>2 DEF Save, persist, AtomicWrite, Outcomes
  <2>2. Candidate(k, r) \in {[commandsFile EXCEPT ![k] = r], [commandsFile EXCEPT ![k] = Tombstone]}
    BY DEF Candidate, StoreMirrorsFile
  <2>. QED
    BY <1>2, <2>1, <2>2 DEF StoreTypeOK
<1>. QED
  BY <1>1, <1>2

\* One execution, and nothing else, changes.
LEMMA OneRun ==
    ASSUME ExecTypeOK, NEW e \in Live, NEW r \in Run,
           runs' = [runs EXCEPT ![e] = r], r.cmd = runs[e].cmd
    PROVE  /\ Live' = Live /\ runs'[e] = r
           /\ \A f \in Live : f # e => runs'[f] = runs[f]
           /\ \A f \in Live : runs'[f].cmd = runs[f].cmd
BY NoRunIsNoRun DEF ExecTypeOK, ServeTypeOK, Live

\* The provisioner of e returns.
LEMMA RunEnds ==
    ASSUME ExecTypeOK, NEW e \in RunIds,
           RunSucceeds(e) \/ RunFails(e) \/ ResetSites(e) \/ (\E o \in Faults : ResetResults(e, o))
    PROVE  /\ e \in Live /\ runs[e] \in Run /\ runs'[e] \in Run
           /\ runs'[e].cmd = runs[e].cmd /\ runs'[e].admission = runs[e].admission
           /\ runs'[e].attached = runs[e].attached
           /\ Live' = Live
           /\ \A f \in Live : f # e => runs'[f] = runs[f]
           /\ RunSucceeds(e) => runs'[e].ok /\ runs'[e].state = "done"
           /\ RunFails(e) => runs'[e].ok = runs[e].ok /\ runs'[e].state = "done"
           /\ ResetSites(e) => runs'[e].ok = runs[e].ok /\ runs'[e].state = "wiped"
           /\ (\E o \in Faults : ResetResults(e, o)) => runs'[e].ok /\ runs'[e].state = "done"
<1>0. runs \in [RunIds -> Run \cup {NoRun}]
  BY DEF ExecTypeOK, ServeTypeOK
<1>1. e \in Live /\ runs[e] \in Run
  BY RunFields DEF RunSucceeds, RunFails, ResetSites, ResetResults
<1>2. PICK st \in {"done", "wiped"}, res \in BOOLEAN :
        runs' = [runs EXCEPT ![e] = [runs[e] EXCEPT !.state = st, !.ok = res]]
  <2>1. CASE RunSucceeds(e) \/ (\E o \in Faults : ResetResults(e, o))
    <3>1. runs' = [runs EXCEPT ![e].state = "done", ![e].ok = TRUE]
      BY <2>1 DEF RunSucceeds, ResetResults
    <3>2. runs' = [runs EXCEPT ![e] = [runs[e] EXCEPT !.state = "done", !.ok = TRUE]]
      BY <1>0, <1>1, <3>1
    <3>. QED
      BY <3>2
  <2>2. CASE RunFails(e) \/ ResetSites(e)
    <3>1. PICK st \in {"done", "wiped"} : runs' = [runs EXCEPT ![e].state = st]
      BY <2>2 DEF RunFails, ResetSites
    <3>2. runs' = [runs EXCEPT ![e] = [runs[e] EXCEPT !.state = st, !.ok = runs[e].ok]]
      BY <1>0, <1>1, <3>1 DEF Run
    <3>3. runs[e].ok \in BOOLEAN
      BY <1>1 DEF Run
    <3>. QED
      BY <3>2, <3>3
  <2>. QED
    BY <2>1, <2>2
<1>3. runs'[e] \in Run /\ runs'[e].cmd = runs[e].cmd /\ runs'[e].admission = runs[e].admission
      /\ runs'[e].attached = runs[e].attached
  <2>1. runs'[e] = [runs[e] EXCEPT !.state = st, !.ok = res]
    BY <1>0, <1>1, <1>2 DEF Live
  <2>. QED
    BY <1>1, <2>1 DEF Run
<1>4. Live' = Live /\ \A f \in Live : f # e => runs'[f] = runs[f]
  BY <1>0, <1>1, <1>2, <1>3, NoRunIsNoRun DEF Live
<1>5. RunSucceeds(e) => runs'[e].ok /\ runs'[e].state = "done"
  BY <1>0, <1>1 DEF RunSucceeds, Run
<1>6. RunFails(e) => runs'[e].ok = runs[e].ok /\ runs'[e].state = "done"
  BY <1>0, <1>1 DEF RunFails, Run
<1>7. ResetSites(e) => runs'[e].ok = runs[e].ok /\ runs'[e].state = "wiped"
  BY <1>0, <1>1 DEF ResetSites, Run
<1>8. (\E o \in Faults : ResetResults(e, o)) => runs'[e].ok /\ runs'[e].state = "done"
  BY <1>0, <1>1 DEF ResetResults, Run
<1>. QED
  BY <1>1, <1>3, <1>4, <1>5, <1>6, <1>7, <1>8

\* The call lets go of its execution.
LEMMA Detached ==
    ASSUME ExecTypeOK, NEW e \in Live, runs' = [runs EXCEPT ![e].attached = FALSE]
    PROVE  /\ Live' = Live
           /\ \A f \in Live : /\ runs'[f].cmd = runs[f].cmd /\ runs'[f].ok = runs[f].ok
                              /\ runs'[f].state = runs[f].state
                              /\ runs'[f].admission = runs[f].admission
<1>0. runs \in [RunIds -> Run \cup {NoRun}]
  BY DEF ExecTypeOK, ServeTypeOK
<1>1. runs[e] \in Run /\ e \in RunIds
  BY RunFields DEF Live
<1>2. PICK b \in BOOLEAN : runs' = [runs EXCEPT ![e] = [runs[e] EXCEPT !.attached = b]]
  BY <1>0, <1>1
<1>3. runs'[e] = [runs[e] EXCEPT !.attached = b]
  BY <1>0, <1>1, <1>2
<1>4. /\ runs'[e] \in Run /\ runs'[e].cmd = runs[e].cmd /\ runs'[e].ok = runs[e].ok
      /\ runs'[e].state = runs[e].state /\ runs'[e].admission = runs[e].admission
  BY <1>1, <1>3 DEF Run
<1>5. Live' = Live /\ \A f \in Live : f # e => runs'[f] = runs[f]
  BY <1>0, <1>1, <1>2, <1>4, NoRunIsNoRun DEF Live
<1>. QED
  BY <1>4, <1>5

\* Effects only grow; so a success stays real, and a new one must be.
LEMMA RealKept ==
    ASSUME ExecTypeOK, ExecTypeOK', RealInv,
           \A k \in Keys : effects'[k] >= effects[k],
           \A e \in Live' : runs'[e].ok =>
              /\ runs'[e].state = "done"
              /\ \/ e \in Live /\ runs[e].ok /\ runs'[e].cmd = runs[e].cmd
                 \/ effects'[runs'[e].cmd.key] > 0,
           \A k \in Keys : \/ commandsFile'[k] \in {None, commandsFile[k]}
                           \/ commandsFile'[k].status = "failed"
                           \/ effects'[k] > 0,
           \/ reply' \in {reply, NoReply}
           \/ reply'.status = "failed"
           \/ effects'[reply'.cmd.key] > 0
    PROVE  RealInv'
<1>1. effects \in [Keys -> Nat] /\ effects' \in [Keys -> Nat]
  BY DEF ExecTypeOK, HostTypeOK
<1>2. EndedWellHappened'
  <2>. SUFFICES ASSUME NEW e \in Live', runs'[e].ok
                PROVE  runs'[e].state = "done" /\ effects'[runs'[e].cmd.key] > 0
    BY Zenon DEF EndedWellHappened
  <2>1. CASE e \in Live /\ runs[e].ok /\ runs'[e].cmd = runs[e].cmd
    <3>1. effects[runs[e].cmd.key] > 0 /\ runs[e].cmd.key \in Keys
      BY <2>1, RunFields, CommandFields DEF RealInv, EndedWellHappened, Live
    <3>. QED
      BY <1>1, <2>1, <3>1
  <2>. QED
    BY <2>1
<1>3. \A k \in Keys : commandsFile'[k] # None /\ commandsFile'[k].status = "succeeded" => effects'[k] > 0
  <2>. SUFFICES ASSUME NEW k \in Keys, commandsFile'[k] # None, commandsFile'[k].status = "succeeded"
                PROVE  effects'[k] > 0
    OBVIOUS
  <2>1. CASE commandsFile'[k] = commandsFile[k]
    BY <1>1, <2>1 DEF RealInv, SuccessIsReal
  <2>. QED
    BY <2>1
<1>4. reply' # NoReply /\ reply'.status = "succeeded" => effects'[reply'.cmd.key] > 0
  <2>1. CASE reply' = reply
    <3>. SUFFICES ASSUME reply # NoReply, reply.status = "succeeded"
                  PROVE  effects'[reply.cmd.key] > 0
      BY <2>1
    <3>1. reply.cmd.key \in Keys
      BY CommandFields DEF ExecTypeOK, ServeTypeOK, Reply
    <3>2. effects[reply.cmd.key] > 0
      BY DEF RealInv, SuccessIsReal
    <3>. QED
      BY <1>1, <3>1, <3>2
  <2>. QED
    BY <2>1
<1>. QED
  BY <1>2, <1>3, <1>4 DEF RealInv, SuccessIsReal

LEMMA RealInit == Init => RealInv
BY DEF Init, StoreInit, NoResults, NoRuns, RealInv, SuccessIsReal, EndedWellHappened, Live

\* Nothing of the executor's steps concerns the executions' results, the file
\* or the effects, and what is answered is a failure or nothing.
LEMMA RealQuiet ==
    ASSUME ExecTypeOK, ExecTypeOK', RealInv, UNCHANGED <<commandsFile, effects>>,
           Live' \subseteq Live,
           \A e \in Live' : /\ runs'[e].cmd = runs[e].cmd
                            /\ runs'[e].ok => runs[e].ok
                            /\ runs'[e].state = runs[e].state,
           reply' \in {reply, NoReply} \/ reply'.status = "failed"
    PROVE  RealInv'
<1>1. \A k \in Keys : effects'[k] >= effects[k]
  BY DEF ExecTypeOK, HostTypeOK
<1>2. \A e \in Live' : runs'[e].ok =>
        runs'[e].state = "done" /\ e \in Live /\ runs[e].ok /\ runs'[e].cmd = runs[e].cmd
  BY DEF RealInv, EndedWellHappened
<1>. QED
  BY <1>1, <1>2, RealKept

LEMMA RealStep ==
    ASSUME ExecTypeOK, ExecTypeOK', ShapeInv, RealInv, [Next]_vars
    PROVE  RealInv'
<1>0. /\ Faults \subseteq Outcomes
      /\ StoreTypeOK /\ StoreMirrorsFile /\ effects \in [Keys -> Nat]
      /\ runs \in [RunIds -> Run \cup {NoRun}]
      /\ \A k \in Keys : effects[k] >= effects[k]
  BY ExecutorAssumption DEF ExecTypeOK, StoreOK, HostTypeOK, ServeTypeOK
<1>1. ASSUME UNCHANGED <<runs, commandsFile, effects>>, reply' \in {reply, NoReply} \/ reply'.status = "failed"
      PROVE  RealInv'
  <2>1. Live' = Live
    BY <1>1 DEF Live
  <2>. QED
    BY <1>1, <2>1, RealQuiet
<1>2. ASSUME NEW c \in Commands, Refuse(c) \/ Proceed(c) PROVE RealInv'
  BY <1>1, <1>2 DEF Refuse, Proceed, Return, storeVars, hostVars
<1>3. ASSUME NEW c \in Commands, Replay(c) PROVE RealInv'
  <2>1. UNCHANGED <<runs, commandsFile, effects>> /\ Live' = Live /\ c.key \in Keys
    BY <1>3, CommandFields DEF Replay, storeVars, hostVars, Live
  <2>2. reply'.cmd = c /\ (reply'.status = "failed" \/ (reply'.status = results[c.key].status /\ results[c.key] # None))
    <3>1. CASE Return(c, "failed")
      BY <3>1 DEF Return
    <3>2. CASE results[c.key] # None /\ Return(c, results[c.key].status)
      BY <3>2 DEF Return
    <3>. QED
      BY <1>3, <3>1, <3>2 DEF Replay
  <2>3. reply'.status \in Statuses
    BY <1>0, <2>1, <2>2 DEF StoreTypeOK, Result, Statuses
  <2>4. reply'.status = "failed" \/ effects'[reply'.cmd.key] > 0
    BY <1>0, <2>1, <2>2, <2>3 DEF StoreMirrorsFile, RealInv, SuccessIsReal, Statuses
  <2>5. \A e \in Live' : runs'[e].ok =>
          runs'[e].state = "done" /\ e \in Live /\ runs[e].ok /\ runs'[e].cmd = runs[e].cmd
    BY <2>1 DEF RealInv, EndedWellHappened
  <2>. QED
    BY <1>0, <2>1, <2>4, <2>5, RealKept
<1>4. CASE AcquireOperation \/ AcquireCancelled \/ AdmissionRejected
  BY <1>1, <1>4 DEF AcquireOperation, AcquireCancelled, AdmissionRejected, Return, storeVars, hostVars
<1>5. CASE Launch
  <2>1. UNCHANGED <<commandsFile, effects, reply>>
    BY <1>5 DEF Launch, storeVars, hostVars
  <2>2. Live' = Live \cup {launched + 1} /\ \A f \in Live : runs'[f] = runs[f]
    BY <1>5, LaunchRuns DEF ShapeInv
  <2>3. ~runs'[launched + 1].ok
    <3>1. launched + 1 \in RunIds
      BY <1>5, LaunchRuns DEF ShapeInv
    <3>. QED
      BY <1>0, <1>5, <3>1 DEF Launch
  <2>4. \A e \in Live' : runs'[e].ok =>
          runs'[e].state = "done" /\ e \in Live /\ runs[e].ok /\ runs'[e].cmd = runs[e].cmd
    BY <2>2, <2>3 DEF RealInv, EndedWellHappened
  <2>. QED
    BY <1>0, <2>1, <2>4, RealKept
<1>6. ASSUME NEW e \in RunIds, RunSucceeds(e) \/ (\E o \in Faults : ResetResults(e, o))
      PROVE  RealInv'
  <2>. DEFINE k == runs[e].cmd.key
  <2>1. k \in Keys
    BY <1>6, RunEnds, CommandFields DEF Run
  <2>2. effects' = [effects EXCEPT ![k] = effects[k] + 1] /\ UNCHANGED reply
    BY <1>6 DEF RunSucceeds, ResetResults
  <2>3. effects'[k] > 0 /\ \A j \in Keys : effects'[j] >= effects[j]
    BY <1>0, <2>1, <2>2
  <2>4. /\ Live' = Live /\ runs'[e].cmd = runs[e].cmd /\ runs'[e].state = "done"
        /\ \A f \in Live : f # e => runs'[f] = runs[f]
    BY <1>6, RunEnds
  <2>5. \A j \in Keys : commandsFile'[j] \in {None, commandsFile[j]}
    BY <1>0, <1>6, ResetKeeps DEF RunSucceeds, ResetResults, storeVars
  <2>6. \A f \in Live' : runs'[f].ok =>
              /\ runs'[f].state = "done"
              /\ \/ f \in Live /\ runs[f].ok /\ runs'[f].cmd = runs[f].cmd
                 \/ effects'[runs'[f].cmd.key] > 0
    BY <2>3, <2>4 DEF RealInv, EndedWellHappened
  <2>. QED
    BY <2>2, <2>3, <2>5, <2>6, RealKept
<1>7. ASSUME NEW e \in RunIds, RunFails(e) \/ ResetSites(e) PROVE RealInv'
  <2>1. UNCHANGED <<commandsFile, effects, reply>> /\ runs[e].state = "running"
    BY <1>7 DEF RunFails, ResetSites, storeVars, hostVars
  <2>2. /\ e \in Live /\ Live' = Live /\ runs'[e].cmd = runs[e].cmd /\ runs'[e].ok = runs[e].ok
        /\ \A f \in Live : f # e => runs'[f] = runs[f]
    BY <1>7, RunEnds
  <2>3. \A f \in Live' : runs'[f].ok =>
          runs'[f].state = "done" /\ f \in Live /\ runs[f].ok /\ runs'[f].cmd = runs[f].cmd
    <3>1. ~runs[e].ok
      BY <2>1, <2>2 DEF RealInv, EndedWellHappened
    <3>. QED
      BY <2>2, <3>1 DEF RealInv, EndedWellHappened
  <2>. QED
    BY <1>0, <2>1, <2>3, RealKept
<1>8. ASSUME NEW o \in Faults, CommandSettles(o) PROVE RealInv'
  <2>. DEFINE e == call.run
              c == call.cmd
  <2>1. /\ call # Idle /\ call.phase = "run" /\ e \in Live /\ e \in RunIds /\ runs[e].cmd = c
        /\ c \in Commands /\ c.key \in Keys
    BY <1>8, CallFields, CommandFields DEF CommandSettles, Serving, ShapeInv, CallShape, Live
  <2>2. runs' = [runs EXCEPT ![e] = NoRun] /\ UNCHANGED effects
    BY <1>8 DEF CommandSettles
  <2>3. Live' = Live \ {e} /\ \A f \in Live' : runs'[f] = runs[f]
    BY <1>0, <2>1, <2>2 DEF Live
  <2>4. runs[e].ok => effects'[c.key] > 0
    BY <2>1, <2>2 DEF RealInv, EndedWellHappened
  <2>5. reply'.status = "failed" \/ (runs[e].ok /\ reply'.cmd = c)
    BY <1>8 DEF CommandSettles, Return
  <2>6. \A j \in Keys : \/ commandsFile'[j] \in {None, commandsFile[j]}
                        \/ effects'[j] > 0
    <3>1. CASE runs[e].ok /\ Cached(c)
      <4>1. Save(c.key, ResultOf(c), o)
        BY <1>8, <3>1 DEF CommandSettles
      <4>2. \A j \in Keys : commandsFile'[j] = commandsFile[j] \/ j = c.key
        BY <1>0, <2>1, <4>1, SaveWrites, ExecutorResults
      <4>. QED
        BY <2>4, <3>1, <4>2
    <3>2. CASE ~(runs[e].ok /\ Cached(c))
      BY <1>8, <3>2 DEF CommandSettles, storeVars
    <3>. QED
      BY <3>1, <3>2
  <2>7. \A f \in Live' : runs'[f].ok =>
          runs'[f].state = "done" /\ f \in Live /\ runs[f].ok /\ runs'[f].cmd = runs[f].cmd
    BY <2>3 DEF RealInv, EndedWellHappened
  <2>8. reply'.status = "failed" \/ effects'[reply'.cmd.key] > 0
    BY <2>4, <2>5
  <2>. QED
    BY <1>0, <2>2, <2>6, <2>7, <2>8, RealKept
<1>9. ASSUME NEW o \in Faults, CommandTimesOut(o) PROVE RealInv'
  <2>. DEFINE e == call.run
              c == call.cmd
  <2>1. c \in Commands /\ c.key \in Keys
    BY <1>9, CallFields, CommandFields DEF CommandTimesOut, Serving
  <2>2. Save(c.key, TimeoutResult, o) /\ reply'.status = "failed" /\ UNCHANGED effects
    BY <1>9 DEF CommandTimesOut, Return, hostVars
  <2>3. \A j \in Keys : commandsFile'[j] = commandsFile[j] \/ commandsFile'[j].status = "failed"
    <3>1. \A j \in Keys : \/ commandsFile'[j] = commandsFile[j]
                          \/ j = c.key /\ commandsFile'[j] \in {TimeoutResult, Tombstone}
      BY <1>0, <2>1, <2>2, SaveWrites, ExecutorResults
    <3>. QED
      BY <3>1 DEF Tombstone, TimeoutResult
  <2>4. \A f \in Live' : runs'[f].ok =>
          runs'[f].state = "done" /\ f \in Live /\ runs[f].ok /\ runs'[f].cmd = runs[f].cmd
    <3>1. runs' = [runs EXCEPT ![e].attached = FALSE] /\ e \in Live /\ runs[e] \in Run /\ e \in RunIds
      BY <1>9, RunFields DEF CommandTimesOut, Serving, ShapeInv, CallShape, Live
    <3>2. /\ Live' \subseteq Live
          /\ \A f \in Live : f # e => runs'[f] = runs[f]
          /\ runs'[e].cmd = runs[e].cmd /\ runs'[e].ok = runs[e].ok /\ runs'[e].state = runs[e].state
      BY <1>0, <3>1 DEF Live, Run
    <3>. QED
      BY <3>1, <3>2 DEF RealInv, EndedWellHappened
  <2>. QED
    BY <1>0, <2>2, <2>3, <2>4, RealKept
<1>10. CASE CommandCancelled
  <2>1. /\ runs' = [runs EXCEPT ![call.run].attached = FALSE] /\ call.run \in Live
        /\ runs[call.run] \in Run /\ call.run \in RunIds
    BY <1>10, RunFields DEF CommandCancelled, Serving, ShapeInv, CallShape, Live
  <2>2. /\ Live' \subseteq Live
        /\ \A f \in Live : f # call.run => runs'[f] = runs[f]
        /\ runs'[call.run].cmd = runs[call.run].cmd /\ runs'[call.run].ok = runs[call.run].ok
        /\ runs'[call.run].state = runs[call.run].state
    BY <1>0, <2>1 DEF Live, Run
  <2>3. UNCHANGED <<commandsFile, effects>> /\ reply'.status = "failed"
    BY <1>10 DEF CommandCancelled, Return, storeVars, hostVars
  <2>4. \A f \in Live' : /\ runs'[f].cmd = runs[f].cmd /\ runs'[f].state = runs[f].state
                         /\ runs'[f].ok => runs[f].ok
    BY <2>2
  <2>. QED
    BY <2>2, <2>3, <2>4, RealQuiet
<1>11. ASSUME NEW e \in RunIds, LateCompletion(e) PROVE RealInv'
  <2>1. UNCHANGED <<commandsFile, effects, reply>> /\ runs' = [runs EXCEPT ![e] = NoRun]
    BY <1>11 DEF LateCompletion, storeVars, hostVars
  <2>2. Live' \subseteq Live /\ \A f \in Live' : runs'[f] = runs[f]
    BY <1>0, <2>1 DEF Live
  <2>. QED
    BY <2>1, <2>2, RealQuiet
<1>12. CASE Restart
  <2>1. Live' = {} /\ UNCHANGED <<commandsFile, effects>> /\ reply' = NoReply
    BY <1>12 DEF Restart, NoRuns, Live
  <2>. QED
    BY <2>1, RealQuiet
<1>13. CASE (\E k \in Kinds : LateCount(k)) \/ Shutdown \/ UNCHANGED vars
  BY <1>1, <1>13 DEF LateCount, Shutdown, vars, storeVars, hostVars
<1>. QED
  BY <1>2, <1>3, <1>4, <1>5, <1>6, <1>7, <1>8, <1>9, <1>10, <1>11, <1>12, <1>13
  DEF Next, CallStep, RunStep
-----------------------------------------------------------------------------
(* A cached command has its effect once.                                    *)

\* What bars the key of a command that has had its effect from running again:
\* its record, its terminal timeout, the execution itself while it is alive,
\* or the daemon's end.
Spent(k) ==
    \/ commandsFile[k] # None
    \/ k \in timedOut
    \/ \E e \in Live : runs[e].cmd.key = k /\ runs[e].ok
    \/ cancelled /\ call = Idle

OnceFor(k) ==
    /\ effects[k] <= 1
    /\ effects[k] = 1 => Spent(k)
    /\ \A e \in Live : runs[e].cmd.key = k /\ ~runs[e].ok => effects[k] = 0

Watched(k) == ~drifted /\ k \notin unsaved /\ \E c \in Commands : c.key = k /\ Cached(c)

OnceInv ==
    /\ \A e \in Live : runs[e].state = "wiped" => drifted /\ runs[e].cmd.type = "reset"
    /\ \A k \in Keys : Watched(k) => OnceFor(k)

LEMMA OnceInit == Init => OnceInv
BY DEF Init, OnceInv, OnceFor, NoRuns, Live

\* A key that is watched after a step was watched before it.
LEMMA WatchedBefore ==
    ASSUME drifted => drifted', unsaved \subseteq unsaved', NEW k, Watched(k)'
    PROVE  Watched(k)
BY DEF Watched, Cached

\* No effect, and every execution that ended well and is gone now left a bar
\* behind.
LEMMA OnceKept ==
    ASSUME ExecTypeOK, OnceInv, drifted => drifted', unsaved \subseteq unsaved',
           UNCHANGED effects, timedOut \subseteq timedOut',
           \A k \in Keys : commandsFile[k] # None => commandsFile'[k] # None,
           cancelled /\ call = Idle => cancelled' /\ call' = Idle,
           \A e \in Live' : /\ e \in Live /\ runs'[e].cmd = runs[e].cmd
                            /\ runs'[e].ok = runs[e].ok
                            /\ runs'[e].state = "wiped" => runs[e].state = "wiped",
           \A e \in Live, k \in Keys : runs[e].ok /\ runs[e].cmd.key = k /\ Watched(k)' =>
                \/ e \in Live'
                \/ commandsFile'[k] # None
                \/ k \in timedOut'
                \/ cancelled' /\ call' = Idle
    PROVE  OnceInv'
<1>1. \A e \in Live' : runs'[e].state = "wiped" => drifted' /\ runs'[e].cmd.type = "reset"
  BY DEF OnceInv
<1>2. ASSUME NEW k \in Keys, Watched(k)' PROVE OnceFor(k)'
  <2>1. OnceFor(k)
    BY <1>2, WatchedBefore DEF OnceInv
  <2>2. Spent(k) => Spent(k)'
    BY <1>2 DEF Spent
  <2>3. \A e \in Live' : runs'[e].cmd.key = k /\ ~runs'[e].ok => effects'[k] = 0
    BY <2>1 DEF OnceFor
  <2>. QED
    BY <2>1, <2>2, <2>3 DEF OnceFor
<1>. QED
  BY <1>1, <1>2 DEF OnceInv

\* The executions, the file and the effects stay as they are.
LEMMA OnceQuiet ==
    ASSUME ExecTypeOK, OnceInv,
           UNCHANGED <<runs, commandsFile, effects, drifted, unsaved, timedOut>>,
           cancelled /\ call = Idle => cancelled' /\ call' = Idle
    PROVE  OnceInv'
<1>1. Live' = Live
  BY DEF Live
<1>. QED
  BY <1>1, OnceKept

\* A restart and a reset leave drifted behind.
LEMMA DriftStays ==
    ASSUME OnceInv,
           Restart \/ \E e \in RunIds : ResetSites(e) \/ \E o \in Faults : ResetResults(e, o)
    PROVE  drifted'
<1>1. CASE Restart \/ \E e \in RunIds : ResetSites(e)
  BY <1>1 DEF Restart, ResetSites
<1>2. ASSUME NEW e \in RunIds, NEW o \in Faults, ResetResults(e, o) PROVE drifted'
  <2>1. drifted
    BY <1>2 DEF ResetResults, OnceInv
  <2>. QED
    BY <1>2, <2>1 DEF ResetResults
<1>. QED
  BY <1>1, <1>2

\* The call in progress takes the outcome of its execution, which ends.
LEMMA SettleEnds ==
    ASSUME ExecTypeOK, ShapeInv, NEW o \in Faults, CommandSettles(o)
    PROVE  /\ call.run \in Live /\ finishAdmission(runs[call.run])
           /\ Live' = Live \ {call.run} /\ \A f \in Live' : runs'[f] = runs[f]
BY DEF CommandSettles, Serving, ShapeInv, CallShape, ExecTypeOK, ServeTypeOK, Live

LEMMA OnceStep ==
    ASSUME ExecTypeOK, ShapeInv, RealInv, OnceInv, [Next]_vars
    PROVE  OnceInv'
<1>0. /\ Faults \subseteq Outcomes
      /\ StoreTypeOK /\ StoreMirrorsFile /\ effects \in [Keys -> Nat]
      /\ runs \in [RunIds -> Run \cup {NoRun}]
  BY ExecutorAssumption DEF ExecTypeOK, StoreOK, HostTypeOK, ServeTypeOK
<1>1. ASSUME NEW c \in Commands, Refuse(c) \/ Replay(c) \/ Proceed(c) PROVE OnceInv'
  BY <1>1, OnceQuiet DEF Refuse, Replay, Proceed, Return, storeVars, hostVars, procVars
<1>2. CASE AcquireOperation \/ AcquireCancelled \/ AdmissionRejected
  BY <1>2, OnceQuiet
  DEF AcquireOperation, AcquireCancelled, AdmissionRejected, Serving, Return, storeVars, hostVars, procVars
<1>3. CASE Launch
  <2>1. UNCHANGED <<commandsFile, effects, drifted, unsaved, timedOut, cancelled>> /\ Waiting
    BY <1>3 DEF Launch, storeVars, hostVars, procVars, Serving, Waiting
  <2>2. /\ Live' = Live \cup {launched + 1} /\ \A f \in Live : runs'[f] = runs[f]
        /\ launched + 1 \in RunIds
    BY <1>3, LaunchRuns DEF ShapeInv
  <2>3. runs'[launched + 1] = [cmd |-> call.cmd, state |-> "running", ok |-> FALSE,
                               attached |-> TRUE, admission |-> AdmissionFor(call.cmd.site)]
    BY <1>0, <1>3, <2>2 DEF Launch
  <2>4. \A e \in Live' : runs'[e].state = "wiped" => drifted' /\ runs'[e].cmd.type = "reset"
    BY <2>1, <2>2, <2>3 DEF OnceInv
  <2>5. ASSUME NEW k \in Keys, Watched(k)' PROVE OnceFor(k)'
    <3>1. Watched(k) /\ OnceFor(k)
      BY <2>1, <2>5, WatchedBefore DEF OnceInv
    <3>2. CASE call.cmd.key = k
      <4>1. Cached(call.cmd) /\ call.cmd \in Commands
        BY <2>1, <3>1, <3>2, OneTypePerKey, CallFields DEF Watched, Cached, Waiting
      <4>2. commandsFile[k] = None /\ k \notin timedOut
        BY <2>1, <3>2, <4>1 DEF ShapeInv, CallShape
      <4>3. \A e \in Live : runs[e].cmd.key # k
        BY <2>1, <4>2 DEF ShapeInv, LateBarred, CallShape, Waiting
      <4>4. ~Spent(k)
        BY <2>1, <4>2, <4>3 DEF Spent, Waiting
      <4>5. effects[k] = 0
        BY <1>0, <3>1, <4>4 DEF OnceFor
      <4>. QED
        BY <2>1, <4>5 DEF OnceFor
    <3>3. CASE call.cmd.key # k
      <4>1. Spent(k) => Spent(k)'
        BY <2>1, <2>2 DEF Spent, Waiting
      <4>2. \A e \in Live' : runs'[e].cmd.key = k /\ ~runs'[e].ok => effects'[k] = 0
        BY <2>1, <2>2, <2>3, <3>1, <3>3 DEF OnceFor
      <4>. QED
        BY <2>1, <3>1, <4>1, <4>2 DEF OnceFor
    <3>. QED
      BY <3>2, <3>3
  <2>. QED
    BY <2>4, <2>5 DEF OnceInv
<1>4. ASSUME NEW e \in RunIds, RunSucceeds(e) PROVE OnceInv'
  <2>. DEFINE j == runs[e].cmd.key
  <2>1. /\ UNCHANGED <<commandsFile, drifted, unsaved, timedOut, cancelled, call>>
        /\ effects' = [effects EXCEPT ![j] = effects[j] + 1]
    BY <1>4 DEF RunSucceeds, storeVars, procVars
  <2>2. /\ e \in Live /\ Live' = Live /\ runs'[e].cmd = runs[e].cmd
        /\ runs'[e].ok /\ runs'[e].state = "done" /\ j \in Keys
        /\ \A f \in Live : f # e => runs'[f] = runs[f]
    BY <1>4, RunEnds, CommandFields DEF Run
  <2>3. ~runs[e].ok
    BY <1>4, <2>2 DEF RealInv, EndedWellHappened, RunSucceeds
  <2>4. \A f \in Live' : runs'[f].state = "wiped" => drifted' /\ runs'[f].cmd.type = "reset"
    BY <2>1, <2>2 DEF OnceInv
  <2>5. ASSUME NEW k \in Keys, Watched(k)' PROVE OnceFor(k)'
    <3>1. OnceFor(k)
      BY <2>1, <2>5, WatchedBefore DEF OnceInv
    <3>2. CASE k = j
      <4>1. effects[k] = 0 /\ effects'[k] = 1
        BY <1>0, <2>1, <2>2, <2>3, <3>1, <3>2 DEF OnceFor
      <4>2. Spent(k)'
        BY <2>2, <3>2 DEF Spent
      <4>3. \A f \in Live' : runs'[f].cmd.key = k => f = e
        BY <2>2, <3>2 DEF ShapeInv, NoOverlappingCopies
      <4>. QED
        BY <2>2, <4>1, <4>2, <4>3 DEF OnceFor
    <3>3. CASE k # j
      <4>1. effects'[k] = effects[k]
        BY <1>0, <2>1, <3>3
      <4>2. Spent(k) => Spent(k)'
        BY <2>1, <2>2, <3>3 DEF Spent
      <4>3. \A f \in Live' : runs'[f].cmd.key = k /\ ~runs'[f].ok => effects'[k] = 0
        BY <2>2, <3>1, <3>3, <4>1 DEF OnceFor
      <4>. QED
        BY <3>1, <4>1, <4>2, <4>3 DEF OnceFor
    <3>. QED
      BY <3>2, <3>3
  <2>. QED
    BY <2>4, <2>5 DEF OnceInv
<1>5. ASSUME NEW e \in RunIds, RunFails(e) PROVE OnceInv'
  <2>1. UNCHANGED <<commandsFile, effects, drifted, unsaved, timedOut, cancelled, call>>
    BY <1>5 DEF RunFails, storeVars, hostVars, procVars
  <2>2. /\ e \in Live /\ Live' = Live /\ runs'[e].cmd = runs[e].cmd
        /\ runs'[e].ok = runs[e].ok /\ runs'[e].state = "done"
        /\ \A f \in Live : f # e => runs'[f] = runs[f]
    BY <1>5, RunEnds
  <2>3. \A f \in Live' : /\ f \in Live /\ runs'[f].cmd = runs[f].cmd /\ runs'[f].ok = runs[f].ok
                         /\ runs'[f].state = "wiped" => runs[f].state = "wiped"
    BY <2>2
  <2>. QED
    BY <2>1, <2>2, <2>3, OnceKept
<1>6. CASE Restart \/ \E e \in RunIds : ResetSites(e) \/ \E o \in Faults : ResetResults(e, o)
  <2>1. drifted'
    BY <1>6, DriftStays
  <2>2. \A e \in Live' : runs'[e].state = "wiped" => runs'[e].cmd.type = "reset"
    <3>1. CASE Restart
      BY <3>1 DEF Restart, NoRuns, Live
    <3>2. ASSUME NEW e \in RunIds, ResetSites(e) \/ \E o \in Faults : ResetResults(e, o)
          PROVE  \A f \in Live' : runs'[f].state = "wiped" => runs'[f].cmd.type = "reset"
      <4>1. /\ e \in Live /\ Live' = Live /\ runs'[e].cmd = runs[e].cmd
            /\ \A f \in Live : f # e => runs'[f] = runs[f]
        BY <3>2, RunEnds
      <4>2. runs[e].cmd.type = "reset"
        BY <3>2 DEF ResetSites, ResetResults, OnceInv
      <4>. QED
        BY <4>1, <4>2 DEF OnceInv
    <3>. QED
      BY <1>6, <3>1, <3>2
  <2>. QED
    BY <2>1, <2>2 DEF OnceInv, Watched
<1>7. ASSUME NEW o \in Faults, CommandSettles(o) PROVE OnceInv'
  <2>. DEFINE e == call.run
              c == call.cmd
  <2>1. /\ call # Idle /\ call.phase = "run" /\ e \in Live /\ e \in RunIds /\ runs[e].cmd = c
        /\ c \in Commands /\ c.key \in Keys
    BY <1>7, CallFields, CommandFields DEF CommandSettles, Serving, ShapeInv, CallShape, Live
  <2>2. /\ runs' = [runs EXCEPT ![e] = NoRun]
        /\ UNCHANGED <<effects, drifted, timedOut>> /\ unsaved \subseteq unsaved'
    BY <1>7 DEF CommandSettles
  <2>3. Live' = Live \ {e} /\ \A f \in Live' : runs'[f] = runs[f]
    BY <1>0, <2>1, <2>2 DEF Live
  <2>4. runs[e].ok /\ Cached(c) => Save(c.key, ResultOf(c), o)
    BY <1>7 DEF CommandSettles
  <2>5. ~(runs[e].ok /\ Cached(c)) => UNCHANGED commandsFile
    BY <1>7 DEF CommandSettles, storeVars
  <2>6. ResultOf(c) # None /\ Tombstone # None
    BY <2>1, ExecutorResults, SavedAreResults, NoneIsNoResult
  <2>7. \A k \in Keys : commandsFile[k] # None => commandsFile'[k] # None
    BY <1>0, <2>1, <2>4, <2>5, <2>6, SaveWrites, ExecutorResults
  <2>8. ASSUME NEW k \in Keys, k = c.key, runs[e].ok, Watched(k)' PROVE commandsFile'[k] # None
    <3>1. Cached(c)
      BY <2>1, <2>8, OneTypePerKey DEF Watched, Cached
    <3>2. o # "failed" /\ ~TooLargeAlone(ResultOf(c))
      BY <1>7, <2>8 DEF CommandSettles, Watched
    <3>. QED
      BY <1>0, <2>1, <2>4, <2>6, <2>8, <3>1, <3>2, SaveWrites, ExecutorResults
  <2>9. \A f \in Live, k \in Keys : runs[f].ok /\ runs[f].cmd.key = k /\ Watched(k)' =>
                f \in Live' \/ commandsFile'[k] # None
    BY <2>1, <2>3, <2>8
  <2>. QED
    BY <2>1, <2>2, <2>3, <2>7, <2>9, OnceKept
<1>8. ASSUME NEW o \in Faults, CommandTimesOut(o) PROVE OnceInv'
  <2>. DEFINE c == call.cmd
  <2>1. c \in Commands /\ c.key \in Keys /\ call # Idle
    BY <1>8, CallFields, CommandFields DEF CommandTimesOut, Serving
  <2>2. /\ Save(c.key, TimeoutResult, o) /\ UNCHANGED <<effects, drifted, unsaved>>
        /\ timedOut \subseteq timedOut' /\ runs' = [runs EXCEPT ![call.run].attached = FALSE]
    BY <1>8 DEF CommandTimesOut, hostVars
  <2>3. TimeoutResult # None /\ Tombstone # None
    BY <2>1, ExecutorResults, SavedAreResults, NoneIsNoResult
  <2>4. \A k \in Keys : commandsFile[k] # None => commandsFile'[k] # None
    BY <1>0, <2>1, <2>2, <2>3, SaveWrites, ExecutorResults
  <2>5. call.run \in Live
    BY <1>8 DEF CommandTimesOut, Serving, ShapeInv, CallShape
  <2>6. /\ Live' = Live /\ \A f \in Live : /\ runs'[f].cmd = runs[f].cmd
                                           /\ runs'[f].ok = runs[f].ok
                                           /\ runs'[f].state = runs[f].state
    BY <2>2, <2>5, Detached
  <2>. QED
    BY <2>1, <2>2, <2>4, <2>6, OnceKept
<1>9. CASE CommandCancelled
  <2>1. /\ UNCHANGED <<commandsFile, effects, drifted, unsaved, timedOut, cancelled>>
        /\ runs' = [runs EXCEPT ![call.run].attached = FALSE] /\ call # Idle
    BY <1>9 DEF CommandCancelled, Serving, storeVars, hostVars, procVars
  <2>2. call.run \in Live
    BY <1>9 DEF CommandCancelled, Serving, ShapeInv, CallShape
  <2>3. /\ Live' = Live /\ \A f \in Live : /\ runs'[f].cmd = runs[f].cmd
                                           /\ runs'[f].ok = runs[f].ok
                                           /\ runs'[f].state = runs[f].state
    BY <2>1, <2>2, Detached
  <2>. QED
    BY <2>1, <2>3, OnceKept
<1>10. ASSUME NEW e \in RunIds, LateCompletion(e) PROVE OnceInv'
  <2>1. /\ UNCHANGED <<commandsFile, effects, drifted, unsaved, timedOut, cancelled, call>>
        /\ runs' = [runs EXCEPT ![e] = NoRun] /\ e \in Live /\ ~runs[e].attached
    BY <1>10 DEF LateCompletion, storeVars, hostVars, procVars
  <2>2. Live' = Live \ {e} /\ \A f \in Live' : runs'[f] = runs[f]
    BY <1>0, <2>1 DEF Live
  <2>3. runs[e].cmd.key \in timedOut \/ (cancelled /\ call = Idle)
    BY <2>1 DEF ShapeInv, LateBarred
  <2>. QED
    BY <2>1, <2>2, <2>3, OnceKept
<1>11. CASE (\E k \in Kinds : LateCount(k)) \/ Shutdown \/ UNCHANGED vars
  BY <1>11, OnceQuiet DEF LateCount, Shutdown, vars, storeVars, hostVars, procVars
<1>. QED
  BY <1>1, <1>2, <1>3, <1>4, <1>5, <1>6, <1>7, <1>8, <1>9, <1>10, <1>11
  DEF Next, CallStep, RunStep
-----------------------------------------------------------------------------
(* The reservations follow the host.                                        *)

\* What a live mutating execution means for its site: before it has ended
\* well the host still runs what the admission would roll back to, afterwards
\* what the admission will leave.
Pending(e) ==
    LET c == runs[e].cmd
        s == c.site
    IN  /\ Reserving(c) => /\ reservations[s] = c.need
                           /\ host[s] = IF runs[e].ok THEN c.need
                                        ELSE runs[e].admission.previous
        /\ c.type = "delete" /\ runs[e].ok => host[s] = NoReservation
        /\ c.type = "mutate" \/ (c.type = "delete" /\ ~runs[e].ok)
              => reservations[s] = host[s]

TrackInv ==
    ~drifted => /\ \A e \in Live : Fenced(runs[e].cmd) => Pending(e)
                /\ \A s \in Sites : HasMutator(s) \/ reservations[s] = host[s]

LEMMA TrackInit == Init => TrackInv
<1>. SUFFICES ASSUME Init PROVE TrackInv
  OBVIOUS
<1>1. Live = {}
  BY DEF Init, NoRuns, Live
<1>2. reservations = host
  BY DEF Init, CapacityInit
<1>. QED
  BY <1>1, <1>2 DEF TrackInv

\* Neither the reservations nor the host change, nor what the executions are.
LEMMA TrackKept ==
    ASSUME TrackInv, UNCHANGED <<reservations, host, drifted>>, Live' = Live,
           \A e \in Live : /\ runs'[e].cmd = runs[e].cmd /\ runs'[e].ok = runs[e].ok
                           /\ runs'[e].admission = runs[e].admission
    PROVE  TrackInv'
<1>. SUFFICES ASSUME ~drifted
              PROVE  /\ \A e \in Live : Fenced(runs'[e].cmd) => Pending(e)'
                     /\ \A s \in Sites : HasMutator(s)' \/ reservations'[s] = host'[s]
  BY DEF TrackInv, Fenced
<1>1. \A e \in Live : Fenced(runs'[e].cmd) => Pending(e)'
  BY DEF TrackInv, Pending, Fenced, Reserving
<1>2. \A s \in Sites : HasMutator(s) => HasMutator(s)'
  BY DEF HasMutator, Fenced
<1>. QED
  BY <1>1, <1>2 DEF TrackInv

\* A new execution e of command c: its plan is reserved, the host is as it was.
LEMMA TrackStarts ==
    ASSUME ExecTypeOK, FenceInv, TrackInv, NEW c \in Commands, NEW e \in RunIds,
           BeginAdmission(c), Live' = Live \cup {e}, UNCHANGED <<host, drifted>>,
           \A f \in Live : runs'[f] = runs[f], e \notin Live,
           runs'[e].cmd = c, ~runs'[e].ok, runs'[e].admission = AdmissionFor(c.site)
    PROVE  TrackInv'
<1>. SUFFICES ASSUME ~drifted
              PROVE  /\ \A f \in Live' : Fenced(runs'[f].cmd) => Pending(f)'
                     /\ \A s \in Sites : HasMutator(s)' \/ reservations'[s] = host'[s]
  BY DEF TrackInv, Fenced
<1>. DEFINE s == c.site
<1>0. s \in Sites /\ reservations \in [Sites -> Resources \cup {NoReservation}]
      /\ siteFences \in [Sites -> Nat] /\ generations \in [Sites -> Nat]
  BY CommandFields DEF ExecTypeOK, SiteTypeOK
<1>1. \A f \in Live : Fenced(c) /\ Fenced(runs[f].cmd) => runs[f].cmd.site # s
  <2>. SUFFICES ASSUME NEW f \in Live, Fenced(c), Fenced(runs[f].cmd), runs[f].cmd.site = s
                PROVE  FALSE
    OBVIOUS
  <2>1. siteFences[s] = 0
    BY DEF BeginAdmission, BeginSite, BeginCommand, Unfenced
  <2>2. siteFences[s] = generations[s] /\ generations[s] > 0
    BY DEF FenceInv, FenceHeld
  <2>. QED
    BY <1>0, <2>1, <2>2
<1>2. /\ \A t \in Sites : t # s => reservations'[t] = reservations[t]
      /\ Reserving(c) => reservations'[s] = c.need
      /\ ~Reserving(c) => reservations' = reservations
  BY <1>0 DEF BeginAdmission, BeginSite, BeginCommand, siteVars, Reserving, Fenced
<1>3. Fenced(c) => reservations[s] = host[s]
  BY <1>0, <1>1 DEF TrackInv, HasMutator
<1>4. ASSUME NEW f \in Live', Fenced(runs'[f].cmd) PROVE Pending(f)'
  <2>1. CASE f = e
    BY <1>2, <1>3, <1>4, <2>1 DEF Pending, Reserving, Fenced, AdmissionFor
  <2>2. CASE f # e
    <3>1. f \in Live /\ runs'[f] = runs[f] /\ Fenced(runs[f].cmd) /\ runs[f].cmd.site \in Sites
      BY <1>4, <2>2, RunFields, CommandFields DEF Fenced, Live
    <3>2. reservations'[runs[f].cmd.site] = reservations[runs[f].cmd.site]
      BY <1>1, <1>2, <3>1 DEF Reserving, Fenced
    <3>3. Pending(f)
      BY <3>1 DEF TrackInv
    <3>. QED
      BY <3>1, <3>2, <3>3 DEF Pending, Reserving
  <2>. QED
    BY <2>1, <2>2
<1>5. ASSUME NEW t \in Sites PROVE HasMutator(t)' \/ reservations'[t] = host'[t]
  <2>1. CASE Fenced(c) /\ t = s
    BY <2>1 DEF HasMutator, Fenced
  <2>2. CASE ~(Fenced(c) /\ t = s)
    <3>1. reservations'[t] = reservations[t]
      BY <1>2, <2>2 DEF Reserving, Fenced
    <3>2. HasMutator(t) => HasMutator(t)'
      BY DEF HasMutator, Fenced
    <3>. QED
      BY <3>1, <3>2 DEF TrackInv
  <2>. QED
    BY <2>1, <2>2
<1>. QED
  BY <1>4, <1>5

\* Execution e has its effect on the host.
LEMMA TrackSucceeds ==
    ASSUME ExecTypeOK, FenceInv, RealInv, TrackInv, NEW e \in RunIds, RunSucceeds(e)
    PROVE  TrackInv'
<1>. DEFINE c == runs[e].cmd
            s == c.site
<1>1. /\ e \in Live /\ Live' = Live /\ runs'[e].cmd = c /\ runs'[e].ok
      /\ runs'[e].admission = runs[e].admission
      /\ \A f \in Live : f # e => runs'[f] = runs[f]
  BY RunEnds
<1>2. UNCHANGED <<reservations, drifted>> /\ host' = HostAfter(c)
  BY DEF RunSucceeds, capacityVars
<1>3. ~runs[e].ok
  BY <1>1 DEF RealInv, EndedWellHappened, RunSucceeds
<1>4. c \in Commands /\ s \in Sites /\ host \in [Sites -> Resources \cup {NoReservation}]
  BY <1>1, RunFields, CommandFields DEF ExecTypeOK, HostTypeOK
<1>5. /\ \A t \in Sites : t # s \/ ~Fenced(c) => host'[t] = host[t]
      /\ Reserving(c) => host'[s] = c.need
      /\ c.type = "delete" => host'[s] = NoReservation
      /\ ~Reserving(c) /\ c.type # "delete" => host' = host
  BY <1>2, <1>4 DEF HostAfter, Reserving, Fenced
<1>. SUFFICES ASSUME ~drifted
              PROVE  /\ \A f \in Live : Fenced(runs'[f].cmd) => Pending(f)'
                     /\ \A t \in Sites : HasMutator(t)' \/ reservations'[t] = host'[t]
  BY <1>1, <1>2 DEF TrackInv, Fenced
<1>6. ASSUME NEW f \in Live, Fenced(runs'[f].cmd) PROVE Pending(f)'
  <2>1. CASE f = e
    <3>1. Pending(e) /\ Fenced(c)
      BY <1>1, <1>6, <2>1 DEF TrackInv, Fenced
    <3>. QED
      BY <1>1, <1>2, <1>3, <1>5, <2>1, <3>1 DEF Pending, Reserving, Fenced
  <2>2. CASE f # e
    <3>1. runs'[f] = runs[f] /\ Fenced(runs[f].cmd) /\ runs[f].cmd.site \in Sites
      BY <1>1, <1>6, <2>2, RunFields, CommandFields DEF Fenced, Live
    <3>2. Fenced(c) => runs[f].cmd.site # s
      BY <1>1, <2>2, <3>1 DEF FenceInv, OneMutatorPerSite
    <3>3. host'[runs[f].cmd.site] = host[runs[f].cmd.site]
      BY <1>5, <3>1, <3>2
    <3>4. Pending(f)
      BY <3>1 DEF TrackInv
    <3>. QED
      BY <1>2, <3>1, <3>3, <3>4 DEF Pending, Reserving
  <2>. QED
    BY <2>1, <2>2
<1>7. ASSUME NEW t \in Sites PROVE HasMutator(t)' \/ reservations'[t] = host'[t]
  <2>1. HasMutator(t) => HasMutator(t)'
    BY <1>1 DEF HasMutator, Fenced
  <2>2. ~HasMutator(t) => host'[t] = host[t]
    BY <1>1, <1>5 DEF HasMutator
  <2>. QED
    BY <1>2, <2>1, <2>2 DEF TrackInv
<1>. QED
  BY <1>6, <1>7

\* Execution e ends and settles its admission: what is reserved is what the
\* host runs.
LEMMA TrackEnds ==
    ASSUME ExecTypeOK, FenceInv, TrackInv, NEW e \in Live, finishAdmission(runs[e]),
           UNCHANGED <<host, drifted>>,
           Live' = Live \ {e}, \A f \in Live' : runs'[f] = runs[f]
    PROVE  TrackInv'
<1>. DEFINE c == runs[e].cmd
            s == c.site
<1>0. /\ c \in Commands /\ s \in Sites /\ runs[e].ok \in BOOLEAN
      /\ reservations \in [Sites -> Resources \cup {NoReservation}]
  BY RunFields, CommandFields DEF ExecTypeOK, SiteTypeOK, Live
<1>. SUFFICES ASSUME ~drifted
              PROVE  /\ \A f \in Live' : Fenced(runs'[f].cmd) => Pending(f)'
                     /\ \A t \in Sites : HasMutator(t)' \/ reservations'[t] = host'[t]
  BY DEF TrackInv, Fenced
<1>1. ASSUME Fenced(c) PROVE /\ reservations'[s] = host[s]
                             /\ \A t \in Sites : t # s => reservations'[t] = reservations[t]
  <2>1. Pending(e)
    BY <1>1 DEF TrackInv
  <2>2. runs[e].admission.site = s /\ runs[e].admission.generation = generations[s]
    BY <1>1 DEF FenceInv, FenceHeld
  <2>3. CASE Reserving(c)
    <3>1. FinishSite(runs[e].admission, runs[e].ok)
      BY <2>3 DEF finishAdmission, Reserving, Fenced
    <3>2. reservations' = IF runs[e].ok THEN reservations
                          ELSE [reservations EXCEPT ![s] = runs[e].admission.previous]
      BY <2>2, <3>1 DEF FinishSite
    <3>. QED
      BY <1>0, <2>1, <2>3, <3>2 DEF Pending
  <2>4. CASE c.type = "delete" /\ runs[e].ok
    <3>1. ReleaseSite(s)
      BY <2>4 DEF finishAdmission, Reserving, Fenced
    <3>. QED
      BY <1>0, <2>1, <2>4, <3>1 DEF Pending, ReleaseSite
  <2>5. CASE c.type = "mutate" \/ (c.type = "delete" /\ ~runs[e].ok)
    <3>1. FinishCommand(runs[e].admission)
      BY <2>5 DEF finishAdmission, Reserving, Fenced
    <3>. QED
      BY <2>1, <2>5, <3>1 DEF Pending, FinishCommand
  <2>. QED
    BY <1>0, <1>1, <2>3, <2>4, <2>5 DEF Fenced, Reserving
<1>2. ~Fenced(c) => UNCHANGED reservations
  BY DEF finishAdmission, Reserving, Fenced, siteVars
<1>3. \A f \in Live' : f \in Live /\ runs'[f] = runs[f] /\ runs[f].cmd.site \in Sites
                       /\ (Fenced(c) /\ Fenced(runs[f].cmd) => runs[f].cmd.site # s)
  BY RunFields, CommandFields DEF Live, FenceInv, OneMutatorPerSite
<1>4. ASSUME NEW f \in Live', Fenced(runs'[f].cmd) PROVE Pending(f)'
  <2>1. Fenced(runs[f].cmd) /\ reservations'[runs[f].cmd.site] = reservations[runs[f].cmd.site]
    BY <1>1, <1>2, <1>3, <1>4 DEF Fenced
  <2>2. Pending(f)
    BY <1>3, <2>1 DEF TrackInv
  <2>. QED
    BY <1>3, <2>1, <2>2 DEF Pending, Reserving
<1>5. ASSUME NEW t \in Sites PROVE HasMutator(t)' \/ reservations'[t] = host'[t]
  <2>1. CASE Fenced(c) /\ t = s
    BY <1>1, <2>1
  <2>2. CASE ~(Fenced(c) /\ t = s)
    <3>1. reservations'[t] = reservations[t]
      BY <1>1, <1>2, <2>2
    <3>2. HasMutator(t) => HasMutator(t)'
      BY <2>2 DEF HasMutator, Fenced
    <3>. QED
      BY <3>1, <3>2 DEF TrackInv
  <2>. QED
    BY <2>1, <2>2
<1>. QED
  BY <1>4, <1>5

LEMMA TrackStep ==
    ASSUME ExecTypeOK, ShapeInv, FenceInv, RealInv, OnceInv, TrackInv, [Next]_vars
    PROVE  TrackInv'
<1>1. CASE Launch
  <2>1. /\ call.cmd \in Commands /\ BeginAdmission(call.cmd) /\ UNCHANGED <<host, drifted>>
    BY <1>1, CallFields DEF Launch, Serving, hostVars
  <2>2. /\ launched + 1 \in RunIds /\ launched + 1 \notin Live
        /\ Live' = Live \cup {launched + 1}
        /\ \A f \in Live : runs'[f] = runs[f]
    BY <1>1, LaunchRuns DEF ShapeInv
  <2>3. runs'[launched + 1] = [cmd |-> call.cmd, state |-> "running", ok |-> FALSE,
                               attached |-> TRUE, admission |-> AdmissionFor(call.cmd.site)]
    BY <1>1, <2>2 DEF Launch, ExecTypeOK, ServeTypeOK
  <2>4. /\ runs'[launched + 1].cmd = call.cmd /\ ~runs'[launched + 1].ok
        /\ runs'[launched + 1].admission = AdmissionFor(call.cmd.site)
    BY <2>3
  <2>. QED
    BY <2>1, <2>2, <2>4, TrackStarts
<1>2. CASE \E e \in RunIds : RunSucceeds(e)
  BY <1>2, TrackSucceeds
<1>3. CASE Restart \/ \E e \in RunIds : ResetSites(e) \/ \E o \in Faults : ResetResults(e, o)
  BY <1>3, DriftStays DEF TrackInv
<1>4. ASSUME NEW e \in RunIds, RunFails(e) PROVE TrackInv'
  <2>1. UNCHANGED <<reservations, host, drifted>>
    BY <1>4 DEF RunFails, capacityVars, hostVars
  <2>2. Live' = Live /\ \A f \in Live : /\ runs'[f].cmd = runs[f].cmd /\ runs'[f].ok = runs[f].ok
                                        /\ runs'[f].admission = runs[f].admission
    BY <1>4, RunEnds
  <2>. QED
    BY <2>1, <2>2, TrackKept
<1>5. CASE CommandCancelled \/ \E o \in Faults : CommandTimesOut(o)
  <2>1. /\ UNCHANGED <<reservations, host, drifted>>
        /\ runs' = [runs EXCEPT ![call.run].attached = FALSE] /\ call.run \in Live
    BY <1>5 DEF CommandCancelled, CommandTimesOut, Serving, ShapeInv, CallShape,
                capacityVars, hostVars
  <2>. QED
    BY <2>1, Detached, TrackKept
<1>6. ASSUME NEW o \in Faults, CommandSettles(o) PROVE TrackInv'
  <2>1. UNCHANGED <<host, drifted>>
    BY <1>6 DEF CommandSettles
  <2>. QED
    BY <1>6, <2>1, SettleEnds, TrackEnds
<1>7. ASSUME NEW e \in RunIds, LateCompletion(e) PROVE TrackInv'
  <2>1. /\ UNCHANGED <<host, drifted>> /\ runs' = [runs EXCEPT ![e] = NoRun] /\ e \in Live
        /\ finishAdmission(runs[e])
    BY <1>7 DEF LateCompletion, hostVars
  <2>2. Live' = Live \ {e} /\ \A f \in Live' : runs'[f] = runs[f]
    BY <2>1 DEF Live, ExecTypeOK, ServeTypeOK
  <2>. QED
    BY <2>1, <2>2, TrackEnds
<1>8. CASE \/ \E c \in Commands : Refuse(c) \/ Replay(c) \/ Proceed(c)
           \/ AcquireOperation \/ AcquireCancelled \/ AdmissionRejected
           \/ \E k \in Kinds : LateCount(k)
           \/ Shutdown \/ UNCHANGED vars
  <2>1. UNCHANGED <<runs, host, drifted>>
    BY <1>8 DEF Refuse, Replay, Proceed, AcquireOperation, AcquireCancelled,
                AdmissionRejected, LateCount, Shutdown, vars, hostVars
  <2>2. UNCHANGED reservations
    BY <1>8, CapacityParts
    DEF Refuse, Replay, Proceed, AcquireOperation, AcquireCancelled,
        AdmissionRejected, LateCount, Shutdown, vars, siteVars
  <2>3. Live' = Live
    BY <2>1 DEF Live
  <2>. QED
    BY <2>1, <2>2, <2>3, TrackKept
<1>. QED
  BY <1>1, <1>2, <1>3, <1>4, <1>5, <1>6, <1>7, <1>8 DEF Next, CallStep, RunStep
-----------------------------------------------------------------------------
(* The executor implements the contract.                                    *)

\* The one execution alive for a key is what the contract sees of it.
LEMMA AliveOne ==
    ASSUME NEW rs, NEW e \in RunIds, NEW k, rs[e] # NoRun, rs[e].cmd.key = k,
           \A f \in RunIds : rs[f] # NoRun /\ rs[f].cmd.key = k => f = e
    PROVE  AliveOf(rs, k) = IF rs[e].state # "done" THEN "running"
                            ELSE IF rs[e].ok THEN "ok" ELSE "err"
<1>. DEFINE mine == {f \in RunIds : rs[f] # NoRun /\ rs[f].cmd.key = k}
<1>1. mine = {e}
  OBVIOUS
<1>2. (CHOOSE f \in mine : TRUE) = e
  BY <1>1
<1>3. mine # {}
  BY <1>1
<1>. HIDE DEF mine
<1>. QED
  BY <1>2, <1>3 DEF AliveOf, mine

LEMMA AliveNone ==
    ASSUME NEW rs, NEW k, \A f \in RunIds : rs[f] # NoRun => rs[f].cmd.key # k
    PROVE  AliveOf(rs, k) = "no"
BY DEF AliveOf

\* The executions of a key stay as they are, as far as the contract sees them.
LEMMA AliveSame ==
    ASSUME NEW rs, NEW qs, NEW k,
           \A f \in RunIds : rs[f] # NoRun /\ rs[f].cmd.key = k
                             <=> qs[f] # NoRun /\ qs[f].cmd.key = k,
           \A f \in RunIds : rs[f] # NoRun /\ rs[f].cmd.key = k =>
                /\ qs[f].state = rs[f].state
                /\ qs[f].ok = rs[f].ok
    PROVE  AliveOf(qs, k) = AliveOf(rs, k)
<1>. DEFINE mine == {f \in RunIds : rs[f] # NoRun /\ rs[f].cmd.key = k}
            theirs == {f \in RunIds : qs[f] # NoRun /\ qs[f].cmd.key = k}
<1>1. theirs = mine
  OBVIOUS
<1>2. CASE mine = {}
  BY <1>1, <1>2, AliveNone, SMTT(30)
<1>3. CASE mine # {}
  <2>. DEFINE e == CHOOSE f \in mine : TRUE
  <2>1. e \in mine /\ e = CHOOSE f \in theirs : TRUE
    BY <1>1, <1>3
  <2>2. /\ qs[e].state = rs[e].state
        /\ qs[e].ok = rs[e].ok
    BY <2>1
  <2>3. AliveOf(rs, k) = IF rs[e].state # "done" THEN "running"
                         ELSE IF rs[e].ok THEN "ok" ELSE "err"
    BY <1>3 DEF AliveOf
  <2>4. AliveOf(qs, k) = IF qs[e].state # "done" THEN "running"
                         ELSE IF qs[e].ok THEN "ok" ELSE "err"
    BY <1>1, <1>3 DEF AliveOf
  <2>. QED
    BY <2>2, <2>3, <2>4
<1>. QED
  BY <1>2, <1>3

\* How the contract sees an execution.
SeenAs(run) == IF run.state # "done" THEN "running" ELSE IF run.ok THEN "ok" ELSE "err"

LEMMA AliveSeen ==
    ASSUME ExecTypeOK, NoOverlappingCopies, NEW e \in Live
    PROVE  runs[e].cmd.key \in Keys /\ AliveBar[runs[e].cmd.key] = SeenAs(runs[e])
<1>1. runs[e].cmd.key \in Keys
  BY RunFields, CommandFields DEF Live
<1>2. \A f \in RunIds : runs[f] # NoRun /\ runs[f].cmd.key = runs[e].cmd.key => f = e
  BY DEF NoOverlappingCopies, Live
<1>3. AliveOf(runs, runs[e].cmd.key) = SeenAs(runs[e])
  BY <1>2, AliveOne DEF Live, SeenAs
<1>. QED
  BY <1>1, <1>3 DEF AliveBar

\* Execution e goes on, the others do nothing.
LEMMA AliveMoves ==
    ASSUME ExecTypeOK, NoOverlappingCopies, NEW e \in Live, NEW k, k = runs[e].cmd.key,
           Live' = Live, runs'[e].cmd = runs[e].cmd,
           \A f \in Live : f # e => runs'[f] = runs[f]
    PROVE  AliveBar' = [AliveBar EXCEPT ![k] = SeenAs(runs'[e])]
<1>0. k \in Keys /\ e \in RunIds
  BY RunFields, CommandFields DEF Live
<1>1. \A f \in RunIds : runs'[f] # NoRun <=> runs[f] # NoRun
  BY DEF Live
<1>2. AliveOf(runs', k) = SeenAs(runs'[e])
  <2>1. \A f \in RunIds : runs'[f] # NoRun /\ runs'[f].cmd.key = k => f = e
    BY <1>1 DEF NoOverlappingCopies, Live
  <2>. QED
    BY <1>0, <1>1, <2>1, AliveOne DEF Live, SeenAs
<1>3. ASSUME NEW j \in Keys, j # k PROVE AliveOf(runs', j) = AliveOf(runs, j)
  <2>1. \A f \in RunIds : runs[f] # NoRun /\ runs[f].cmd.key = j
                          <=> runs'[f] # NoRun /\ runs'[f].cmd.key = j
    BY <1>1, <1>3 DEF Live
  <2>2. \A f \in RunIds : runs[f] # NoRun /\ runs[f].cmd.key = j => runs'[f] = runs[f]
    BY <1>3 DEF Live
  <2>. QED
    BY <2>1, <2>2, AliveSame
<1>. QED
  BY <1>0, <1>2, <1>3 DEF AliveBar

\* Execution e ends for good.
LEMMA AliveEnds ==
    ASSUME ExecTypeOK, NoOverlappingCopies, NEW e \in Live, NEW k, k = runs[e].cmd.key,
           Live' = Live \ {e}, \A f \in Live' : runs'[f] = runs[f]
    PROVE  AliveBar' = [AliveBar EXCEPT ![k] = "no"]
<1>0. k \in Keys /\ e \in RunIds
  BY RunFields, CommandFields DEF Live
<1>1. \A f \in RunIds : runs'[f] # NoRun <=> runs[f] # NoRun /\ f # e
  BY DEF Live
<1>2. AliveOf(runs', k) = "no"
  <2>1. \A f \in RunIds : runs'[f] # NoRun => runs'[f].cmd.key # k
    BY <1>1 DEF NoOverlappingCopies, Live
  <2>. QED
    BY <2>1, AliveNone
<1>3. ASSUME NEW j \in Keys, j # k PROVE AliveOf(runs', j) = AliveOf(runs, j)
  <2>1. \A f \in RunIds : runs[f] # NoRun /\ runs[f].cmd.key = j
                          <=> runs'[f] # NoRun /\ runs'[f].cmd.key = j
    BY <1>1, <1>3 DEF Live
  <2>2. \A f \in RunIds : runs[f] # NoRun /\ runs[f].cmd.key = j => runs'[f] = runs[f]
    BY <1>1, <1>3 DEF Live
  <2>. QED
    BY <2>1, <2>2, AliveSame
<1>. QED
  BY <1>0, <1>2, <1>3 DEF AliveBar

\* A new execution e of a key that had none.
LEMMA AliveStarts ==
    ASSUME NEW e \in RunIds, e \notin Live, NEW k \in Keys,
           \A f \in Live : runs[f].cmd.key # k,
           Live' = Live \cup {e}, \A f \in Live : runs'[f] = runs[f],
           runs'[e].cmd.key = k, runs'[e].state = "running"
    PROVE  AliveBar[k] = "no" /\ AliveBar' = [AliveBar EXCEPT ![k] = "running"]
<1>1. \A f \in RunIds : runs'[f] # NoRun <=> runs[f] # NoRun \/ f = e
  BY DEF Live
<1>2. AliveOf(runs, k) = "no"
  BY AliveNone DEF Live
<1>3. AliveOf(runs', k) = "running"
  <2>1. \A f \in RunIds : runs'[f] # NoRun /\ runs'[f].cmd.key = k => f = e
    BY <1>1 DEF Live
  <2>. QED
    BY <1>1, <2>1, AliveOne
<1>4. ASSUME NEW j \in Keys, j # k PROVE AliveOf(runs', j) = AliveOf(runs, j)
  <2>1. \A f \in RunIds : runs[f] # NoRun /\ runs[f].cmd.key = j
                          <=> runs'[f] # NoRun /\ runs'[f].cmd.key = j
    BY <1>1, <1>4 DEF Live
  <2>2. \A f \in RunIds : runs[f] # NoRun /\ runs[f].cmd.key = j => runs'[f] = runs[f]
    BY <1>4 DEF Live
  <2>. QED
    BY <2>1, <2>2, AliveSame
<1>. QED
  BY <1>2, <1>3, <1>4 DEF AliveBar

\* What the contract does not see: who waits for an execution.
LEMMA AliveKept ==
    ASSUME Live' = Live,
           \A f \in Live : /\ runs'[f].cmd = runs[f].cmd /\ runs'[f].ok = runs[f].ok
                           /\ runs'[f].state = runs[f].state
    PROVE  UNCHANGED AliveBar
<1>1. ASSUME NEW j \in Keys PROVE AliveOf(runs', j) = AliveOf(runs, j)
  <2>1. \A f \in RunIds : runs[f] # NoRun /\ runs[f].cmd.key = j
                          <=> runs'[f] # NoRun /\ runs'[f].cmd.key = j
    BY DEF Live
  <2>2. \A f \in RunIds : runs[f] # NoRun /\ runs[f].cmd.key = j =>
            /\ runs'[f].state = runs[f].state
            /\ runs'[f].ok = runs[f].ok
    BY DEF Live
  <2>. QED
    BY <2>1, <2>2, AliveSame
<1>. QED
  BY <1>1 DEF AliveBar

\* A write under key k changes what the contract remembers of k alone.
LEMMA RecordWritten ==
    ASSUME StoreTypeOK, NEW k \in Keys, NEW r \in Result,
           commandsFile' = [commandsFile EXCEPT ![k] = r]
    PROVE  RecordBar' = [RecordBar EXCEPT ![k] = IF r.timedOut THEN "timeout" ELSE r.status]
<1>1. \A j \in Keys : j # k => RecordOf(commandsFile', j) = RecordOf(commandsFile, j)
  BY DEF RecordOf, StoreTypeOK
<1>2. RecordOf(commandsFile', k) = IF r.timedOut THEN "timeout" ELSE r.status
  <2>1. commandsFile'[k] = r /\ r # None
    BY NoneIsNoResult DEF StoreTypeOK
  <2>. QED
    BY <2>1 DEF RecordOf
<1>. QED
  BY <1>1, <1>2 DEF RecordBar

\* What a Save leaves of the records.
LEMMA SaveRecords ==
    ASSUME StoreTypeOK, StoreMirrorsFile, NEW k \in Keys, NEW r \in Result,
           NEW o \in Outcomes, Save(k, r, o), NEW seen,
           seen = IF r.timedOut THEN "timeout" ELSE r.status
    PROVE  /\ \/ UNCHANGED RecordBar
              \/ RecordBar' = [RecordBar EXCEPT ![k] = seen]
              \/ RecordBar' = [RecordBar EXCEPT ![k] = "failed"]
           /\ SaveOK(k, r, o) => RecordBar' = [RecordBar EXCEPT ![k] = seen]
<1>1. \/ UNCHANGED commandsFile /\ ~SaveOK(k, r, o)
      \/ commandsFile' = [commandsFile EXCEPT ![k] = r]
      \/ commandsFile' = [commandsFile EXCEPT ![k] = Tombstone] /\ ~SaveOK(k, r, o)
  BY DEF Save, SaveOK, storeVars, persist, AtomicWrite, Candidate, StoreMirrorsFile, Outcomes
<1>2. CASE UNCHANGED commandsFile /\ ~SaveOK(k, r, o)
  BY <1>2 DEF RecordBar
<1>3. CASE commandsFile' = [commandsFile EXCEPT ![k] = r]
  BY <1>3, RecordWritten
<1>4. CASE commandsFile' = [commandsFile EXCEPT ![k] = Tombstone] /\ ~SaveOK(k, r, o)
  <2>1. RecordBar' = [RecordBar EXCEPT ![k] = "failed"]
    BY <1>4, RecordWritten, SavedAreResults DEF Tombstone
  <2>. QED
    BY <1>4, <2>1
<1>. QED
  BY <1>1, <1>2, <1>3, <1>4

\* What bears a key is cached, or a reset, by its type alone.
LEMMA KeyClasses ==
    ASSUME NEW c \in Commands
    PROVE  /\ c.key \in {d.key : d \in {b \in Commands : Cached(b)}} <=> Cached(c)
           /\ c.key \in {d.key : d \in {b \in Commands : b.type = "reset"}} <=> c.type = "reset"
BY OneTypePerKey DEF Cached

LEMMA ServingIs ==
    ASSUME ExecTypeOK
    PROVE  /\ Waiting => ServingBar = Contract!Unstarted(call.cmd.key)
           /\ call # Idle /\ call.phase = "run" => ServingBar = Contract!Started(call.cmd.key)
           /\ call = Idle => ServingBar = Idle
<1>1. Waiting => call # Idle /\ ~(call.phase = "run")
  BY DEF Waiting
<1>. QED
  BY <1>1 DEF ServingBar, Contract!Unstarted, Contract!Started

\* The call returns.
LEMMA Answered ==
    ASSUME NEW c \in Commands, NEW st \in Statuses, Return(c, st)
    PROVE  Contract!Answer(c.key, st)
<1>1. reply' = [cmd |-> c, status |-> st] /\ call' = Idle
  BY DEF Return
<1>2. reply' # NoReply
  BY <1>1, ExecutorAssumption, CommandFields
<1>. QED
  BY <1>1, <1>2 DEF Contract!Answer, ServingBar, AnswerBar

LEMMA ContractStarts == Init => Contract!ContractInit
<1>. SUFFICES ASSUME Init PROVE Contract!ContractInit
  OBVIOUS
<1>1. AliveBar = Contract!NobodyAlive
  BY AliveNone DEF Init, NoRuns, AliveBar, Contract!NobodyAlive
<1>2. RecordBar = Contract!NoRecords
  BY DEF Init, StoreInit, NoResults, RecordBar, RecordOf, Contract!NoRecords
<1>3. ServingBar = Idle /\ AnswerBar = NoReply
  BY DEF Init, ServingBar, AnswerBar
<1>. QED
  BY <1>1, <1>2, <1>3 DEF Init, Contract!ContractInit

\* The head of ExecuteContext.
LEMMA HeadSteps ==
    ASSUME ExecTypeOK, NEW c \in Commands, Refuse(c) \/ Replay(c) \/ Proceed(c)
    PROVE  Contract!ServeNext
<1>. DEFINE k == c.key
<1>1. /\ k \in Keys /\ ServingBar = Idle
      /\ UNCHANGED <<timedOut, cancelled, launched, effects, runs, commandsFile>>
      /\ call = Idle
  BY ServingIs, CommandFields
  DEF Refuse, Replay, Proceed, Arrives, storeVars, procVars, hostVars
<1>2. UNCHANGED <<AliveBar, RecordBar>>
  BY <1>1 DEF AliveBar, RecordBar
<1>3. results = commandsFile /\ commandsFile \in [Keys -> Result \cup {None}]
  BY DEF ExecTypeOK, StoreOK, StoreMirrorsFile, StoreTypeOK
<1>4. ASSUME Return(c, "failed") PROVE Contract!Refuse(k)
  <2>1. Contract!Answer(k, "failed")
    BY <1>4, Answered DEF Statuses
  <2>. QED
    BY <1>1, <1>2, <2>1 DEF Contract!Refuse
<1>5. ASSUME ~cancelled, ~TerminalTimeout(c), Cached(c), results[k] # None,
             Return(c, results[k].status)
      PROVE  Contract!Replay(k)
  <2>1. results[k] \in Result /\ ~results[k].timedOut
    BY <1>1, <1>3, <1>5 DEF TerminalTimeout
  <2>2. RecordBar[k] = results[k].status /\ results[k].status \in Statuses
    BY <1>1, <1>3, <1>5, <2>1 DEF RecordBar, RecordOf, Result
  <2>3. Contract!Answer(k, RecordBar[k])
    BY <1>5, <2>2, Answered
  <2>. QED
    BY <1>1, <1>2, <1>5, <2>2, <2>3, KeyClasses DEF Contract!Replay, Statuses
<1>6. ASSUME Proceed(c) PROVE Contract!Accept(k)
  <2>1. ~cancelled /\ ~TerminalTimeout(c) /\ (Cached(c) => commandsFile[k] = None)
    BY <1>3, <1>6 DEF Proceed
  <2>2. /\ k \notin timedOut
        /\ commandsFile[k] # None => ~commandsFile[k].timedOut /\ commandsFile[k].status \in Statuses
    BY <1>1, <1>3, <2>1 DEF TerminalTimeout, Result
  <2>3. RecordBar[k] # "timeout" /\ (Cached(c) => RecordBar[k] = "none")
    BY <1>1, <2>1, <2>2 DEF RecordBar, RecordOf, Statuses
  <2>4. Contract!Startable(k)
    BY <2>2, <2>3, KeyClasses DEF Contract!Startable
  <2>5. call' = [cmd |-> c, phase |-> "admit", run |-> 0] /\ reply' = NoReply
    BY <1>6 DEF Proceed
  <2>6. call' # Idle /\ call'.cmd = c /\ ~(call'.phase = "run")
    BY <2>5, CommandFields, ExecutorAssumption
  <2>7. ServingBar' = Contract!Unstarted(k) /\ AnswerBar' = NoReply
    BY <2>5, <2>6 DEF ServingBar, AnswerBar, Contract!Unstarted
  <2>. QED
    BY <1>1, <1>2, <2>1, <2>4, <2>7 DEF Contract!Accept
<1>7. Refuse(c) => Return(c, "failed")
  BY DEF Refuse
<1>8. Replay(c) => \/ Return(c, "failed")
                   \/ /\ ~cancelled /\ ~TerminalTimeout(c) /\ Cached(c)
                      /\ results[k] # None /\ Return(c, results[k].status)
  BY DEF Replay
<1>. QED
  BY <1>1, <1>4, <1>5, <1>6, <1>7, <1>8 DEF Contract!ServeNext

\* Admission.
LEMMA AdmitSteps ==
    ASSUME ExecTypeOK, ShapeInv, AcquireOperation \/ AcquireCancelled \/ AdmissionRejected \/ Launch
    PROVE  Contract!ServeNext \/ UNCHANGED Contract!contractVars
<1>. DEFINE c == call.cmd
            k == c.key
<1>1. Waiting /\ c \in Commands /\ k \in Keys
  BY CallFields, CommandFields
  DEF AcquireOperation, AcquireCancelled, AdmissionRejected, Launch, Serving, Waiting
<1>2. ServingBar = Contract!Unstarted(k)
  BY <1>1, ServingIs
<1>3. /\ UNCHANGED <<commandsFile, timedOut, cancelled, effects>>
      /\ UNCHANGED RecordBar
  BY DEF AcquireOperation, AcquireCancelled, AdmissionRejected, Launch, storeVars,
         procVars, hostVars, RecordBar
<1>4. CASE AcquireOperation
  <2>1. UNCHANGED <<reply, runs, launched>> /\ call' = [call EXCEPT !.phase = "slot"]
    BY <1>4 DEF AcquireOperation
  <2>2. call' \in Call /\ call'.cmd = c /\ ~(call'.phase = "run")
    BY <1>1, <2>1, CallFields DEF Call, Waiting
  <2>3. ServingBar' = Contract!Unstarted(k)
    BY <2>2, CallFields DEF ServingBar, Contract!Unstarted
  <2>4. UNCHANGED <<AnswerBar, AliveBar>>
    BY <2>1 DEF AnswerBar, AliveBar
  <2>. QED
    BY <1>2, <1>3, <2>1, <2>3, <2>4 DEF Contract!contractVars
<1>5. CASE AcquireCancelled \/ AdmissionRejected
  <2>1. UNCHANGED <<runs, launched>> /\ Return(c, "failed")
    BY <1>5 DEF AcquireCancelled, AdmissionRejected
  <2>2. UNCHANGED AliveBar /\ Contract!Answer(k, "failed")
    BY <1>1, <2>1, Answered DEF AliveBar, Statuses
  <2>3. Contract!Refuse(k)
    BY <1>2, <1>3, <2>1, <2>2 DEF Contract!Refuse
  <2>. QED
    BY <1>1, <2>3 DEF Contract!ServeNext
<1>6. CASE Launch
  <2>. DEFINE e == launched + 1
  <2>1. /\ e \in RunIds /\ e \notin Live /\ Live' = Live \cup {e}
        /\ \A f \in Live : runs'[f] = runs[f]
        /\ runs'[e].cmd = c
        /\ call' # Idle /\ call'.phase = "run" /\ call'.cmd = c
    BY <1>6, LaunchRuns DEF ShapeInv
  <2>2. runs'[e].state = "running" /\ launched' = e /\ UNCHANGED reply
    BY <1>6, <2>1 DEF Launch, ExecTypeOK, ServeTypeOK
  <2>3. /\ launched < MaxRuns /\ k \notin timedOut /\ (Cached(c) => commandsFile[k] = None)
        /\ commandsFile[k] # None => ~commandsFile[k].timedOut
    BY <1>1 DEF ShapeInv, CallShape
  <2>4. \A f \in Live : runs[f].cmd.key # k
    BY <1>1, <2>3 DEF ShapeInv, LateBarred, CallShape, Waiting
  <2>5. AliveBar[k] = "no" /\ AliveBar' = [AliveBar EXCEPT ![k] = "running"]
    BY <1>1, <2>1, <2>2, <2>4, AliveStarts
  <2>6. commandsFile[k] # None => commandsFile[k].status \in Statuses
    BY <1>1 DEF ExecTypeOK, StoreOK, StoreTypeOK, Result
  <2>7. RecordBar[k] # "timeout" /\ (Cached(c) => RecordBar[k] = "none")
    BY <1>1, <2>3, <2>6 DEF RecordBar, RecordOf, Statuses
  <2>8. Contract!Startable(k)
    BY <1>1, <2>3, <2>7, KeyClasses DEF Contract!Startable
  <2>9. ServingBar' = Contract!Started(k) /\ UNCHANGED AnswerBar
    BY <2>1, <2>2 DEF ServingBar, AnswerBar, Contract!Started
  <2>10. Contract!Start(k)
    BY <1>2, <1>3, <2>2, <2>3, <2>5, <2>8, <2>9 DEF Contract!Start
  <2>. QED
    BY <1>1, <2>10 DEF Contract!ServeNext
<1>. QED
  BY <1>4, <1>5, <1>6

\* The provisioner of an execution.
LEMMA WorkSteps ==
    ASSUME ExecTypeOK, ShapeInv, RealInv, OnceInv, NEW e \in RunIds,
           RunSucceeds(e) \/ RunFails(e) \/ ResetSites(e) \/ (\E o \in Faults : ResetResults(e, o))
    PROVE  Contract!WorkNext \/ UNCHANGED Contract!contractVars
<1>. DEFINE c == runs[e].cmd
            k == c.key
<1>0. NoOverlappingCopies
  BY DEF ShapeInv
<1>1. /\ e \in Live /\ Live' = Live /\ runs'[e].cmd = c /\ runs[e] \in Run
      /\ \A f \in Live : f # e => runs'[f] = runs[f]
      /\ c \in Commands /\ k \in Keys
  BY RunEnds, RunFields, CommandFields
<1>2. UNCHANGED <<call, reply, timedOut, cancelled, launched>>
  BY DEF RunSucceeds, RunFails, ResetSites, ResetResults, procVars
<1>3. UNCHANGED <<ServingBar, AnswerBar>>
  BY <1>2 DEF ServingBar, AnswerBar
<1>4. AliveBar[k] = SeenAs(runs[e]) /\ AliveBar' = [AliveBar EXCEPT ![k] = SeenAs(runs'[e])]
  BY <1>0, <1>1, AliveSeen, AliveMoves
<1>5. runs[e].state # "done" /\ AliveBar[k] = "running"
  BY <1>4 DEF RunSucceeds, RunFails, ResetSites, ResetResults, SeenAs
<1>6. ASSUME RunSucceeds(e) PROVE Contract!Succeed(k)
  <2>1. /\ UNCHANGED commandsFile /\ effects' = [effects EXCEPT ![k] = @ + 1]
        /\ c.type # "reset"
    BY <1>6 DEF RunSucceeds, storeVars
  <2>2. AliveBar' = [AliveBar EXCEPT ![k] = "ok"]
    BY <1>4, <1>6, RunEnds DEF SeenAs
  <2>3. UNCHANGED RecordBar
    BY <2>1 DEF RecordBar
  <2>. QED
    BY <1>1, <1>2, <1>3, <1>5, <2>1, <2>2, <2>3, KeyClasses DEF Contract!Succeed
<1>7. ASSUME RunFails(e) PROVE Contract!Fail(k)
  <2>1. UNCHANGED <<commandsFile, effects>>
    BY <1>7 DEF RunFails, storeVars, hostVars
  <2>2. ~runs[e].ok
    BY <1>1, <1>5 DEF RealInv, EndedWellHappened
  <2>3. AliveBar' = [AliveBar EXCEPT ![k] = "err"]
    BY <1>4, <1>7, <2>2, RunEnds DEF SeenAs
  <2>4. UNCHANGED RecordBar
    BY <2>1 DEF RecordBar
  <2>. QED
    BY <1>2, <1>3, <1>5, <2>1, <2>3, <2>4 DEF Contract!Fail
<1>8. ASSUME ResetSites(e) PROVE UNCHANGED Contract!contractVars
  <2>1. UNCHANGED <<commandsFile, effects>>
    BY <1>8 DEF ResetSites, storeVars
  <2>2. AliveBar' = [AliveBar EXCEPT ![k] = "running"]
    BY <1>4, <1>8, RunEnds DEF SeenAs
  <2>3. UNCHANGED AliveBar
    BY <1>5, <2>2 DEF AliveBar
  <2>4. UNCHANGED RecordBar
    BY <2>1 DEF RecordBar
  <2>. QED
    BY <1>2, <1>3, <2>1, <2>3, <2>4 DEF Contract!contractVars
<1>9. ASSUME NEW o \in Faults, ResetResults(e, o) PROVE Contract!Wipe(k)
  <2>1. effects' = [effects EXCEPT ![k] = @ + 1] /\ c.type = "reset"
    BY <1>1, <1>9 DEF ResetResults, OnceInv
  <2>2. AliveBar' = [AliveBar EXCEPT ![k] = "ok"]
    BY <1>4, <1>9, RunEnds DEF SeenAs
  <2>3. commandsFile' \in {commandsFile, NoResults}
    BY <1>9 DEF ResetResults, ResetStore, persist, AtomicWrite
  <2>4. RecordBar' \in {RecordBar, Contract!NoRecords}
    BY <2>3 DEF RecordBar, RecordOf, NoResults, Contract!NoRecords
  <2>. QED
    BY <1>1, <1>2, <1>3, <1>5, <2>1, <2>2, <2>4, KeyClasses DEF Contract!Wipe
<1>. QED
  BY <1>1, <1>6, <1>7, <1>8, <1>9 DEF Contract!WorkNext

\* The end of the call's wait.
LEMMA WaitSteps ==
    ASSUME ExecTypeOK, ShapeInv, NEW o \in Faults,
           CommandSettles(o) \/ CommandTimesOut(o)
    PROVE  Contract!ServeNext
<1>. DEFINE e == call.run
            c == call.cmd
            k == c.key
<1>0. NoOverlappingCopies /\ StoreTypeOK /\ StoreMirrorsFile /\ o \in Outcomes
  BY ExecutorAssumption DEF ShapeInv, ExecTypeOK, StoreOK
<1>1. /\ call # Idle /\ call.phase = "run" /\ c \in Commands /\ k \in Keys
      /\ e \in Live /\ runs[e].cmd = c
  BY CallFields, CommandFields
  DEF CommandSettles, CommandTimesOut, Serving, ShapeInv, CallShape
<1>2. ServingBar = Contract!Started(k)
  BY <1>1, ServingIs
<1>3. UNCHANGED <<launched, cancelled, effects>>
  BY DEF CommandSettles, CommandTimesOut, procVars, hostVars
<1>4. ASSUME CommandSettles(o) PROVE Contract!Settle(k)
  <2>1. AliveBar' = [AliveBar EXCEPT ![k] = "no"] /\ UNCHANGED timedOut
    BY <1>0, <1>1, <1>4, SettleEnds, AliveEnds DEF CommandSettles
  <2>2. AliveBar[k] = (IF runs[e].ok THEN "ok" ELSE "err")
    BY <1>0, <1>1, <1>4, AliveSeen DEF SeenAs, CommandSettles
  <2>3. ASSUME ~(runs[e].ok /\ Cached(c))
        PROVE  /\ UNCHANGED RecordBar
               /\ runs[e].ok => Contract!Answer(k, "succeeded")
               /\ ~runs[e].ok => Contract!Answer(k, "failed")
    <3>1. UNCHANGED commandsFile /\ Return(c, IF runs[e].ok THEN "succeeded" ELSE "failed")
      BY <1>4, <2>3 DEF CommandSettles, storeVars
    <3>. QED
      BY <1>1, <3>1, Answered DEF RecordBar, Statuses
  <2>4. ASSUME runs[e].ok, Cached(c)
        PROVE  \/ Contract!Answer(k, "succeeded") /\ RecordBar' = [RecordBar EXCEPT ![k] = "succeeded"]
               \/ /\ Contract!Answer(k, "failed")
                  /\ \/ UNCHANGED RecordBar
                     \/ \E r \in {"succeeded", "failed"} : RecordBar' = [RecordBar EXCEPT ![k] = r]
    <3>1. /\ Save(k, ResultOf(c), o)
          /\ Return(c, IF SaveOK(k, ResultOf(c), o) THEN "succeeded" ELSE "failed")
      BY <1>4, <2>4 DEF CommandSettles
    <3>2. ResultOf(c) \in Result /\ ~ResultOf(c).timedOut /\ ResultOf(c).status = "succeeded"
      BY <1>1, ExecutorResults DEF ResultOf
    <3>3. /\ \/ UNCHANGED RecordBar
             \/ RecordBar' = [RecordBar EXCEPT ![k] = "succeeded"]
             \/ RecordBar' = [RecordBar EXCEPT ![k] = "failed"]
          /\ SaveOK(k, ResultOf(c), o) => RecordBar' = [RecordBar EXCEPT ![k] = "succeeded"]
      BY <1>0, <1>1, <3>1, <3>2, SaveRecords
    <3>4. /\ SaveOK(k, ResultOf(c), o) => Contract!Answer(k, "succeeded")
          /\ ~SaveOK(k, ResultOf(c), o) => Contract!Answer(k, "failed")
      BY <1>1, <3>1, Answered DEF Statuses
    <3>. QED
      BY <3>3, <3>4
  <2>5. k \in {d.key : d \in {b \in Commands : Cached(b)}} <=> Cached(c)
    BY <1>1, KeyClasses
  <2>. QED
    BY <1>2, <1>3, <2>1, <2>2, <2>3, <2>4, <2>5 DEF Contract!Settle
<1>5. ASSUME CommandTimesOut(o) PROVE Contract!TimeOut(k)
  <2>1. /\ Save(k, TimeoutResult, o) /\ timedOut' = timedOut \cup {k} /\ ~cancelled
        /\ runs' = [runs EXCEPT ![e].attached = FALSE] /\ Return(c, "failed")
    BY <1>5 DEF CommandTimesOut
  <2>2. UNCHANGED AliveBar
    BY <1>1, <2>1, Detached, AliveKept
  <2>3. TimeoutResult \in Result /\ TimeoutResult.timedOut
    BY <1>1, ExecutorResults DEF TimeoutResult
  <2>4. \/ UNCHANGED RecordBar
        \/ RecordBar' = [RecordBar EXCEPT ![k] = "timeout"]
        \/ RecordBar' = [RecordBar EXCEPT ![k] = "failed"]
    BY <1>0, <1>1, <2>1, <2>3, SaveRecords
  <2>5. Contract!Answer(k, "failed")
    BY <1>1, <2>1, Answered DEF Statuses
  <2>. QED
    BY <1>2, <1>3, <2>1, <2>2, <2>4, <2>5 DEF Contract!TimeOut
<1>. QED
  BY <1>1, <1>4, <1>5 DEF Contract!ServeNext

LEMMA CancelStep ==
    ASSUME ExecTypeOK, ShapeInv, CommandCancelled
    PROVE  Contract!ServeNext
<1>. DEFINE e == call.run
            c == call.cmd
            k == c.key
<1>1. /\ call # Idle /\ call.phase = "run" /\ c \in Commands /\ k \in Keys
      /\ e \in Live /\ runs[e].cmd = c
  BY CallFields, CommandFields DEF CommandCancelled, Serving, ShapeInv, CallShape
<1>2. /\ UNCHANGED <<commandsFile, timedOut, launched, cancelled, effects>> /\ cancelled
      /\ runs' = [runs EXCEPT ![e].attached = FALSE] /\ Return(c, "failed")
  BY DEF CommandCancelled, storeVars, procVars, hostVars
<1>3. UNCHANGED <<AliveBar, RecordBar>>
  <2>1. UNCHANGED AliveBar
    BY <1>1, <1>2, Detached, AliveKept
  <2>. QED
    BY <1>2, <2>1 DEF RecordBar
<1>4. Contract!Answer(k, "failed")
  BY <1>1, <1>2, Answered DEF Statuses
<1>5. Contract!Abandon(k)
  BY <1>1, <1>2, <1>3, <1>4, ServingIs DEF Contract!Abandon
<1>. QED
  BY <1>1, <1>5 DEF Contract!ServeNext

\* The late callback.
LEMMA LateStep ==
    ASSUME ExecTypeOK, ShapeInv, NEW e \in RunIds, LateCompletion(e)
    PROVE  Contract!WorkNext
<1>. DEFINE k == runs[e].cmd.key
<1>0. NoOverlappingCopies /\ runs \in [RunIds -> Run \cup {NoRun}]
  BY DEF ShapeInv, ExecTypeOK, ServeTypeOK
<1>1. /\ e \in Live /\ ~runs[e].attached /\ runs[e].state = "done"
      /\ runs' = [runs EXCEPT ![e] = NoRun]
      /\ UNCHANGED <<call, reply, timedOut, cancelled, launched, effects, commandsFile>>
  BY DEF LateCompletion, storeVars, procVars, hostVars
<1>2. UNCHANGED <<ServingBar, AnswerBar, RecordBar>>
  BY <1>1 DEF ServingBar, AnswerBar, RecordBar
<1>3. k \in Keys /\ AliveBar[k] \in {"ok", "err"}
  BY <1>0, <1>1, AliveSeen DEF SeenAs
<1>4. Live' = Live \ {e} /\ \A f \in Live' : runs'[f] = runs[f]
  BY <1>0, <1>1 DEF Live
<1>5. AliveBar' = [AliveBar EXCEPT ![k] = "no"]
  BY <1>0, <1>1, <1>4, AliveEnds
<1>6. ServingBar # Contract!Started(k)
  <2>. SUFFICES ASSUME ServingBar = Contract!Started(k) PROVE FALSE
    OBVIOUS
  <2>1. CASE call = Idle
    <3>1. Idle \notin [key: Keys, started: BOOLEAN]
      BY MappingAssumption
    <3>2. Contract!Started(k) \in [key: Keys, started: BOOLEAN]
      BY <1>3 DEF Contract!Started
    <3>. QED
      BY <2>1, <3>1, <3>2 DEF ServingBar
  <2>2. CASE call # Idle
    <3>1. call.cmd.key = k /\ call.phase = "run"
      BY <2>2 DEF ServingBar, Contract!Started
    <3>2. call.run \in Live /\ runs[call.run].attached /\ runs[call.run].cmd = call.cmd
      BY <2>2, <3>1 DEF ShapeInv, CallShape
    <3>3. call.run = e
      BY <1>0, <1>1, <3>1, <3>2 DEF NoOverlappingCopies
    <3>. QED
      BY <1>1, <3>2, <3>3
  <2>. QED
    BY <2>1, <2>2
<1>7. Contract!Depart(k)
  BY <1>1, <1>2, <1>3, <1>5, <1>6 DEF Contract!Depart
<1>. QED
  BY <1>3, <1>7 DEF Contract!WorkNext

\* Every step of the executor is a step of the contract, or none.
LEMMA ContractStep ==
    ASSUME ExecTypeOK, ShapeInv, RealInv, OnceInv, [Next]_vars
    PROVE  [Contract!ContractNext]_(Contract!contractVars)
<1>1. CASE Shutdown
  <2>1. /\ ~cancelled /\ cancelled' = TRUE
        /\ UNCHANGED <<call, reply, runs, timedOut, launched, effects, commandsFile>>
    BY <1>1 DEF Shutdown, storeVars, hostVars
  <2>2. UNCHANGED <<ServingBar, AnswerBar, RecordBar, AliveBar>>
    BY <2>1 DEF ServingBar, AnswerBar, RecordBar, AliveBar
  <2>. QED
    BY <2>1, <2>2 DEF Contract!ContractNext, Contract!Stop
<1>2. CASE Restart
  <2>1. /\ call' = Idle /\ reply' = NoReply /\ runs' = NoRuns /\ timedOut' = {}
        /\ cancelled' = FALSE /\ UNCHANGED <<commandsFile, launched, effects>>
    BY <1>2 DEF Restart
  <2>2. ServingBar' = Idle /\ AnswerBar' = NoReply /\ UNCHANGED RecordBar
    BY <2>1 DEF ServingBar, AnswerBar, RecordBar
  <2>3. AliveBar' = Contract!NobodyAlive
    BY <2>1, AliveNone DEF NoRuns, AliveBar, Contract!NobodyAlive
  <2>. QED
    BY <2>1, <2>2, <2>3 DEF Contract!ContractNext, Contract!Crash
<1>3. CASE (\E k \in Kinds : LateCount(k)) \/ UNCHANGED vars
  <2>1. UNCHANGED <<call, reply, runs, timedOut, cancelled, launched, effects, commandsFile>>
    BY <1>3 DEF LateCount, vars, storeVars, procVars, hostVars
  <2>2. UNCHANGED <<ServingBar, AnswerBar, RecordBar, AliveBar>>
    BY <2>1 DEF ServingBar, AnswerBar, RecordBar, AliveBar
  <2>. QED
    BY <2>1, <2>2 DEF Contract!contractVars
<1>4. CASE \E c \in Commands : Refuse(c) \/ Replay(c) \/ Proceed(c)
  BY <1>4, HeadSteps DEF Contract!ContractNext
<1>5. CASE AcquireOperation \/ AcquireCancelled \/ AdmissionRejected \/ Launch
  BY <1>5, AdmitSteps DEF Contract!ContractNext
<1>6. CASE \E o \in Faults : CommandSettles(o) \/ CommandTimesOut(o)
  BY <1>6, WaitSteps DEF Contract!ContractNext
<1>7. CASE CommandCancelled
  BY <1>7, CancelStep DEF Contract!ContractNext
<1>8. ASSUME NEW e \in RunIds, RunStep(e)
      PROVE  [Contract!ContractNext]_(Contract!contractVars)
  <2>1. CASE LateCompletion(e)
    BY <2>1, LateStep DEF Contract!ContractNext
  <2>2. CASE RunSucceeds(e) \/ RunFails(e) \/ ResetSites(e) \/ (\E o \in Faults : ResetResults(e, o))
    BY <2>2, WorkSteps DEF Contract!ContractNext
  <2>. QED
    BY <1>8, <2>1, <2>2 DEF RunStep
<1>. QED
  BY <1>1, <1>2, <1>3, <1>4, <1>5, <1>6, <1>7, <1>8 DEF Next, CallStep
-----------------------------------------------------------------------------
(* The executor's theorems.                                                 *)

ExecInv ==
    /\ ExecTypeOK /\ ShapeInv /\ FenceInv /\ SlotsAccounted
    /\ RealInv /\ OnceInv /\ TrackInv

LEMMA ExecInductive == Spec => []ExecInv
<1>1. Init => ExecInv
  BY ExecTypeInit, ShapeInit, FenceInit, SlotsInit, RealInit, OnceInit, TrackInit DEF ExecInv
<1>2. ExecInv /\ [Next]_vars => ExecInv'
  <2>. SUFFICES ASSUME ExecInv, [Next]_vars PROVE ExecInv'
    OBVIOUS
  <2>1. ExecTypeOK' /\ ShapeInv' /\ FenceInv' /\ SlotsAccounted'
    BY ExecTypeStep, ShapeStep, FenceStep, SlotsStep DEF ExecInv, ShapeInv
  <2>2. RealInv' /\ OnceInv' /\ TrackInv'
    BY <2>1, RealStep, OnceStep, TrackStep DEF ExecInv
  <2>. QED
    BY <2>1, <2>2 DEF ExecInv
<1>. QED
  BY <1>1, <1>2, PTL DEF Spec

\* Every variable keeps its type; in particular no counter of a pool, which
\* a second release would push down, falls below zero.
THEOREM ExecutorTypes == Spec => []TypeOK
<1>1. ExecInv => TypeOK
  <2>. SUFFICES ASSUME ExecInv PROVE TypeOK
    OBVIOUS
  <2>1. slots \in [Kinds -> Nat]
    <3>. SUFFICES ASSUME NEW k \in Kinds PROVE slots[k] \in Nat
      BY DEF ExecInv, ExecTypeOK, PoolTypeOK
    <3>1. PoolOK(k)
      BY PoolsOK DEF ExecInv
    <3>. QED
      BY <3>1, RunsFinite DEF PoolOK, Admitting
  <2>2. CapacityTypeOK
    BY <2>1 DEF ExecInv, ExecTypeOK, SiteTypeOK, PoolTypeOK, CapacityTypeOK
  <2>3. cancelled \in BOOLEAN /\ up \in BOOLEAN /\ drifted \in BOOLEAN
    BY DEF ExecInv, ExecTypeOK, ProcTypeOK, HostTypeOK
  <2>. QED
    BY <2>2, <2>3 DEF ExecInv, ExecTypeOK, StoreOK, PoolTypeOK, ServeTypeOK, ProcTypeOK,
                      HostTypeOK, TypeOK
<1>. QED
  BY <1>1, ExecInductive, PTL

\* No two executions of one idempotency key are alive at the same time.
THEOREM NoOverlap == Spec => []NoOverlappingCopies
<1>1. ExecInv => NoOverlappingCopies
  BY DEF ExecInv, ShapeInv
<1>. QED
  BY <1>1, ExecInductive, PTL

\* At most one mutating execution per site, executions that outlived their
\* call included.
THEOREM OneMutator == Spec => []OneMutatorPerSite
<1>1. ExecInv => OneMutatorPerSite
  BY DEF ExecInv, FenceInv
<1>. QED
  BY <1>1, ExecInductive, PTL

\* A fence of the current generation has its execution.
THEOREM FenceOwned == Spec => []CurrentFenceOwned
<1>1. ExecInv => CurrentFenceOwned
  BY DEF ExecInv, FenceInv
<1>. QED
  BY <1>1, ExecInductive, PTL

\* The pools' channels and counters agree with the executions alive.
THEOREM SlotsAreAccounted == Spec => []SlotsAccounted
<1>1. ExecInv => SlotsAccounted
  BY DEF ExecInv
<1>. QED
  BY <1>1, ExecInductive, PTL

\* An execution starts only for a key that commands.json does not hold.
THEOREM RecordedNotRelaunched == Spec => RecordedNeverRelaunched
<1>. DEFINE Fresh ==
       \A e \in RunIds :
         runs[e] = NoRun /\ runs'[e] # NoRun =>
            LET c == runs'[e].cmd
            IN  /\ Cached(c) => commandsFile[c.key] = None
                /\ commandsFile[c.key] # None => ~commandsFile[c.key].timedOut
<1>1. ExecInv /\ [Next]_vars => [Fresh]_vars
  <2>. SUFFICES ASSUME ExecInv, [Next]_vars PROVE Fresh
    OBVIOUS
  <2>. SUFFICES ASSUME NEW e \in RunIds, runs[e] = NoRun, runs'[e] # NoRun
                PROVE  LET c == runs'[e].cmd
                       IN  /\ Cached(c) => commandsFile[c.key] = None
                           /\ commandsFile[c.key] # None => ~commandsFile[c.key].timedOut
    OBVIOUS
  <2>1. e \notin Live /\ e \in Live'
    BY DEF Live
  <2>2. ~Restart
    BY <2>1 DEF Restart, NoRuns, Live
  <2>3. Launch
    BY <2>1, <2>2, RunsStep DEF ExecInv, ShapeInv
  <2>4. e = launched + 1 /\ runs'[e].cmd = call.cmd /\ Waiting
    BY <2>1, <2>3, LaunchRuns DEF ExecInv, ShapeInv, Waiting
  <2>. QED
    BY <2>4 DEF ExecInv, ShapeInv, CallShape
<1>. QED
  BY <1>1, ExecInductive, PTL DEF Spec, RecordedNeverRelaunched

\* A success that commands.json or an answer reports happened on the host.
THEOREM SuccessReal == Spec => []SuccessIsReal
<1>1. ExecInv => SuccessIsReal
  BY DEF ExecInv, RealInv
<1>. QED
  BY <1>1, ExecInductive, PTL

\* A redelivered command does not have its effect twice, whatever timeouts,
\* late completions, cancellations and tombstones came in between, as long as
\* the process neither restarts nor is reset and the record could be written.
THEOREM EffectOnce == Spec => []SideEffectOnce
<1>1. ExecInv => SideEffectOnce
  <2>. SUFFICES ASSUME ExecInv, ~drifted, NEW c \in Commands, Cached(c), c.key \notin unsaved
                PROVE  effects[c.key] <= 1
    BY DEF SideEffectOnce
  <2>1. c.key \in Keys /\ Watched(c.key)
    BY CommandFields DEF Watched
  <2>. QED
    BY <2>1 DEF ExecInv, OnceInv, OnceFor
<1>. QED
  BY <1>1, ExecInductive, PTL

\* A site nobody works on is reserved with the plan the host runs it with.
THEOREM ReservationsTrack == Spec => []ReservationTracksHost
<1>1. ExecInv => ReservationTracksHost
  BY DEF ExecInv, TrackInv, ReservationTracksHost
<1>. QED
  BY <1>1, ExecInductive, PTL

\* The executor implements IdempotentExecution under the mapping of
\* ExecutorRefinement.
THEOREM ExecutorImplements == Spec => ImplementsContract
<1>1. Init => Contract!ContractInit
  BY ContractStarts
<1>2. ExecInv /\ [Next]_vars => [Contract!ContractNext]_(Contract!contractVars)
  BY ContractStep DEF ExecInv
<1>. QED
  BY <1>1, <1>2, ExecInductive, PTL DEF Spec, ImplementsContract, Contract!ContractSpec
=============================================================================
