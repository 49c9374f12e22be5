---------------------------- MODULE AgentProofs ------------------------------
(* The outbox, the executor's contract and the agent that is made of them.  *)
(* The agent as a whole: whatever Control shows as succeeded was done on    *)
(* the host, for every set of jobs and every number of leases, crashes and  *)
(* executions.  The argument follows a success on its way: an execution     *)
(* that ended well, the record in commands.json, the answer of the call,    *)
(* the entry in the outbox (in memory and in its file), the job in Control. *)
EXTENDS Agent, FiniteSetTheorems, WellFoundedInduction, TLAPS

(* FileOutbox, for every sequence of puts, deletes, resets, failing writes  *)
(* and restarts.                                                            *)

\* A new map no larger than allowed, or with nothing the old one lacks, keeps
\* both the file and the memory within the limit, whatever the write's
\* outcome and the rollback behind it.
LEMMA PersistWithin ==
    ASSUME OutboxTypeOK, validateLimits(pending), validateLimits(outboxFile),
           NEW new \in [Ids -> PendingResult \cup {None}], validateLimits(new),
           NEW o \in Outcomes, persistOutbox(new, o)
    PROVE  /\ pending' \in [Ids -> PendingResult \cup {None}]
           /\ outboxFile' \in [Ids -> PendingResult \cup {None}]
           /\ validateLimits(pending') /\ validateLimits(outboxFile')
BY DEF OutboxTypeOK, persistOutbox, AtomicWrite

\* A smaller set of pending results is within the limit too.
LEMMA FewerWithin ==
    ASSUME NEW box, validateLimits(box), NEW new, \A i \in Ids : new[i] \in {None, box[i]}
    PROVE  validateLimits(new)
<1>0. Listed(new) \subseteq Listed(box)
  BY DEF Listed
<1>1. IsFiniteSet(Listed(box))
  BY OutboxAssumption, FS_Subset DEF Listed
<1>2. /\ Cardinality(Listed(new)) <= Cardinality(Listed(box))
      /\ Cardinality(Listed(new)) \in Nat
      /\ Cardinality(Listed(box)) \in Nat
  BY <1>0, <1>1, FS_Subset, FS_CardinalityType
<1>3. \A i \in Listed(new) : new[i] = box[i]
  BY DEF Listed
<1>. QED
  BY <1>0, <1>2, <1>3, OutboxAssumption DEF validateLimits

OutboxInv ==
    /\ OutboxTypeOK
    /\ AcceptedResultsKept
    /\ validateLimits(pending)
    /\ validateLimits(outboxFile)

LEMMA OutboxInvInit == OutboxInit => OutboxInv
<1>. SUFFICES ASSUME OutboxInit PROVE OutboxInv
  OBVIOUS
<1>1. Listed(EmptyOutbox) = {}
  BY DEF Listed, EmptyOutbox
<1>2. validateLimits(EmptyOutbox)
  BY <1>1, FS_EmptySet, OutboxAssumption DEF validateLimits
<1>. QED
  BY <1>2 DEF OutboxInit, OutboxInv, OutboxTypeOK, AcceptedResultsKept, EmptyOutbox

LEMMA OutboxInvStep == OutboxInv /\ [OutboxNext]_outboxVars => OutboxInv'
<1>. SUFFICES ASSUME OutboxInv, [OutboxNext]_outboxVars
              PROVE  OutboxInv'
  OBVIOUS
<1>. USE DEF OutboxInv
<1>0. ASSUME pending' \in [Ids -> PendingResult \cup {None}],
             outboxFile' \in [Ids -> PendingResult \cup {None}],
             validateLimits(pending'), validateLimits(outboxFile'),
             accepted' \subseteq Ids, AcceptedResultsKept'
      PROVE  OutboxInv'
  BY <1>0 DEF OutboxTypeOK, validateLimits, Listed
<1>1. ASSUME NEW i \in Ids, NEW r \in PendingResult, NEW o \in Outcomes, Put(i, r, o)
      PROVE  OutboxInv'
  <2>. DEFINE new == [pending EXCEPT ![i] = r]
  <2>1. new \in [Ids -> PendingResult \cup {None}] /\ r # None
    BY NoneIsNotPending DEF OutboxTypeOK
  <2>2. CASE validateLimits(new)
    <3>1. persistOutbox(new, o)
      BY <1>1, <2>2 DEF Put
    <3>2. /\ pending' \in [Ids -> PendingResult \cup {None}]
          /\ outboxFile' \in [Ids -> PendingResult \cup {None}]
          /\ validateLimits(pending') /\ validateLimits(outboxFile')
      BY <2>1, <2>2, <3>1, PersistWithin
    <3>3. accepted' = IF o = "ok" THEN accepted \cup {i} ELSE accepted
      BY <1>1, <2>2 DEF Put, PutOK
    <3>4. accepted' \subseteq Ids
      BY <3>3 DEF OutboxTypeOK
    <3>5. AcceptedResultsKept'
      BY <2>1, <3>1, <3>3 DEF AcceptedResultsKept, persistOutbox, AtomicWrite, OutboxTypeOK
    <3>. QED
      BY <3>2, <3>4, <3>5, <1>0
  <2>3. CASE ~validateLimits(new)
    <3>1. UNCHANGED <<pending, outboxFile, accepted>>
      BY <1>1, <2>3 DEF Put, PutOK
    <3>. QED
      BY <3>1, <1>0 DEF OutboxTypeOK, AcceptedResultsKept
  <2>. QED
    BY <2>2, <2>3
<1>2. ASSUME NEW i \in Ids, NEW o \in Outcomes, Delete(i, o)
      PROVE  OutboxInv'
  <2>. DEFINE new == [pending EXCEPT ![i] = None]
  <2>1. CASE pending[i] = None
    <3>1. UNCHANGED <<pending, outboxFile>> /\ accepted' = accepted \ {i}
      BY <1>2, <2>1 DEF Delete
    <3>. QED
      BY <3>1, <1>0 DEF OutboxTypeOK, AcceptedResultsKept
  <2>2. CASE pending[i] # None
    <3>1. persistOutbox(new, o) /\ accepted' = accepted \ {i}
      BY <1>2, <2>2 DEF Delete
    <3>2. new \in [Ids -> PendingResult \cup {None}] /\ \A j \in Ids : new[j] \in {None, pending[j]}
      BY DEF OutboxTypeOK
    <3>3. validateLimits(new)
      BY <3>2, FewerWithin
    <3>4. /\ pending' \in [Ids -> PendingResult \cup {None}]
          /\ outboxFile' \in [Ids -> PendingResult \cup {None}]
          /\ validateLimits(pending') /\ validateLimits(outboxFile')
      BY <3>1, <3>2, <3>3, PersistWithin
    <3>5. AcceptedResultsKept'
      BY <3>1, <3>2 DEF AcceptedResultsKept, persistOutbox, AtomicWrite, OutboxTypeOK
    <3>. QED
      BY <3>1, <3>4, <3>5, <1>0 DEF OutboxTypeOK
  <2>. QED
    BY <2>1, <2>2
<1>3. ASSUME NEW o \in Outcomes, ResetOutbox(o)
      PROVE  OutboxInv'
  <2>1. EmptyOutbox \in [Ids -> PendingResult \cup {None}]
        /\ \A j \in Ids : EmptyOutbox[j] \in {None, pending[j]}
    BY DEF EmptyOutbox
  <2>2. validateLimits(EmptyOutbox)
    BY <2>1, FewerWithin
  <2>3. persistOutbox(EmptyOutbox, o) /\ accepted' = {}
    BY <1>3 DEF ResetOutbox
  <2>4. /\ pending' \in [Ids -> PendingResult \cup {None}]
        /\ outboxFile' \in [Ids -> PendingResult \cup {None}]
        /\ validateLimits(pending') /\ validateLimits(outboxFile')
    BY <2>1, <2>2, <2>3, PersistWithin
  <2>. QED
    BY <2>3, <2>4, <1>0 DEF AcceptedResultsKept
<1>4. CASE OpenOutbox
  BY <1>4, <1>0 DEF OpenOutbox, OutboxOpens, OutboxTypeOK, AcceptedResultsKept
<1>5. CASE UNCHANGED outboxVars
  BY <1>5, <1>0 DEF outboxVars, OutboxTypeOK, AcceptedResultsKept
<1>. QED
  BY <1>1, <1>2, <1>3, <1>4, <1>5 DEF OutboxNext

\* The types of the two maps of FileOutbox.
THEOREM OutboxTypes == OutboxSpec => []OutboxTypeOK
<1>. QED
  BY OutboxInvInit, OutboxInvStep, PTL DEF OutboxSpec, OutboxInv

\* A result whose Put returned nil is in memory and in outbox.json until it
\* is deleted or everything is reset, although persist's error is undone in
\* memory also when the file was replaced.
THEOREM AcceptedKept == OutboxSpec => []AcceptedResultsKept
<1>. QED
  BY OutboxInvInit, OutboxInvStep, PTL DEF OutboxSpec, OutboxInv

\* Every outbox.json is one NewFileOutbox accepts: the limit holds of the
\* file and of the memory it is written from.
THEOREM OutboxAlwaysOpens == OutboxSpec => []OutboxFileOpens
<1>1. OutboxInv => OutboxFileOpens
  BY DEF OutboxInv, OutboxFileOpens, OutboxOpens
<1>. QED
  BY <1>1, OutboxInvInit, OutboxInvStep, PTL DEF OutboxSpec
-----------------------------------------------------------------------------
(* The executor's contract, for every set of keys.                          *)

\* An execution that ended well has had its effect, even before the call
\* that waits for it has seen it end.
EndedWellIsReal == \A k \in Keys : alive[k] = "ok" => effects[k] > 0

ContractInv == ContractTypeOK /\ ContractSuccessIsReal /\ EndedWellIsReal

LEMMA ContractInvInit == ContractInit => ContractInv
<1>. SUFFICES ASSUME ContractInit PROVE ContractInv
  OBVIOUS
<1>1. ContractTypeOK
  <2>1. alive \in [Keys -> {"no", "running", "ok", "err"}] /\ record \in [Keys -> Records]
    BY DEF ContractInit, NobodyAlive, NoRecords, Records
  <2>2. starts \in 0 .. MaxEffects /\ effects \in [Keys -> Nat]
    BY ContractAssumption DEF ContractInit
  <2>3. stopping \in BOOLEAN
    BY DEF ContractInit
  <2>. QED
    BY <2>1, <2>2, <2>3 DEF ContractInit, ContractTypeOK
<1>2. ContractSuccessIsReal /\ EndedWellIsReal
  BY DEF ContractInit, ContractSuccessIsReal, EndedWellIsReal, NobodyAlive, NoRecords
<1>. QED
  BY <1>1, <1>2 DEF ContractInv

\* Every step of the contract, for every key, keeps the invariant, and no
\* step takes an effect back.
LEMMA ContractInvStep ==
    ASSUME ContractInv, [ContractNext]_contractVars
    PROVE  ContractInv' /\ \A k \in Keys : effects'[k] >= effects[k]
<1>. DEFINE Goal == ContractInv' /\ \A k \in Keys : effects'[k] >= effects[k]
<1>. USE ContractAssumption DEF ContractInv, ContractTypeOK, ContractSuccessIsReal,
       EndedWellIsReal
<1>1. ASSUME NEW k \in Keys, Refuse(k) PROVE Goal
  BY <1>1 DEF Refuse, Answer
<1>2. ASSUME NEW k \in Keys, Replay(k) PROVE Goal
  BY <1>2 DEF Replay, Answer, Records
<1>3. ASSUME NEW k \in Keys, Accept(k) PROVE Goal
  BY <1>3 DEF Accept, Unstarted
<1>4. ASSUME NEW k \in Keys, Start(k) PROVE Goal
  BY <1>4 DEF Start, Started
<1>5. ASSUME NEW k \in Keys, Settle(k) PROVE Goal
  BY <1>5 DEF Settle, Answer, Records
<1>6. ASSUME NEW k \in Keys, TimeOut(k) PROVE Goal
  BY <1>6 DEF TimeOut, Answer, Records
<1>7. ASSUME NEW k \in Keys, Abandon(k) PROVE Goal
  BY <1>7 DEF Abandon, Answer
<1>8. ASSUME NEW k \in Keys, Succeed(k) PROVE Goal
  BY <1>8 DEF Succeed
<1>9. ASSUME NEW k \in Keys, Fail(k) PROVE Goal
  BY <1>9 DEF Fail
<1>10. ASSUME NEW k \in Keys, Wipe(k) PROVE Goal
  BY <1>10 DEF Wipe, NoRecords, Records
<1>11. ASSUME NEW k \in Keys, Depart(k) PROVE Goal
  BY <1>11 DEF Depart
<1>12. CASE Stop
  BY <1>12 DEF Stop
<1>13. CASE Crash
  <2>1. ContractTypeOK'
    BY <1>13 DEF Crash, NobodyAlive
  <2>2. ContractSuccessIsReal' /\ EndedWellIsReal'
    BY <1>13 DEF Crash, NobodyAlive
  <2>3. \A k \in Keys : effects'[k] >= effects[k]
    BY <1>13 DEF Crash
  <2>. QED
    BY <2>1, <2>2, <2>3
<1>14. CASE UNCHANGED contractVars
  BY <1>14 DEF contractVars
<1>. QED
  BY <1>1, <1>2, <1>3, <1>4, <1>5, <1>6, <1>7, <1>8, <1>9, <1>10, <1>11, <1>12,
     <1>13, <1>14
  DEF ContractNext, ServeNext, WorkNext

\* The types of the contract's state.
THEOREM ContractTypes == ContractSpec => []ContractTypeOK
<1>. QED
  BY ContractInvInit, ContractInvStep, PTL DEF ContractSpec, ContractInv

\* A success the executor remembers in commands.json or returns happened on
\* the host at least once.
THEOREM ContractSuccess == ContractSpec => []ContractSuccessIsReal
<1>. QED
  BY ContractInvInit, ContractInvStep, PTL DEF ContractSpec, ContractInv
-----------------------------------------------------------------------------
(* The agent.                                                               *)

\* A set of natural numbers that is not empty has a smallest element.
LEMMA NatMin ==
    ASSUME NEW T \in SUBSET Nat, T # {}
    PROVE  \E x \in T : \A y \in T : x <= y
<1>. DEFINE R == OpToRel(<, Nat)
<1>1. IsWellFoundedOn(R, Nat)
  BY NatLessThanWellFounded
<1>2. \A x, y \in Nat : ~(<<y, x>> \in R) => x <= y
  BY DEF OpToRel
<1>. HIDE DEF R
<1>3. \E x \in T : \A y \in T : ~(<<y, x>> \in R)
  BY <1>1, WFMin, Zenon
<1>. QED
  BY <1>2, <1>3

\* A pending success is real.
BoxesReal ==
    \A i \in Ids :
        /\ pending[i] # None /\ pending[i].status = "succeeded" => effects[i] > 0
        /\ outboxFile[i] # None /\ outboxFile[i].status = "succeeded" => effects[i] > 0

\* While it flushes, the poller has a pending result at hand.
Flushing ==
    phase \in {"report", "delete", "fenced"} => todo # {} /\ todo \subseteq Listed(pending)

\* While it executes, and only then, it has a job; once the call returned,
\* its answer.
Executing ==
    /\ phase \in {"execute", "clear", "put"} <=> current # None
    /\ phase \in {"clear", "put"} => answer # NoAnswer /\ answer.key = current.id

PollTypeOK ==
    /\ jobs \in [Ids -> {"queued", "running"} \cup Finished]
    /\ lease \in [Ids -> Leases \cup {None}]
    /\ phase \in Phases
    /\ todo \subseteq Ids
    /\ then \in {"fetch", "next"}
    /\ batch \subseteq Job
    /\ current \in Job \cup {None}
    /\ crashes \in 0 .. MaxCrashes

AgentInv ==
    /\ OutboxInv
    /\ ContractInv
    /\ PollTypeOK
    /\ Flushing
    /\ Executing
    /\ BoxesReal
    /\ ControlSuccessIsReal

\* The poller reports one of the listed results.
LEMMA ReportsListed ==
    ASSUME AgentInv, phase \in {"report", "delete", "fenced"}
    PROVE  NextToReport \in todo
<1>1. todo \in SUBSET Nat /\ todo # {}
  BY AgentAssumption DEF AgentInv, PollTypeOK, Flushing
<1>2. \E i \in todo : \A j \in todo : i <= j
  BY <1>1, NatMin
<1>. QED
  BY <1>2 DEF NextToReport

\* A lease that is handed out is a lease.
LEMMA FreshLeaseType ==
    ASSUME NEW i \in Queued
    PROVE  FreshLease(i) \in Leases
<1>. DEFINE fresh == Leases \ KnownLeases(i)
<1>1. fresh \in SUBSET Nat /\ fresh # {}
  BY AgentAssumption DEF Queued
<1>2. \E l \in fresh : \A m \in fresh : l <= m
  BY <1>1, NatMin
<1>3. FreshLease(i) \in fresh
  BY <1>2 DEF FreshLease
<1>. QED
  BY <1>3
-----------------------------------------------------------------------------
(* What the steps of the two components do to the invariant's parts.        *)

\* A contract step that leaves the outbox and Control alone.
LEMMA ContractKeeps ==
    ASSUME AgentInv, ContractNext, UNCHANGED <<outboxVars, controlVars>>
    PROVE  OutboxInv' /\ ContractInv' /\ BoxesReal' /\ ControlSuccessIsReal'
<1>1. ContractInv' /\ \A k \in Keys : effects'[k] >= effects[k]
  BY ContractInvStep DEF AgentInv
<1>2. OutboxInv'
  BY OutboxInvStep DEF AgentInv
<1>3. effects \in [Ids -> Nat] /\ effects' \in [Ids -> Nat]
  BY <1>1, AgentAssumption DEF AgentInv, ContractInv, ContractTypeOK
<1>4. \A i \in Ids : effects[i] > 0 => effects'[i] > 0
  BY <1>1, <1>3, AgentAssumption
<1>5. BoxesReal'
  BY <1>4 DEF AgentInv, BoxesReal, outboxVars
<1>6. ControlSuccessIsReal'
  BY <1>4 DEF AgentInv, ControlSuccessIsReal, controlVars
<1>. QED
  BY <1>1, <1>2, <1>5, <1>6

\* A step that leaves both components alone.
LEMMA ComponentsKeep ==
    ASSUME AgentInv, UNCHANGED <<outboxVars, contractVars>>
    PROVE  OutboxInv' /\ ContractInv' /\ BoxesReal'
<1>1. OutboxInv' /\ ContractInv'
  BY OutboxInvStep, ContractInvStep DEF AgentInv
<1>2. BoxesReal'
  BY DEF AgentInv, BoxesReal, outboxVars, contractVars
<1>. QED
  BY <1>1, <1>2

\* An outbox step that adds nothing but real successes.
LEMMA OutboxKeeps ==
    ASSUME AgentInv, OutboxNext, UNCHANGED <<contractVars, jobs>>,
           \A i \in Ids :
               /\ \/ pending'[i] \in {None, pending[i], outboxFile[i]}
                  \/ (pending'[i].status = "succeeded" => effects[i] > 0)
               /\ \/ outboxFile'[i] \in {None, pending[i], outboxFile[i]}
                  \/ (outboxFile'[i].status = "succeeded" => effects[i] > 0)
    PROVE  OutboxInv' /\ ContractInv' /\ BoxesReal' /\ ControlSuccessIsReal'
<1>1. OutboxInv' /\ ContractInv'
  BY OutboxInvStep, ContractInvStep DEF AgentInv
<1>2. BoxesReal'
  BY DEF AgentInv, BoxesReal, contractVars
<1>3. ControlSuccessIsReal'
  BY DEF AgentInv, ControlSuccessIsReal, contractVars
<1>. QED
  BY <1>1, <1>2, <1>3

\* A delete, whatever comes of its write, only takes away.
LEMMA DeleteTakesAway ==
    ASSUME AgentInv, NEW i \in Ids, NEW o \in Outcomes, Delete(i, o)
    PROVE  /\ OutboxNext
           /\ \A j \in Ids : /\ pending'[j] \in {None, pending[j], outboxFile[j]}
                             /\ outboxFile'[j] \in {None, pending[j], outboxFile[j]}
                             /\ j # i => pending'[j] = pending[j]
<1>1. OutboxNext
  BY DEF OutboxNext
<1>2. pending \in [Ids -> PendingResult \cup {None}]
  BY DEF AgentInv, OutboxInv, OutboxTypeOK
<1>. QED
  BY <1>1, <1>2 DEF Delete, persistOutbox, AtomicWrite

\* The poller's variables when a pass ends, and when the flush goes on.
LEMMA EndPassKeeps ==
    ASSUME AgentInv, EndPass, crashes' \in 0 .. MaxCrashes,
           jobs' \in [Ids -> {"queued", "running"} \cup Finished],
           lease' \in [Ids -> Leases \cup {None}]
    PROVE  PollTypeOK' /\ Flushing' /\ Executing'
BY DEF EndPass, PollTypeOK, Flushing, Executing, Phases

LEMMA FlushOnKeeps ==
    ASSUME AgentInv, NEW rest \in SUBSET Ids, NEW next \in {"fetch", "next"},
           FlushOn(rest, next), rest \subseteq Listed(pending'),
           batch' \subseteq Job, current' = None,
           UNCHANGED <<controlVars, crashes>>
    PROVE  PollTypeOK' /\ Flushing' /\ Executing'
BY DEF AgentInv, FlushOn, PollTypeOK, Flushing, Executing, Phases, controlVars, Listed
-----------------------------------------------------------------------------
LEMMA AgentInvInit == Init => AgentInv
<1>. SUFFICES ASSUME Init PROVE AgentInv
  OBVIOUS
<1>1. OutboxInv /\ ContractInv
  BY OutboxInvInit, ContractInvInit DEF Init
<1>2. PollTypeOK /\ Flushing /\ Executing
  BY AgentAssumption DEF Init, PollTypeOK, Flushing, Executing, Phases, Finished
<1>3. BoxesReal /\ ControlSuccessIsReal
  BY DEF Init, OutboxInit, EmptyOutbox, BoxesReal, ControlSuccessIsReal
<1>. QED
  BY <1>1, <1>2, <1>3 DEF AgentInv

LEMMA AgentInvStep == AgentInv /\ [Next]_vars => AgentInv'
<1>. SUFFICES ASSUME AgentInv, [Next]_vars PROVE AgentInv'
  OBVIOUS
<1>0. /\ PollTypeOK /\ Flushing /\ Executing /\ ControlSuccessIsReal
      /\ UNCHANGED controlVars => jobs' = jobs /\ lease' = lease
  BY DEF AgentInv, controlVars
<1>1. CASE Tick
  <2>1. OutboxInv' /\ ContractInv' /\ BoxesReal' /\ ControlSuccessIsReal'
    BY <1>1, ComponentsKeep DEF Tick, AgentInv, ControlSuccessIsReal, controlVars, contractVars
  <2>2. Listed(pending) \in SUBSET Ids /\ Listed(pending) \subseteq Listed(pending')
    BY <1>1 DEF Tick, Listed, outboxVars
  <2>3. PollTypeOK' /\ Flushing' /\ Executing'
    BY <1>0, <1>1, <2>2, FlushOnKeeps DEF Tick, PollTypeOK, Executing
  <2>. QED
    BY <2>1, <2>3 DEF AgentInv
<1>2. CASE ReportAccepted
  <2>. DEFINE i == NextToReport
  <2>1. i \in todo /\ i \in Ids
    BY <1>0, <1>2, ReportsListed DEF ReportAccepted, PollTypeOK
  <2>2. pending[i] \in PendingResult
    BY <1>2, <2>1 DEF ReportAccepted, LeaseHeld, AgentInv, OutboxInv, OutboxTypeOK
  <2>3. jobs' = [jobs EXCEPT ![i] = pending[i].status] /\ lease' = lease
    BY <1>2 DEF ReportAccepted
  <2>4. jobs' \in [Ids -> {"queued", "running"} \cup Finished]
    BY <1>0, <2>2, <2>3 DEF PollTypeOK, PendingResult, Finished
  <2>5. OutboxInv' /\ ContractInv' /\ BoxesReal'
    BY <1>2, ComponentsKeep DEF ReportAccepted
  <2>6. ControlSuccessIsReal'
    <3>1. pending[i].status = "succeeded" => effects[i] > 0
      BY <1>2, <2>1 DEF ReportAccepted, LeaseHeld, AgentInv, BoxesReal
    <3>. QED
      BY <1>0, <1>2, <2>3, <3>1 DEF ReportAccepted, ControlSuccessIsReal, contractVars, PollTypeOK
  <2>7. CASE EndPass
    BY <1>0, <1>2, <2>3, <2>4, <2>5, <2>6, <2>7, EndPassKeeps DEF ReportAccepted, PollTypeOK, AgentInv
  <2>8. CASE phase' = "delete" /\ UNCHANGED <<todo, then, batch, current>>
    <3>1. PollTypeOK' /\ Flushing' /\ Executing'
      BY <1>0, <1>2, <2>3, <2>4, <2>8
      DEF ReportAccepted, PollTypeOK, Flushing, Executing, Phases, outboxVars
    <3>. QED
      BY <2>5, <2>6, <3>1 DEF AgentInv
  <2>. QED
    BY <1>2, <2>7, <2>8 DEF ReportAccepted
<1>3. CASE ReportRejected
  <2>1. OutboxInv' /\ ContractInv' /\ BoxesReal' /\ ControlSuccessIsReal'
    BY <1>3, ComponentsKeep
    DEF ReportRejected, AgentInv, ControlSuccessIsReal, controlVars, contractVars
  <2>2. PollTypeOK' /\ Flushing' /\ Executing'
    BY <1>0, <1>3
    DEF ReportRejected, PollTypeOK, Flushing, Executing, Phases, outboxVars, controlVars
  <2>. QED
    BY <2>1, <2>2 DEF AgentInv
<1>4. CASE ReportFails \/ BatchDone
  <2>1. EndPass /\ UNCHANGED <<outboxVars, contractVars, controlVars, crashes>>
    BY <1>4 DEF ReportFails, BatchDone
  <2>2. OutboxInv' /\ ContractInv' /\ BoxesReal' /\ ControlSuccessIsReal'
    BY <2>1, ComponentsKeep DEF AgentInv, ControlSuccessIsReal, controlVars, contractVars
  <2>3. PollTypeOK' /\ Flushing' /\ Executing'
    BY <1>0, <2>1, EndPassKeeps DEF PollTypeOK
  <2>. QED
    BY <2>2, <2>3 DEF AgentInv
<1>5. ASSUME NEW o \in Faults, DeleteReported(o) \/ DeleteFenced(o)
      PROVE  AgentInv'
  <2>. DEFINE i == NextToReport
  <2>1. i \in todo /\ i \in Ids /\ o \in Outcomes
    BY <1>0, <1>5, ReportsListed, AgentAssumption DEF DeleteReported, DeleteFenced, PollTypeOK
  <2>2. Delete(i, o) /\ UNCHANGED <<contractVars, controlVars, crashes>>
    BY <1>5 DEF DeleteReported, DeleteFenced
  <2>3. /\ OutboxNext
        /\ \A j \in Ids : /\ pending'[j] \in {None, pending[j], outboxFile[j]}
                          /\ outboxFile'[j] \in {None, pending[j], outboxFile[j]}
                          /\ j # i => pending'[j] = pending[j]
    BY <2>1, <2>2, DeleteTakesAway
  <2>4. OutboxInv' /\ ContractInv' /\ BoxesReal' /\ ControlSuccessIsReal'
    BY <1>0, <2>2, <2>3, OutboxKeeps
  <2>5. CASE EndPass
    BY <1>0, <2>2, <2>4, <2>5, EndPassKeeps DEF PollTypeOK, AgentInv
  <2>6. CASE FlushOn(todo \ {i}, then) /\ UNCHANGED <<batch, current>>
    <3>1. todo \subseteq Listed(pending)
      BY <1>0, <1>5 DEF Flushing, DeleteReported, DeleteFenced
    <3>2. todo \ {i} \in SUBSET Ids /\ todo \ {i} \subseteq Listed(pending')
      BY <1>0, <2>3, <3>1 DEF Listed, PollTypeOK
    <3>3. PollTypeOK' /\ Flushing' /\ Executing'
      <4>1. current = None
        BY <1>0, <1>5 DEF Executing, DeleteReported, DeleteFenced
      <4>. QED
        BY <1>0, <2>2, <2>6, <3>2, <4>1, FlushOnKeeps DEF PollTypeOK
    <3>. QED
      BY <2>4, <3>3 DEF AgentInv
  <2>. QED
    BY <1>5, <2>5, <2>6 DEF DeleteReported, DeleteFenced
<1>6. ASSUME NEW S \in SUBSET Queued, FetchJobs(S) \/ FetchFails(S)
      PROVE  AgentInv'
  <2>1. S \subseteq Ids /\ \A i \in S : FreshLease(i) \in Leases
    BY FreshLeaseType DEF Queued
  <2>2. HandOut(S) /\ UNCHANGED <<outboxVars, contractVars, crashes>>
    BY <1>6 DEF FetchJobs, FetchFails
  <2>3. /\ jobs' \in [Ids -> {"queued", "running"} \cup Finished]
        /\ lease' \in [Ids -> Leases \cup {None}]
        /\ \A i \in S : lease'[i] \in Leases
    BY <1>0, <2>1, <2>2 DEF HandOut, PollTypeOK
  <2>4. OutboxInv' /\ ContractInv' /\ BoxesReal'
    BY <2>2, ComponentsKeep
  <2>5. ControlSuccessIsReal'
    BY <1>0, <2>2 DEF HandOut, ControlSuccessIsReal, contractVars
  <2>6. CASE FetchJobs(S)
    <3>1. batch' \subseteq Job
      BY <2>1, <2>3, <2>6 DEF FetchJobs, Job
    <3>2. PollTypeOK' /\ Flushing' /\ Executing'
      BY <1>0, <2>2, <2>3, <2>6, <3>1
      DEF FetchJobs, PollTypeOK, Flushing, Executing, Phases
    <3>. QED
      BY <2>4, <2>5, <3>2 DEF AgentInv
  <2>7. CASE FetchFails(S)
    BY <1>0, <2>2, <2>3, <2>4, <2>5, <2>7, EndPassKeeps DEF FetchFails, PollTypeOK, AgentInv
  <2>. QED
    BY <1>6, <2>6, <2>7
<1>7. CASE TakeJob
  <2>1. OutboxInv' /\ ContractInv' /\ BoxesReal' /\ ControlSuccessIsReal'
    BY <1>7, ComponentsKeep DEF TakeJob, AgentInv, ControlSuccessIsReal, controlVars, contractVars
  <2>2. PICK j \in batch : current' = j /\ batch' = batch \ {j}
    BY <1>7 DEF TakeJob
  <2>3. j # None
    BY <1>0, NoneIsNoJob DEF PollTypeOK
  <2>4. PollTypeOK' /\ Flushing' /\ Executing'
    BY <1>0, <1>7, <2>2, <2>3 DEF TakeJob, PollTypeOK, Flushing, Executing, Phases
  <2>. QED
    BY <2>1, <2>4 DEF AgentInv
<1>8. CASE ExecuteContext
  <2>. DEFINE k == current.id
  <2>1. current \in Job /\ current # None /\ k \in Keys
    BY <1>0, <1>8, AgentAssumption DEF ExecuteContext, Executing, PollTypeOK, Job
  <2>2. /\ ContractNext
        /\ UNCHANGED <<outboxVars, todo, then, batch, current, controlVars, crashes>>
    BY <1>8, <2>1 DEF ExecuteContext, ContractNext, ServeNext
  <2>3. OutboxInv' /\ ContractInv' /\ BoxesReal' /\ ControlSuccessIsReal'
    BY <2>2, ContractKeeps
  <2>4. \/ phase' = "execute"
        \/ phase' \in {"clear", "put"} /\ \E st \in {"succeeded", "failed"} :
                                             answer' = [key |-> k, status |-> st]
    <3>1. CASE Accept(k) /\ UNCHANGED phase
      BY <1>8, <3>1 DEF ExecuteContext
    <3>2. CASE Start(k) /\ UNCHANGED phase
      BY <1>8, <3>2 DEF ExecuteContext
    <3>3. CASE Replay(k) /\ AfterCall(TRUE)
      BY <3>3 DEF Replay, AfterCall, Answer
    <3>4. CASE Refuse(k) /\ AfterCall(FALSE)
      BY <3>4 DEF Refuse, AfterCall, Answer
    <3>5. CASE Settle(k) /\ AfterCall(answer'.status = "succeeded")
      BY <3>5 DEF Settle, AfterCall, Answer
    <3>6. CASE TimeOut(k) /\ AfterCall(FALSE)
      BY <3>6 DEF TimeOut, AfterCall, Answer
    <3>7. CASE Abandon(k) /\ AfterCall(FALSE)
      BY <3>7 DEF Abandon, AfterCall, Answer
    <3>. QED
      BY <1>8, <3>1, <3>2, <3>3, <3>4, <3>5, <3>6, <3>7 DEF ExecuteContext
  <2>5. PollTypeOK' /\ Flushing'
    BY <1>0, <2>2, <2>4 DEF PollTypeOK, Flushing, Phases
  <2>6. Executing'
    BY <2>1, <2>2, <2>4, ContractAssumption DEF Executing
  <2>. QED
    BY <2>3, <2>5, <2>6 DEF AgentInv
<1>9. ASSUME NEW o \in Faults, ClearOutbox(o)
      PROVE  AgentInv'
  <2>1. o \in Outcomes /\ ResetOutbox(o)
    BY <1>9, AgentAssumption DEF ClearOutbox
  <2>2. OutboxNext
    BY <2>1 DEF OutboxNext
  <2>3. \A i \in Ids : /\ pending'[i] \in {None, pending[i], outboxFile[i]}
                      /\ outboxFile'[i] \in {None, pending[i], outboxFile[i]}
    BY <2>1 DEF ResetOutbox, persistOutbox, AtomicWrite, EmptyOutbox
  <2>4. OutboxInv' /\ ContractInv' /\ BoxesReal' /\ ControlSuccessIsReal'
    BY <1>0, <1>9, <2>2, <2>3, OutboxKeeps DEF ClearOutbox
  <2>5. PollTypeOK' /\ Flushing' /\ Executing'
    BY <1>0, <1>9 DEF ClearOutbox, PollTypeOK, Flushing, Executing, Phases, contractVars
  <2>. QED
    BY <2>4, <2>5 DEF AgentInv
<1>10. ASSUME NEW o \in Faults, PutResult(o)
       PROVE  AgentInv'
  <2>. DEFINE i == current.id
              r == PendingOf(answer.status)
  <2>1. /\ current \in Job /\ i \in Ids /\ i \in Keys
        /\ answer # NoAnswer /\ answer.key = i
    BY <1>0, <1>10, AgentAssumption DEF PutResult, Executing, PollTypeOK, Job
  <2>2. answer.status \in {"succeeded", "failed"} /\ (answer.status = "succeeded" => effects[i] > 0)
    BY <2>1 DEF AgentInv, ContractInv, ContractTypeOK, ContractSuccessIsReal
  <2>3. r \in PendingResult /\ r.status = answer.status
    BY <2>1, <2>2 DEF Job, PendingResult, PendingOf
  <2>4. Put(i, r, o) /\ UNCHANGED <<contractVars, controlVars, crashes>> /\ o \in Outcomes
    BY <1>10, AgentAssumption DEF PutResult
  <2>5. OutboxNext
    BY <2>1, <2>3, <2>4 DEF OutboxNext
  <2>6. \A j \in Ids :
          /\ \/ pending'[j] \in {None, pending[j], outboxFile[j]}
             \/ (pending'[j].status = "succeeded" => effects[j] > 0)
          /\ \/ outboxFile'[j] \in {None, pending[j], outboxFile[j]}
             \/ (outboxFile'[j].status = "succeeded" => effects[j] > 0)
    <3>1. pending \in [Ids -> PendingResult \cup {None}]
      BY DEF AgentInv, OutboxInv, OutboxTypeOK
    <3>. QED
      BY <2>1, <2>2, <2>3, <2>4, <3>1 DEF Put, persistOutbox, AtomicWrite
  <2>7. OutboxInv' /\ ContractInv' /\ BoxesReal' /\ ControlSuccessIsReal'
    BY <1>0, <2>4, <2>5, <2>6, OutboxKeeps
  <2>8. CASE EndPass
    BY <1>0, <2>4, <2>7, <2>8, EndPassKeeps DEF PollTypeOK, AgentInv
  <2>9. CASE FlushOn(Listed(pending'), "next") /\ current' = None /\ UNCHANGED batch
    <3>1. Listed(pending') \in SUBSET Ids
      BY DEF Listed
    <3>2. PollTypeOK' /\ Flushing' /\ Executing'
      BY <1>0, <2>4, <2>9, <3>1, FlushOnKeeps DEF PollTypeOK
    <3>. QED
      BY <2>7, <3>2 DEF AgentInv
  <2>. QED
    BY <1>10, <2>8, <2>9 DEF PutResult
<1>11. CASE ProvisionerStep
  <2>1. ContractNext /\ UNCHANGED <<outboxVars, pollVars, controlVars, crashes>> /\ answer' = answer
    BY <1>11 DEF ProvisionerStep, ContractNext, WorkNext, Succeed, Fail, Wipe, Depart
  <2>2. OutboxInv' /\ ContractInv' /\ BoxesReal' /\ ControlSuccessIsReal'
    BY <2>1, ContractKeeps
  <2>3. PollTypeOK' /\ Flushing' /\ Executing'
    BY <1>0, <2>1 DEF PollTypeOK, Flushing, Executing, pollVars, controlVars, outboxVars
  <2>. QED
    BY <2>2, <2>3 DEF AgentInv
<1>12. ASSUME NEW i \in Ids, LeaseExpires(i)
       PROVE  AgentInv'
  <2>1. OutboxInv' /\ ContractInv' /\ BoxesReal'
    BY <1>12, ComponentsKeep DEF LeaseExpires
  <2>2. ControlSuccessIsReal'
    BY <1>0, <1>12 DEF LeaseExpires, ControlSuccessIsReal, contractVars, PollTypeOK
  <2>3. PollTypeOK' /\ Flushing' /\ Executing'
    BY <1>0, <1>12
    DEF LeaseExpires, PollTypeOK, Flushing, Executing, pollVars, contractVars, outboxVars
  <2>. QED
    BY <2>1, <2>2, <2>3 DEF AgentInv
<1>13. CASE Shutdown
  <2>1. /\ ContractNext /\ answer' = answer
        /\ UNCHANGED <<outboxVars, pollVars, controlVars, crashes>>
    BY <1>13 DEF Shutdown, ContractNext, Stop
  <2>2. OutboxInv' /\ ContractInv' /\ BoxesReal' /\ ControlSuccessIsReal'
    BY <2>1, ContractKeeps
  <2>3. PollTypeOK' /\ Flushing' /\ Executing'
    BY <1>0, <2>1 DEF PollTypeOK, Flushing, Executing, pollVars, controlVars, outboxVars
  <2>. QED
    BY <2>2, <2>3 DEF AgentInv
<1>14. CASE ProcessRestart
  <2>1. ContractNext /\ OutboxNext
    BY <1>14 DEF ProcessRestart, ContractNext, OutboxNext
  <2>2. OutboxInv' /\ ContractInv'
    BY <2>1, OutboxInvStep, ContractInvStep DEF AgentInv
  <2>3. BoxesReal' /\ ControlSuccessIsReal'
    BY <1>0, <1>14 DEF ProcessRestart, OpenOutbox, Crash, AgentInv, BoxesReal,
                       ControlSuccessIsReal, controlVars
  <2>4. crashes' \in 0 .. MaxCrashes
    BY <1>0, <1>14, AgentAssumption DEF ProcessRestart, PollTypeOK
  <2>5. PollTypeOK' /\ Flushing' /\ Executing'
    BY <1>0, <1>14, <2>4, EndPassKeeps DEF ProcessRestart, PollTypeOK
  <2>. QED
    BY <2>2, <2>3, <2>5 DEF AgentInv
<1>16. CASE RestartRefused
  <2>1. ContractNext /\ OutboxNext
    BY <1>16 DEF RestartRefused, ContractNext, OutboxNext
  <2>2. OutboxInv' /\ ContractInv'
    BY <2>1, OutboxInvStep, ContractInvStep DEF AgentInv
  <2>3. BoxesReal' /\ ControlSuccessIsReal'
    BY <1>0, <1>16 DEF RestartRefused, OpenOutbox, Crash, AgentInv, BoxesReal,
                       ControlSuccessIsReal, controlVars
  <2>4. crashes' \in 0 .. MaxCrashes
    BY <1>0, <1>16, AgentAssumption DEF RestartRefused, PollTypeOK
  <2>5. PollTypeOK' /\ Flushing' /\ Executing'
    BY <1>0, <1>16, <2>4
    DEF RestartRefused, PollTypeOK, Flushing, Executing, Phases, controlVars
  <2>. QED
    BY <2>2, <2>3, <2>5 DEF AgentInv
<1>15. CASE UNCHANGED vars
  <2>1. UNCHANGED <<outboxVars, contractVars, pollVars, controlVars, crashes>>
    BY <1>15 DEF vars
  <2>2. OutboxInv' /\ ContractInv' /\ BoxesReal'
    BY <2>1, ComponentsKeep
  <2>3. PollTypeOK' /\ Flushing' /\ Executing' /\ ControlSuccessIsReal'
    BY <1>0, <2>1 DEF PollTypeOK, Flushing, Executing, ControlSuccessIsReal, pollVars,
                      controlVars, outboxVars, contractVars
  <2>. QED
    BY <2>2, <2>3 DEF AgentInv
<1>. QED
  BY <1>1, <1>2, <1>3, <1>4, <1>5, <1>6, <1>7, <1>8, <1>9, <1>10, <1>11, <1>12,
     <1>13, <1>14, <1>15, <1>16
  DEF Next, PollStep

\* The types of the poll loop's, the outbox's, the executor's and Control's
\* state; NextToReport and FreshLease always have something to choose from.
THEOREM AgentTypes == Spec => []TypeOK
<1>1. AgentInv => TypeOK
  BY DEF AgentInv, OutboxInv, ContractInv, PollTypeOK, TypeOK
<1>. QED
  BY <1>1, AgentInvInit, AgentInvStep, PTL DEF Spec

\* What Control shows as succeeded was done on the host: no timeout, replay,
\* redelivery, lost answer, failing write, reset or restart turns a failure
\* into a success on its way through executor, outbox and report.
THEOREM ControlSuccess == Spec => []ControlSuccessIsReal
<1>. QED
  BY AgentInvInit, AgentInvStep, PTL DEF Spec, AgentInv
-----------------------------------------------------------------------------
(* What Control still waits for.  A result is awaited while its lease is    *)
(* the one Control gave out last.  One pass of the poller gets rid of every *)
(* awaited result before it fetches, a job it works on has none, and a      *)
(* result that was once passed over is never awaited again, for Control     *)
(* gives out a new lease with every delivery.                               *)

\* LeaseHeld, for the map in memory or the one in the file.
Awaited(box, i) == jobs[i] = "running" /\ box[i] # None /\ box[i].lease = lease[i]

\* The poller has fetched the job and not yet put its result.
AtWork(i) == (current # None /\ current.id = i) \/ \E b \in batch : b.id = i

\* From the fetch to the put nothing in the outbox is awaited; during a flush
\* only what is still to be reported is.
Drained ==
    /\ phase \in {"fetch", "next", "execute", "clear", "put"} =>
           \A i \in Ids : ~Awaited(pending, i)
    /\ phase \in {"report", "delete", "fenced"} =>
           \A i \in Ids \ todo : ~Awaited(pending, i)
    /\ phase \in {"delete", "fenced"} => ~Awaited(pending, NextToReport)

\* A restart finds an awaited result in the file, although a write that
\* reported an error may have left memory and file different.
AwaitedOnFile == \A i \in Ids : Awaited(pending, i) => outboxFile[i] = pending[i]

\* One answer to FetchJobs names a job once.
OncePerBatch ==
    /\ \A b, c \in batch : b.id = c.id => b = c
    /\ current # None => \A b \in batch : b.id # current.id

\* A job with an awaited result, or a finished one, is not worked on.
ReportedNotAtWork ==
    \A i \in Ids :
        Awaited(pending, i) \/ Awaited(outboxFile, i) \/ jobs[i] \in Finished => ~AtWork(i)

\* No execution runs for a job whose success is on its way or in Control.
SuccessAtRest ==
    /\ \A i \in Ids : jobs[i] = "succeeded" => alive[i] # "running"
    /\ \A i \in Ids :
           /\ Awaited(pending, i) /\ pending[i].status = "succeeded" => alive[i] # "running"
           /\ Awaited(outboxFile, i) /\ outboxFile[i].status = "succeeded" => alive[i] # "running"
    /\ phase \in {"clear", "put"} /\ answer.status = "succeeded" => alive[answer.key] # "running"
    /\ \A k \in Keys : record[k] = "succeeded" => k \in CachedKeys /\ alive[k] = "no"

HeldInv == AgentInv /\ Drained /\ AwaitedOnFile /\ OncePerBatch /\ ReportedNotAtWork /\ SuccessAtRest

LEMMA HeldInit == Init => HeldInv
<1>. SUFFICES ASSUME Init PROVE HeldInv
  OBVIOUS
<1>1. AgentInv
  BY AgentInvInit
<1>2. \A i \in Ids : jobs[i] = "queued"
  BY DEF Init
<1>3. Drained /\ AwaitedOnFile /\ OncePerBatch /\ ReportedNotAtWork
  BY <1>2 DEF Init, Drained, AwaitedOnFile, OncePerBatch, ReportedNotAtWork, Awaited, AtWork, Finished
<1>4. SuccessAtRest
  BY <1>2 DEF Init, ContractInit, NoRecords, SuccessAtRest, Awaited
<1>. QED
  BY <1>1, <1>3, <1>4 DEF HeldInv

\* Nothing becomes awaited, and no success appears in Control, except by the
\* steps that say so.
LEMMA AwaitedKept ==
    ASSUME UNCHANGED <<outboxVars, controlVars>>
    PROVE  \A i : /\ Awaited(pending, i)' <=> Awaited(pending, i)
                  /\ Awaited(outboxFile, i)' <=> Awaited(outboxFile, i)
BY DEF Awaited, outboxVars, controlVars

\* A lease that is handed out is new to everybody.
LEMMA FreshLeaseNew ==
    ASSUME NEW i \in Queued
    PROVE  FreshLease(i) \notin KnownLeases(i)
<1>. DEFINE fresh == Leases \ KnownLeases(i)
<1>1. fresh \in SUBSET Nat /\ fresh # {}
  BY AgentAssumption DEF Queued
<1>2. \E l \in fresh : \A m \in fresh : l <= m
  BY <1>1, NatMin
<1>3. FreshLease(i) \in fresh
  BY <1>2 DEF FreshLease
<1>. QED
  BY <1>3

\* What a delivery does: the jobs handed out have no awaited result, the
\* others are as before.
LEMMA HandOutEffect ==
    ASSUME AgentInv, NEW S \in SUBSET Queued, HandOut(S), UNCHANGED outboxVars
    PROVE  /\ \A i \in S : ~Awaited(pending, i)' /\ ~Awaited(outboxFile, i)'
           /\ \A i \in Ids \ S : /\ Awaited(pending, i)' <=> Awaited(pending, i)
                                 /\ Awaited(outboxFile, i)' <=> Awaited(outboxFile, i)
           /\ \A i \in S : jobs[i] = "queued" /\ jobs'[i] = "running"
           /\ \A i \in Ids \ S : jobs'[i] = jobs[i]
           /\ UNCHANGED <<pending, outboxFile>>
<1>0. S \subseteq Ids /\ UNCHANGED <<pending, outboxFile>>
  BY DEF Queued, outboxVars
<1>1. /\ \A i \in S : jobs'[i] = "running" /\ lease'[i] = FreshLease(i)
      /\ \A i \in Ids \ S : jobs'[i] = jobs[i] /\ lease'[i] = lease[i]
  BY <1>0 DEF HandOut
<1>2. \A i \in S : jobs[i] = "queued"
  BY DEF Queued
<1>3. ASSUME NEW i \in S
      PROVE  ~Awaited(pending, i)' /\ ~Awaited(outboxFile, i)'
  <2>1. lease'[i] \notin LeaseOf(pending, i) /\ lease'[i] \notin LeaseOf(outboxFile, i)
    BY <1>1, FreshLeaseNew DEF KnownLeases
  <2>. QED
    BY <1>0, <2>1 DEF Awaited, LeaseOf
<1>4. \A i \in Ids \ S : /\ Awaited(pending, i)' <=> Awaited(pending, i)
                         /\ Awaited(outboxFile, i)' <=> Awaited(outboxFile, i)
  BY <1>0, <1>1 DEF Awaited
<1>. QED
  BY <1>0, <1>1, <1>2, <1>3, <1>4

\* The end of a pass leaves the poller with nothing.
LEMMA EndPassHeld ==
    ASSUME EndPass
    PROVE  Drained' /\ OncePerBatch' /\ ReportedNotAtWork' /\ phase' = "idle"
BY DEF EndPass, Drained, OncePerBatch, ReportedNotAtWork, AtWork

\* The executor, the outbox and Control do nothing.
LEMMA OthersHeld ==
    ASSUME HeldInv, UNCHANGED <<outboxVars, controlVars, contractVars>>,
           phase' \in {"clear", "put"} => phase \in {"clear", "put"}
    PROVE  AwaitedOnFile' /\ SuccessAtRest'
<1>1. \A i : /\ Awaited(pending, i)' <=> Awaited(pending, i)
             /\ Awaited(outboxFile, i)' <=> Awaited(outboxFile, i)
  BY AwaitedKept
<1>2. AwaitedOnFile'
  BY <1>1 DEF HeldInv, AwaitedOnFile, outboxVars
<1>3. SuccessAtRest'
  BY <1>1 DEF HeldInv, SuccessAtRest, outboxVars, controlVars, contractVars
<1>. QED
  BY <1>2, <1>3

\* The flush begins with all that is pending, or goes on without one result
\* that is not awaited.
LEMMA FlushOnHeld ==
    ASSUME NEW rest, NEW next \in {"fetch", "next"}, FlushOn(rest, next),
           \A i \in Ids \ rest : ~Awaited(pending, i)'
    PROVE  Drained'
BY DEF FlushOn, Drained

\* Fewer jobs at work.
LEMMA BatchHeld ==
    ASSUME HeldInv, batch' \subseteq batch, current' \in {None, current},
           \A i \in Ids :
              /\ Awaited(pending, i)' \/ Awaited(outboxFile, i)' \/ jobs'[i] \in Finished
              /\ AtWork(i)'
              => Awaited(pending, i) \/ Awaited(outboxFile, i) \/ jobs[i] \in Finished
    PROVE  OncePerBatch' /\ ReportedNotAtWork'
<1>1. \A i : AtWork(i)' => AtWork(i)
  BY DEF AtWork
<1>2. OncePerBatch'
  BY DEF HeldInv, OncePerBatch
<1>3. ReportedNotAtWork'
  BY <1>1 DEF HeldInv, ReportedNotAtWork
<1>. QED
  BY <1>2, <1>3

LEMMA TickHeld == ASSUME HeldInv, Tick PROVE HeldInv'
<1>1. /\ FlushOn(Listed(pending), "fetch")
      /\ UNCHANGED <<outboxVars, controlVars, contractVars, batch, current>>
  BY DEF Tick
<1>2. AgentInv'
  BY AgentInvStep DEF HeldInv, Next, PollStep
<1>3. \A i : /\ Awaited(pending, i)' <=> Awaited(pending, i)
             /\ Awaited(outboxFile, i)' <=> Awaited(outboxFile, i)
  BY <1>1, AwaitedKept
<1>4. Drained'
  <2>1. \A i \in Ids \ Listed(pending) : ~Awaited(pending, i)'
    BY <1>3 DEF Listed, Awaited
  <2>. QED
    BY <1>1, <2>1, FlushOnHeld
<1>5. AwaitedOnFile' /\ SuccessAtRest'
  BY <1>1, OthersHeld DEF FlushOn
<1>6. OncePerBatch' /\ ReportedNotAtWork'
  BY <1>1, <1>3, BatchHeld DEF controlVars
<1>. QED
  BY <1>2, <1>4, <1>5, <1>6 DEF HeldInv

LEMMA ReportAcceptedHeld == ASSUME HeldInv, ReportAccepted PROVE HeldInv'
<1>. DEFINE i == NextToReport
<1>1. i \in todo /\ i \in Ids /\ Awaited(pending, i)
  BY ReportsListed DEF HeldInv, AgentInv, PollTypeOK, ReportAccepted, LeaseHeld, Awaited
<1>2. pending[i] \in PendingResult
  BY <1>1 DEF Awaited, HeldInv, AgentInv, OutboxInv, OutboxTypeOK
<1>3. /\ jobs' = [jobs EXCEPT ![i] = pending[i].status]
      /\ UNCHANGED <<lease, pending, outboxFile, alive, record, answer>>
      /\ UNCHANGED <<outboxVars, contractVars>>
  BY DEF ReportAccepted, outboxVars, contractVars
<1>4. pending[i].status \in Finished
  BY <1>2 DEF PendingResult, Finished
<1>5. jobs'[i] = pending[i].status /\ \A j \in Ids \ {i} : jobs'[j] = jobs[j]
  BY <1>1, <1>3 DEF HeldInv, AgentInv, PollTypeOK
<1>6. \A j \in Ids : /\ Awaited(pending, j)' => Awaited(pending, j)
                     /\ Awaited(outboxFile, j)' => Awaited(outboxFile, j)
                     /\ j = i => ~Awaited(pending, j)' /\ ~Awaited(outboxFile, j)'
  BY <1>3, <1>4, <1>5 DEF Awaited, Finished
<1>7. AgentInv'
  BY AgentInvStep DEF HeldInv, Next, PollStep
<1>8. AwaitedOnFile'
  BY <1>3, <1>6 DEF HeldInv, AwaitedOnFile
<1>9. SuccessAtRest'
  <2>1. phase' \notin {"clear", "put"}
    BY DEF ReportAccepted, EndPass
  <2>2. \A j \in Ids : jobs'[j] = "succeeded" => alive[j] # "running"
    BY <1>1, <1>5 DEF HeldInv, SuccessAtRest
  <2>. QED
    BY <1>3, <1>6, <2>1, <2>2 DEF HeldInv, SuccessAtRest
<1>10. CASE EndPass
  BY <1>7, <1>8, <1>9, <1>10, EndPassHeld DEF HeldInv
<1>11. CASE phase' = "delete" /\ UNCHANGED <<todo, then, batch, current>>
  <2>1. NextToReport' = i /\ phase = "report"
    BY <1>11 DEF NextToReport, ReportAccepted
  <2>2. Drained'
    BY <1>1, <1>6, <1>11, <2>1 DEF HeldInv, Drained
  <2>3. OncePerBatch' /\ ReportedNotAtWork'
    <3>1. \A j \in Ids : jobs'[j] \in Finished => jobs[j] \in Finished \/ Awaited(pending, j)
      BY <1>1, <1>5
    <3>. QED
      BY <1>6, <1>11, <3>1, BatchHeld
  <2>. QED
    BY <1>7, <1>8, <1>9, <2>2, <2>3 DEF HeldInv
<1>. QED
  BY <1>10, <1>11 DEF ReportAccepted

LEMMA ReportRejectedHeld == ASSUME HeldInv, ReportRejected PROVE HeldInv'
<1>. DEFINE i == NextToReport
<1>1. i \in todo /\ i \in Ids /\ ~Awaited(pending, i)
  BY ReportsListed DEF HeldInv, AgentInv, PollTypeOK, ReportRejected, LeaseHeld, Awaited
<1>2. /\ UNCHANGED <<outboxVars, controlVars, contractVars, todo, then, batch, current>>
      /\ phase = "report" /\ phase' \in {"fenced", "delete"}
  BY DEF ReportRejected
<1>3. AgentInv'
  BY AgentInvStep DEF HeldInv, Next, PollStep
<1>4. \A j : /\ Awaited(pending, j)' <=> Awaited(pending, j)
             /\ Awaited(outboxFile, j)' <=> Awaited(outboxFile, j)
  BY <1>2, AwaitedKept
<1>5. NextToReport' = i
  BY <1>2 DEF NextToReport
<1>6. Drained'
  BY <1>1, <1>2, <1>4, <1>5 DEF HeldInv, Drained
<1>7. AwaitedOnFile' /\ SuccessAtRest'
  BY <1>2, OthersHeld
<1>8. OncePerBatch' /\ ReportedNotAtWork'
  BY <1>2, <1>4, BatchHeld DEF controlVars
<1>. QED
  BY <1>3, <1>6, <1>7, <1>8 DEF HeldInv

LEMMA PassEndsHeld == ASSUME HeldInv, ReportFails \/ BatchDone PROVE HeldInv'
<1>1. EndPass /\ UNCHANGED <<outboxVars, controlVars, contractVars>>
  BY DEF ReportFails, BatchDone
<1>2. AgentInv'
  BY AgentInvStep DEF HeldInv, Next, PollStep
<1>3. Drained' /\ OncePerBatch' /\ ReportedNotAtWork' /\ phase' = "idle"
  BY <1>1, EndPassHeld
<1>4. AwaitedOnFile' /\ SuccessAtRest'
  BY <1>1, <1>3, OthersHeld
<1>. QED
  BY <1>2, <1>3, <1>4 DEF HeldInv

\* What is deleted is not awaited, and the others are written as they are.
LEMMA DeleteHeld ==
    ASSUME HeldInv, NEW o \in Faults, DeleteReported(o) \/ DeleteFenced(o)
    PROVE  HeldInv' /\ \A j \in Ids : Awaited(pending, j) => pending'[j] = pending[j]
<1>. DEFINE i == NextToReport
<1>1. i \in todo /\ i \in Ids /\ o \in Outcomes /\ ~Awaited(pending, i) /\ phase \in {"delete", "fenced"}
  BY ReportsListed, AgentAssumption
  DEF HeldInv, AgentInv, PollTypeOK, DeleteReported, DeleteFenced, Drained
<1>2. /\ Delete(i, o)
      /\ UNCHANGED <<contractVars, controlVars>>
      /\ UNCHANGED <<jobs, lease, alive, record, answer>>
  BY DEF DeleteReported, DeleteFenced, contractVars, controlVars
<1>3. AgentInv'
  BY AgentInvStep DEF HeldInv, Next, PollStep
<1>4. /\ pending' \in {pending, [pending EXCEPT ![i] = None]}
      /\ outboxFile' \in {outboxFile, [pending EXCEPT ![i] = None]}
  BY <1>2 DEF Delete, persistOutbox, AtomicWrite
<1>5. /\ pending'[i] \in {pending[i], None}
      /\ outboxFile'[i] \in {outboxFile[i], None}
      /\ \A j \in Ids \ {i} : pending'[j] = pending[j] /\ outboxFile'[j] \in {outboxFile[j], pending[j]}
  BY <1>1, <1>4 DEF HeldInv, AgentInv, OutboxInv, OutboxTypeOK
<1>6. \A j \in Ids : /\ Awaited(pending, j)' => Awaited(pending, j) /\ j # i
                     /\ Awaited(outboxFile, j)' =>
                            Awaited(outboxFile, j) \/ (Awaited(pending, j) /\ j # i)
  BY <1>1, <1>2, <1>5 DEF Awaited
<1>7. AwaitedOnFile'
  BY <1>5, <1>6 DEF HeldInv, AwaitedOnFile
<1>8. phase' \notin {"clear", "put"}
  BY DEF DeleteReported, DeleteFenced, FlushOn, EndPass, HeldInv, AgentInv, PollTypeOK
<1>9. SuccessAtRest'
  <2>1. ASSUME NEW j \in Ids, Awaited(outboxFile, j)', outboxFile'[j].status = "succeeded"
        PROVE  alive[j] # "running"
    BY <1>5, <1>6, <2>1 DEF HeldInv, SuccessAtRest, AwaitedOnFile, Awaited
  <2>2. ASSUME NEW j \in Ids, Awaited(pending, j)', pending'[j].status = "succeeded"
        PROVE  alive[j] # "running"
    BY <1>5, <1>6, <2>2 DEF HeldInv, SuccessAtRest
  <2>. QED
    BY <1>2, <1>8, <2>1, <2>2 DEF HeldInv, SuccessAtRest
<1>10. CASE EndPass
  BY <1>1, <1>3, <1>5, <1>7, <1>9, <1>10, EndPassHeld DEF HeldInv
<1>11. CASE FlushOn(todo \ {i}, then) /\ UNCHANGED <<batch, current>>
  <2>1. \A j \in Ids \ (todo \ {i}) : ~Awaited(pending, j)'
    BY <1>1, <1>6 DEF HeldInv, Drained
  <2>2. then \in {"fetch", "next"}
    BY DEF HeldInv, AgentInv, PollTypeOK
  <2>3. Drained'
    BY <1>11, <2>1, <2>2, FlushOnHeld
  <2>4. OncePerBatch' /\ ReportedNotAtWork'
    BY <1>2, <1>6, <1>11, BatchHeld
  <2>. QED
    BY <1>1, <1>3, <1>5, <1>7, <1>9, <2>3, <2>4 DEF HeldInv
<1>. QED
  BY <1>10, <1>11 DEF DeleteReported, DeleteFenced

LEMMA FetchHeld ==
    ASSUME HeldInv, NEW S \in SUBSET Queued, FetchJobs(S) \/ FetchFails(S)
    PROVE  HeldInv' /\ \A i \in Ids : ~Awaited(pending, i)
<1>1. /\ HandOut(S) /\ phase = "fetch"
      /\ UNCHANGED <<outboxVars, contractVars>>
      /\ UNCHANGED <<alive, record, answer>>
  BY DEF FetchJobs, FetchFails, contractVars
<1>2. AgentInv'
  BY AgentInvStep DEF HeldInv, Next, PollStep
<1>3. /\ \A i \in S : ~Awaited(pending, i)' /\ ~Awaited(outboxFile, i)'
      /\ \A i \in Ids \ S : /\ Awaited(pending, i)' <=> Awaited(pending, i)
                            /\ Awaited(outboxFile, i)' <=> Awaited(outboxFile, i)
      /\ \A i \in S : jobs[i] = "queued" /\ jobs'[i] = "running"
      /\ \A i \in Ids \ S : jobs'[i] = jobs[i]
      /\ UNCHANGED <<pending, outboxFile>>
  BY <1>1, HandOutEffect DEF HeldInv
<1>4. \A i \in Ids : ~Awaited(pending, i) /\ ~Awaited(pending, i)'
  BY <1>1, <1>3 DEF HeldInv, Drained
<1>5. phase' \in {"next", "idle"}
  BY DEF FetchJobs, FetchFails, EndPass
<1>6. AwaitedOnFile'
  BY <1>4 DEF AwaitedOnFile
<1>7. SuccessAtRest'
  BY <1>1, <1>3, <1>4, <1>5 DEF HeldInv, SuccessAtRest
<1>8. CASE EndPass
  BY <1>2, <1>4, <1>6, <1>7, <1>8, EndPassHeld DEF HeldInv
<1>9. CASE FetchJobs(S)
  <2>1. /\ batch' = {[id |-> i, lease |-> lease'[i]] : i \in S}
        /\ phase' = "next" /\ current' = current
    BY <1>9 DEF FetchJobs
  <2>2. current = None
    BY <1>1 DEF HeldInv, AgentInv, Executing
  <2>3. Drained'
    BY <1>4, <2>1 DEF Drained
  <2>4. OncePerBatch'
    BY <2>1, <2>2 DEF OncePerBatch
  <2>5. ReportedNotAtWork'
    <3>1. \A i : AtWork(i)' => i \in S
      BY <2>1, <2>2 DEF AtWork
    <3>2. \A i \in S : jobs'[i] \notin Finished
      BY <1>3 DEF Finished
    <3>. QED
      BY <1>3, <3>1, <3>2 DEF ReportedNotAtWork
  <2>. QED
    BY <1>2, <1>4, <1>6, <1>7, <2>3, <2>4, <2>5 DEF HeldInv
<1>. QED
  BY <1>8, <1>9 DEF FetchFails

LEMMA TakeJobHeld == ASSUME HeldInv, TakeJob PROVE HeldInv'
<1>1. PICK j \in batch : current' = j /\ batch' = batch \ {j}
  BY DEF TakeJob
<1>2. /\ UNCHANGED <<outboxVars, controlVars, contractVars>>
      /\ phase = "next" /\ phase' = "execute"
  BY DEF TakeJob
<1>3. AgentInv'
  BY AgentInvStep DEF HeldInv, Next, PollStep
<1>4. \A i : /\ Awaited(pending, i)' <=> Awaited(pending, i)
             /\ Awaited(outboxFile, i)' <=> Awaited(outboxFile, i)
  BY <1>2, AwaitedKept
<1>5. AwaitedOnFile' /\ SuccessAtRest'
  BY <1>2, OthersHeld
<1>6. Drained'
  BY <1>2, <1>4 DEF HeldInv, Drained
<1>7. OncePerBatch'
  BY <1>1 DEF HeldInv, OncePerBatch
<1>8. ReportedNotAtWork'
  <2>1. \A i : AtWork(i)' => AtWork(i)
    BY <1>1 DEF AtWork
  <2>. QED
    BY <1>2, <1>4, <2>1 DEF HeldInv, ReportedNotAtWork, controlVars
<1>. QED
  BY <1>3, <1>5, <1>6, <1>7, <1>8 DEF HeldInv

\* A step of the call: it starts an execution only of the job it works on,
\* and answers with a success only when that execution is over.
LEMMA CallAtRest ==
    ASSUME HeldInv, ExecuteContext, NEW k \in Keys, k = current.id
    PROVE  /\ \A i \in Keys \ {k} : alive'[i] = alive[i]
           /\ phase' \in {"execute", "clear", "put"}
           /\ phase' # "execute" => /\ alive'[k] \in {alive[k], "no"}
                                    /\ answer'.key = k
           /\ phase' # "execute" /\ answer'.status = "succeeded" => alive'[k] = "no"
           /\ \A i \in Keys : record'[i] = "succeeded" => i \in CachedKeys /\ alive'[i] = "no"
           /\ effects' = effects
<1>. DEFINE Goal ==
           /\ \A i \in Keys \ {k} : alive'[i] = alive[i]
           /\ phase' \in {"execute", "clear", "put"}
           /\ phase' # "execute" => /\ alive'[k] \in {alive[k], "no"}
                                    /\ answer'.key = k
           /\ phase' # "execute" /\ answer'.status = "succeeded" => alive'[k] = "no"
           /\ \A i \in Keys : record'[i] = "succeeded" => i \in CachedKeys /\ alive'[i] = "no"
           /\ effects' = effects
<1>1. /\ alive \in [Keys -> {"no", "running", "ok", "err"}]
      /\ record \in [Keys -> Records]
      /\ phase = "execute"
      /\ \A i \in Keys : record[i] = "succeeded" => i \in CachedKeys /\ alive[i] = "no"
  BY DEF HeldInv, AgentInv, ContractInv, ContractTypeOK, SuccessAtRest, ExecuteContext
<1>2. CASE Accept(k) /\ UNCHANGED phase
  BY <1>1, <1>2 DEF Accept
<1>3. CASE Start(k) /\ UNCHANGED phase
  BY <1>1, <1>3 DEF Start, Startable
<1>4. CASE Replay(k) /\ AfterCall(TRUE)
  BY <1>1, <1>4 DEF Replay, Answer, AfterCall
<1>5. CASE Refuse(k) /\ AfterCall(FALSE)
  BY <1>1, <1>5 DEF Refuse, Answer, AfterCall
<1>6. CASE Settle(k) /\ AfterCall(answer'.status = "succeeded")
  BY <1>1, <1>6 DEF Settle, Answer, AfterCall
<1>7. CASE TimeOut(k) /\ AfterCall(FALSE)
  BY <1>1, <1>7 DEF TimeOut, Answer, AfterCall
<1>8. CASE Abandon(k) /\ AfterCall(FALSE)
  BY <1>1, <1>8 DEF Abandon, Answer, AfterCall
<1>. QED
  BY <1>2, <1>3, <1>4, <1>5, <1>6, <1>7, <1>8 DEF ExecuteContext

LEMMA ExecuteHeld == ASSUME HeldInv, ExecuteContext PROVE HeldInv'
<1>. DEFINE k == current.id
<1>1. k \in Keys /\ current # None /\ phase = "execute"
  BY AgentAssumption DEF HeldInv, AgentInv, Executing, PollTypeOK, Job, ExecuteContext
<1>2. UNCHANGED <<outboxVars, controlVars, batch, current, todo>>
      /\ UNCHANGED <<pending, outboxFile, jobs, lease>>
  BY DEF ExecuteContext, outboxVars, controlVars
<1>3. AgentInv'
  BY AgentInvStep DEF HeldInv, Next, PollStep
<1>4. \A i : /\ Awaited(pending, i)' <=> Awaited(pending, i)
             /\ Awaited(outboxFile, i)' <=> Awaited(outboxFile, i)
  BY <1>2, AwaitedKept
<1>5. /\ \A i \in Keys \ {k} : alive'[i] = alive[i]
      /\ phase' \in {"execute", "clear", "put"}
      /\ phase' # "execute" => /\ alive'[k] \in {alive[k], "no"}
                               /\ answer'.key = k
      /\ phase' # "execute" /\ answer'.status = "succeeded" => alive'[k] = "no"
      /\ \A i \in Keys : record'[i] = "succeeded" => i \in CachedKeys /\ alive'[i] = "no"
  BY <1>1, CallAtRest
<1>6. ~Awaited(pending, k) /\ ~Awaited(outboxFile, k) /\ jobs[k] # "succeeded"
  <2>1. AtWork(k)
    BY <1>1 DEF AtWork
  <2>. QED
    BY <1>1, <2>1, AgentAssumption DEF HeldInv, ReportedNotAtWork, Finished
<1>7. Drained'
  BY <1>1, <1>2, <1>4, <1>5 DEF HeldInv, Drained
<1>8. AwaitedOnFile'
  BY <1>2, <1>4 DEF HeldInv, AwaitedOnFile
<1>9. OncePerBatch' /\ ReportedNotAtWork'
  BY <1>2, <1>4, BatchHeld
<1>10. SuccessAtRest'
  <2>1. \A i \in Ids :
            /\ jobs[i] = "succeeded" => alive'[i] # "running"
            /\ Awaited(pending, i) /\ pending[i].status = "succeeded" => alive'[i] # "running"
            /\ Awaited(outboxFile, i) /\ outboxFile[i].status = "succeeded" => alive'[i] # "running"
    BY <1>5, <1>6, AgentAssumption DEF HeldInv, SuccessAtRest
  <2>. QED
    BY <1>2, <1>4, <1>5, <2>1 DEF SuccessAtRest
<1>. QED
  BY <1>3, <1>7, <1>8, <1>9, <1>10 DEF HeldInv

LEMMA ClearHeld ==
    ASSUME HeldInv, NEW o \in Faults, ClearOutbox(o)
    PROVE  HeldInv' /\ \A i \in Ids : ~Awaited(pending, i)
<1>1. /\ UNCHANGED <<jobs, lease, alive, record, answer, batch, current, todo>>
      /\ phase = "clear" /\ phase' = "put"
  BY DEF ClearOutbox, contractVars, controlVars
<1>2. pending' \in {pending, EmptyOutbox} /\ outboxFile' \in {outboxFile, EmptyOutbox}
  BY DEF ClearOutbox, ResetOutbox, persistOutbox, AtomicWrite
<1>3. AgentInv'
  BY AgentInvStep DEF HeldInv, Next, PollStep
<1>4. \A i \in Ids : ~Awaited(pending, i)
  BY <1>1 DEF HeldInv, Drained
<1>5. \A i \in Ids : /\ ~Awaited(pending, i)'
                     /\ Awaited(outboxFile, i)' => Awaited(outboxFile, i) /\ outboxFile'[i] = outboxFile[i]
  BY <1>1, <1>2, <1>4 DEF Awaited, EmptyOutbox
<1>6. Drained' /\ AwaitedOnFile'
  BY <1>1, <1>5 DEF Drained, AwaitedOnFile
<1>7. OncePerBatch' /\ ReportedNotAtWork'
  BY <1>1, <1>5, BatchHeld
<1>8. SuccessAtRest'
  BY <1>1, <1>5 DEF HeldInv, SuccessAtRest
<1>. QED
  BY <1>3, <1>4, <1>6, <1>7, <1>8 DEF HeldInv

LEMMA PutHeld ==
    ASSUME HeldInv, NEW o \in Faults, PutResult(o)
    PROVE  HeldInv' /\ \A i \in Ids : ~Awaited(pending, i)
<1>0. PICK i, r, new : /\ i = current.id
                       /\ r = PendingOf(answer.status)
                       /\ new = [pending EXCEPT ![i] = r]
  OBVIOUS
<1>1. /\ current \in Job /\ current # None /\ i \in Ids /\ i \in Keys
      /\ answer.key = i /\ phase = "put"
  BY <1>0, AgentAssumption DEF HeldInv, AgentInv, Executing, PollTypeOK, Job, PutResult
<1>2. UNCHANGED <<jobs, lease, alive, record, answer>>
  BY DEF PutResult, contractVars, controlVars
<1>3. AgentInv'
  BY AgentInvStep DEF HeldInv, Next, PollStep
<1>4. \A j \in Ids : ~Awaited(pending, j)
  BY <1>1 DEF HeldInv, Drained
<1>5. /\ pending' \in {pending, new} /\ outboxFile' \in {outboxFile, new}
      /\ pending' = new => outboxFile' = new \/ pending' = pending
  BY <1>0 DEF PutResult, Put, persistOutbox, AtomicWrite
<1>6. new[i] = r /\ \A j \in Ids \ {i} : new[j] = pending[j]
  BY <1>0, <1>1 DEF HeldInv, AgentInv, OutboxInv, OutboxTypeOK
<1>7. \A j \in Ids :
          /\ Awaited(pending, j)' => j = i /\ pending' = new /\ outboxFile' = new
          /\ Awaited(outboxFile, j)' =>
                 \/ Awaited(outboxFile, j) /\ outboxFile'[j] = outboxFile[j]
                 \/ j = i /\ outboxFile'[j] = r
  BY <1>2, <1>4, <1>5, <1>6 DEF Awaited
<1>8. AwaitedOnFile'
  BY <1>7 DEF AwaitedOnFile
<1>9. phase' \notin {"clear", "put"}
  BY DEF PutResult, FlushOn, EndPass
<1>10. SuccessAtRest'
  <2>1. answer.status = "succeeded" => alive[i] # "running"
    BY <1>1 DEF HeldInv, SuccessAtRest
  <2>2. \A j \in Ids :
          /\ Awaited(pending, j)' /\ pending'[j].status = "succeeded" => alive[j] # "running"
          /\ Awaited(outboxFile, j)' /\ outboxFile'[j].status = "succeeded" => alive[j] # "running"
    <3>1. r.status = answer.status
      BY <1>0 DEF PendingOf
    <3>. QED
      BY <1>6, <1>7, <2>1, <3>1 DEF HeldInv, SuccessAtRest
  <2>. QED
    BY <1>2, <1>9, <2>2 DEF HeldInv, SuccessAtRest
<1>11. CASE EndPass
  BY <1>3, <1>4, <1>8, <1>10, <1>11, EndPassHeld DEF HeldInv
<1>12. CASE FlushOn(Listed(pending'), "next") /\ current' = None /\ UNCHANGED batch
  <2>1. \A j \in Ids \ Listed(pending') : ~Awaited(pending, j)'
    BY DEF Listed, Awaited
  <2>2. Drained'
    BY <1>12, <2>1, FlushOnHeld
  <2>3. ~AtWork(i)' /\ \A j : AtWork(j)' => AtWork(j)
    BY <1>0, <1>1, <1>12 DEF AtWork, HeldInv, OncePerBatch
  <2>4. OncePerBatch' /\ ReportedNotAtWork'
    BY <1>2, <1>7, <1>12, <2>3, BatchHeld
  <2>. QED
    BY <1>3, <1>4, <1>8, <1>10, <2>2, <2>4 DEF HeldInv
<1>. QED
  BY <1>11, <1>12 DEF PutResult

\* A provisioner that ends is not running any more, and none begins.
LEMMA WorkAtRest ==
    ASSUME HeldInv, WorkNext
    PROVE  /\ \A k \in Keys : /\ alive'[k] = "running" => alive[k] = "running"
                              /\ alive[k] = "no" => alive'[k] = "no"
                              /\ record'[k] = "succeeded" => record[k] = "succeeded"
                              /\ alive[k] # "running" => effects'[k] = effects[k]
           /\ answer' = answer
<1>1. alive \in [Keys -> {"no", "running", "ok", "err"}] /\ effects \in [Keys -> Nat]
  BY DEF HeldInv, AgentInv, ContractInv, ContractTypeOK
<1>2. PICK j \in Keys : Succeed(j) \/ Fail(j) \/ Wipe(j) \/ Depart(j)
  BY DEF WorkNext
<1>3. CASE Succeed(j)
  BY <1>1, <1>3 DEF Succeed
<1>4. CASE Fail(j)
  BY <1>1, <1>4 DEF Fail
<1>5. CASE Wipe(j)
  BY <1>1, <1>5 DEF Wipe, NoRecords
<1>6. CASE Depart(j)
  BY <1>1, <1>6 DEF Depart
<1>. QED
  BY <1>2, <1>3, <1>4, <1>5, <1>6

\* A step of nobody but the executor's provisioners, and SIGTERM.
LEMMA BackgroundHeld == ASSUME HeldInv, ProvisionerStep \/ Shutdown PROVE HeldInv'
<1>1. /\ UNCHANGED <<outboxVars, controlVars, pollVars>>
      /\ UNCHANGED <<pending, outboxFile, jobs, lease, phase, todo, batch, current>>
  BY DEF ProvisionerStep, Shutdown, outboxVars, controlVars, pollVars
<1>2. AgentInv'
  BY AgentInvStep DEF HeldInv, Next
<1>3. /\ \A k \in Keys : /\ alive'[k] = "running" => alive[k] = "running"
                         /\ alive[k] = "no" => alive'[k] = "no"
                         /\ record'[k] = "succeeded" => record[k] = "succeeded"
      /\ answer' = answer
  BY WorkAtRest DEF ProvisionerStep, Shutdown, Stop
<1>4. \A i : /\ Awaited(pending, i)' <=> Awaited(pending, i)
             /\ Awaited(outboxFile, i)' <=> Awaited(outboxFile, i)
  BY <1>1, AwaitedKept
<1>5. Drained'
  <2>1. NextToReport' = NextToReport
    BY <1>1 DEF NextToReport
  <2>. QED
    BY <1>1, <1>4, <2>1 DEF HeldInv, Drained
<1>6. AwaitedOnFile' /\ OncePerBatch' /\ ReportedNotAtWork'
  BY <1>1, <1>4, BatchHeld DEF HeldInv, AwaitedOnFile
<1>7. SuccessAtRest'
  <2>1. phase \in {"clear", "put"} => answer.key \in Keys
    BY AgentAssumption DEF HeldInv, AgentInv, Executing, PollTypeOK, Job
  <2>. QED
    BY <1>1, <1>3, <1>4, <2>1, AgentAssumption DEF HeldInv, SuccessAtRest
<1>. QED
  BY <1>2, <1>5, <1>6, <1>7 DEF HeldInv

LEMMA LeaseExpiresHeld == ASSUME HeldInv, NEW e \in Ids, LeaseExpires(e) PROVE HeldInv'
<1>1. /\ jobs[e] = "running" /\ jobs' = [jobs EXCEPT ![e] = "queued"]
      /\ lease' = [lease EXCEPT ![e] = None]
      /\ UNCHANGED <<pending, outboxFile, alive, record, answer, phase, todo, batch, current>>
  BY DEF LeaseExpires, outboxVars, contractVars, pollVars
<1>2. AgentInv'
  BY AgentInvStep DEF HeldInv, Next
<1>3. /\ jobs'[e] = "queued"
      /\ \A i \in Ids \ {e} : jobs'[i] = jobs[i] /\ lease'[i] = lease[i]
  BY <1>1 DEF HeldInv, AgentInv, PollTypeOK
<1>4. \A i \in Ids : /\ Awaited(pending, i)' => Awaited(pending, i)
                     /\ Awaited(outboxFile, i)' => Awaited(outboxFile, i)
                     /\ jobs'[i] \in Finished => jobs[i] \in Finished
                     /\ jobs'[i] = "succeeded" => jobs[i] = "succeeded"
  BY <1>1, <1>3 DEF Awaited, Finished
<1>5. Drained'
  <2>1. NextToReport' = NextToReport
    BY <1>1 DEF NextToReport
  <2>2. phase \in {"delete", "fenced"} => NextToReport \in Ids
    BY ReportsListed DEF HeldInv, AgentInv, PollTypeOK
  <2>. QED
    BY <1>1, <1>4, <2>1, <2>2 DEF HeldInv, Drained
<1>6. AwaitedOnFile'
  BY <1>1, <1>4 DEF HeldInv, AwaitedOnFile
<1>7. OncePerBatch' /\ ReportedNotAtWork'
  BY <1>1, <1>4, BatchHeld
<1>8. SuccessAtRest'
  BY <1>1, <1>4 DEF HeldInv, SuccessAtRest
<1>. QED
  BY <1>2, <1>5, <1>6, <1>7, <1>8 DEF HeldInv

LEMMA RestartHeld ==
    ASSUME HeldInv, ProcessRestart \/ RestartRefused
    PROVE  HeldInv' /\ \A i \in Ids : Awaited(pending, i) => pending'[i] = pending[i]
<1>1. /\ phase' \in {"idle", "down"} /\ batch' = {} /\ current' = None
      /\ UNCHANGED <<jobs, lease>>
      /\ pending' = outboxFile /\ outboxFile' = outboxFile
      /\ alive' = NobodyAlive /\ record' = record
  BY DEF ProcessRestart, RestartRefused, EndPass, OpenOutbox, Crash, controlVars
<1>2. AgentInv'
  BY AgentInvStep DEF HeldInv, Next
<1>3. Drained' /\ OncePerBatch' /\ ReportedNotAtWork'
  BY <1>1 DEF Drained, OncePerBatch, ReportedNotAtWork, AtWork
<1>4. AwaitedOnFile'
  BY <1>1 DEF AwaitedOnFile
<1>5. SuccessAtRest'
  BY <1>1, <1>3, AgentAssumption DEF HeldInv, SuccessAtRest, NobodyAlive
<1>6. \A i \in Ids : Awaited(pending, i) => pending'[i] = pending[i]
  BY <1>1 DEF HeldInv, AwaitedOnFile
<1>. QED
  BY <1>2, <1>3, <1>4, <1>5, <1>6 DEF HeldInv

LEMMA StutterHeld == ASSUME HeldInv, UNCHANGED vars PROVE HeldInv'
<1>1. /\ UNCHANGED <<outboxVars, controlVars, contractVars>>
      /\ UNCHANGED <<jobs, phase, todo, batch, current>>
  BY DEF vars, pollVars, controlVars
<1>2. AgentInv'
  BY AgentInvStep DEF HeldInv
<1>3. \A i : /\ Awaited(pending, i)' <=> Awaited(pending, i)
             /\ Awaited(outboxFile, i)' <=> Awaited(outboxFile, i)
  BY <1>1, AwaitedKept
<1>4. Drained'
  <2>1. NextToReport' = NextToReport
    BY <1>1 DEF NextToReport
  <2>. QED
    BY <1>1, <1>3, <2>1 DEF HeldInv, Drained
<1>5. AwaitedOnFile' /\ SuccessAtRest'
  BY <1>1, OthersHeld
<1>6. OncePerBatch' /\ ReportedNotAtWork'
  BY <1>1, <1>3, BatchHeld
<1>. QED
  BY <1>2, <1>4, <1>5, <1>6 DEF HeldInv

LEMMA HeldStep == HeldInv /\ [Next]_vars => HeldInv'
<1>. SUFFICES ASSUME HeldInv, [Next]_vars PROVE HeldInv'
  BY Zenon
<1>. QED
  BY TickHeld, ReportAcceptedHeld, ReportRejectedHeld, PassEndsHeld, DeleteHeld, FetchHeld,
     TakeJobHeld, ExecuteHeld, ClearHeld, PutHeld, BackgroundHeld, LeaseExpiresHeld,
     RestartHeld, StutterHeld, Zenon
  DEF Next, PollStep

LEMMA HeldInvariant == Spec => []HeldInv
<1>. QED
  BY HeldInit, HeldStep, PTL DEF Spec

\* Deletes and resets meet no awaited result, a put replaces none, a restart
\* reads it back, and no other step touches the outbox.
LEMMA AwaitedStaysPut ==
    ASSUME HeldInv, Next
    PROVE  \A i \in Ids : LeaseHeld(i) => pending'[i] = pending[i]
<1>. SUFFICES ASSUME NEW i \in Ids, LeaseHeld(i) PROVE pending'[i] = pending[i]
  BY Zenon
<1>1. Awaited(pending, i)
  BY DEF LeaseHeld, Awaited
<1>2. CASE \E o \in Faults : DeleteReported(o) \/ DeleteFenced(o)
  BY <1>1, <1>2, DeleteHeld
<1>3. CASE \E o \in Faults : ClearOutbox(o) \/ PutResult(o)
  BY <1>1, <1>3, ClearHeld, PutHeld
<1>4. CASE ProcessRestart \/ RestartRefused
  BY <1>1, <1>4, RestartHeld
<1>5. CASE UNCHANGED outboxVars
  BY <1>5 DEF outboxVars
<1>6. \/ \E o \in Faults : DeleteReported(o) \/ DeleteFenced(o) \/ ClearOutbox(o) \/ PutResult(o)
      \/ ProcessRestart \/ RestartRefused
      \/ UNCHANGED outboxVars
  BY Zenon DEF Next, PollStep, Tick, BatchDone, TakeJob, ReportAccepted, ReportRejected, ReportFails,
               FetchJobs, FetchFails, ExecuteContext, ProvisionerStep, LeaseExpires, Shutdown
<1>. QED
  BY <1>2, <1>3, <1>4, <1>5, <1>6

\* A result Control still waits for stays in the outbox until Control has it:
\* no fenced or failing delete, failed or half-failed write, system.reset or
\* restart drops or replaces it, for every number of jobs and crashes and
\* whether or not Control keeps a lease while its job is worked on.
THEOREM AwaitedKeptInOutbox == Spec => AwaitedResultKept
<1>1. HeldInv /\ [Next]_vars => [\A i \in Ids : LeaseHeld(i) => pending'[i] = pending[i]]_vars
  BY AwaitedStaysPut
<1>. QED
  BY <1>1, HeldInvariant, PTL DEF Spec, AwaitedResultKept

\* pollOnce asks for new jobs only when nothing that Control would take is
\* left in the outbox, whichever of the flush's requests and writes failed.
THEOREM FetchesDrained == Spec => FetchOnlyWhenDrained
<1>1. HeldInv /\ [Next]_vars => [phase = "fetch" /\ phase' = "next" => \A i \in Ids : ~LeaseHeld(i)]_vars
  BY DEF HeldInv, Drained, LeaseHeld, Awaited
<1>. QED
  BY <1>1, HeldInvariant, PTL DEF Spec, FetchOnlyWhenDrained

\* Only a running execution has an effect.
LEMMA EffectsOfRunning ==
    ASSUME HeldInv, Next, NEW i \in Ids, alive[i] # "running"
    PROVE  effects'[i] = effects[i]
<1>0. i \in Keys
  BY AgentAssumption
<1>1. CASE ProvisionerStep
  BY <1>0, <1>1, WorkAtRest DEF ProvisionerStep
<1>2. CASE ExecuteContext
  <2>1. current.id \in Keys
    BY <1>2, AgentAssumption DEF HeldInv, AgentInv, Executing, PollTypeOK, Job, ExecuteContext
  <2>. QED
    BY <1>2, <2>1, CallAtRest
<1>3. CASE Shutdown \/ ProcessRestart \/ RestartRefused
  BY <1>3 DEF Shutdown, Stop, ProcessRestart, RestartRefused, Crash
<1>4. CASE UNCHANGED contractVars
  BY <1>4 DEF contractVars
<1>5. \/ ProvisionerStep \/ ExecuteContext \/ Shutdown \/ ProcessRestart \/ RestartRefused
      \/ UNCHANGED contractVars
  BY Zenon DEF Next, PollStep, Tick, BatchDone, TakeJob, ReportAccepted, ReportRejected, ReportFails,
               FetchJobs, FetchFails, DeleteReported, DeleteFenced, ClearOutbox, PutResult, LeaseExpires
<1>. QED
  BY <1>1, <1>2, <1>3, <1>4, <1>5

\* A job that Control shows as succeeded changes the host no more: no late
\* execution, replay after system.reset wiped the records, redelivery or
\* restart runs it again.
THEOREM SucceededNeverReruns == Spec => NoEffectAfterSuccess
<1>1. HeldInv /\ [Next]_vars =>
          [\A i \in Ids : jobs[i] = "succeeded" => effects'[i] = effects[i]]_vars
  BY EffectsOfRunning DEF HeldInv, SuccessAtRest
<1>. QED
  BY <1>1, HeldInvariant, PTL DEF Spec, NoEffectAfterSuccess
=============================================================================
