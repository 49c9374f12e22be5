------------------------------ MODULE Capacity -------------------------------
(***************************************************************************)
(* internal/capacity/manager.go: what the host has promised to its sites,  *)
(* which site has a mutating command under way (its fence), and how many   *)
(* expensive operations run.  Every method runs under Manager.mu and is    *)
(* one action here, but for AcquireOperation and the release it returns:   *)
(* those touch the channel and the counter `inUse` in two steps.           *)
(***************************************************************************)
EXTENDS Integers, FiniteSets, FiniteSetsExt

CONSTANTS
    Sites,          \* site ids
    NoReservation,  \* a site without an entry in the reservations map
    Dims,           \* the resource dimensions (cpu, memory, workers, pids)
    Limit,          \* Config.Limit
    Kinds,          \* operation kinds with a pool
    Concurrency     \* Config.OperationConcurrency

Resources == [Dims -> Nat]

\* validate(Config): limits and pools are positive.
ASSUME CapacityAssumption ==
    /\ Limit \in [Dims -> Nat \ {0}]
    /\ Concurrency \in [Kinds -> Nat \ {0}]
    /\ NoReservation \notin Resources
    /\ IsFiniteSet(Sites)

VARIABLES
    reservations,   \* Manager.reservations
    generations,    \* Manager.generations, 0 when absent
    siteFences,     \* Manager.siteFences, 0 when absent
    degraded,       \* Manager.degraded
    slots,          \* len(Manager.operations[kind])
    inUse           \* Manager.inUse

siteVars == <<reservations, generations, siteFences, degraded>>
poolVars == <<slots, inUse>>
capacityVars == <<reservations, generations, siteFences, degraded, slots, inUse>>

\* SiteAdmission; `previous` is NoReservation when Existed is false.
SiteAdmission ==
    [site: Sites, generation: Nat, previous: Resources \cup {NoReservation}]

CapacityTypeOK ==
    /\ reservations \in [Sites -> Resources \cup {NoReservation}]
    /\ generations \in [Sites -> Nat]
    /\ siteFences \in [Sites -> Nat]
    /\ degraded \in BOOLEAN
    /\ slots \in [Kinds -> Nat]
    /\ inUse \in [Kinds -> Int]

\* capacity.New without existing reservations, as the executor calls it.
FreshReservations == [s \in Sites |-> NoReservation]
ZeroPerSite == [s \in Sites |-> 0]
ZeroPerKind == [k \in Kinds |-> 0]

CapacityInit ==
    /\ reservations = FreshReservations
    /\ generations = ZeroPerSite
    /\ siteFences = ZeroPerSite
    /\ degraded = FALSE
    /\ slots = ZeroPerKind
    /\ inUse = ZeroPerKind
-----------------------------------------------------------------------------
totalLocked(rsv) ==
    [d \in Dims |-> MapThenSumSet(LAMBDA s : rsv[s][d],
                                  {s \in Sites : rsv[s] # NoReservation})]

fits(a, b) == \A d \in Dims : a[d] <= b[d]

Fitting(rsv) == fits(totalLocked(rsv), Limit)

\* reserveLocked accepts: the total with r in place of the site's old
\* reservation stays within the limit.
Reservable(s, r) == Fitting([reservations EXCEPT ![s] = r])

\* Clears the flag when the reservations fit again.
DegradedAfter(rsv) == IF Fitting(rsv) THEN FALSE ELSE degraded

Unfenced(s) == siteFences[s] = 0

\* The generation the next admission of the site gets, and its fence.
NextGeneration(s) == generations[s] + 1

Fence(s) ==
    /\ generations' = [generations EXCEPT ![s] = NextGeneration(s)]
    /\ siteFences' = [siteFences EXCEPT ![s] = NextGeneration(s)]

Unfence(s) == siteFences' = [siteFences EXCEPT ![s] = 0]

\* Create and update of a plan: reserve first, then fence.
BeginSite(s, r) ==
    /\ Unfenced(s)
    /\ Reservable(s, r)
    /\ reservations' = [reservations EXCEPT ![s] = r]
    /\ degraded' = FALSE
    /\ Fence(s)

\* Mutant: BeginCommand without the conflict check.
BeginCommandUnchecked(s) ==
    /\ Fence(s)
    /\ UNCHANGED <<reservations, degraded>>

\* Any other mutating command: fence only.
BeginCommand(s) ==
    /\ Unfenced(s)
    /\ Fence(s)
    /\ UNCHANGED <<reservations, degraded>>

\* The admission a Begin hands out, in the state before it.
AdmissionFor(s) ==
    [site |-> s, generation |-> NextGeneration(s), previous |-> reservations[s]]

FinishCommand(a) ==
    /\ IF siteFences[a.site] = a.generation
       THEN Unfence(a.site) ELSE UNCHANGED siteFences
    /\ UNCHANGED <<reservations, generations, degraded>>

\* Mutant: FinishSite keeps the reservation of a failed command.
FinishSiteKeeps(a, success) ==
    IF generations[a.site] # a.generation
    THEN UNCHANGED siteVars
    ELSE Unfence(a.site) /\ UNCHANGED <<reservations, generations, degraded>>

FinishSite(a, success) ==
    IF generations[a.site] # a.generation
    THEN UNCHANGED siteVars
    ELSE LET after == IF success THEN reservations
                      ELSE [reservations EXCEPT ![a.site] = a.previous]
         IN  /\ Unfence(a.site)
             /\ reservations' = after
             /\ degraded' = DegradedAfter(after)
             /\ UNCHANGED generations

\* A deleted site gives its reservation back.  The fence that the delete's
\* own admission set stays where it is.
ReleaseSite(s) ==
    LET after == [reservations EXCEPT ![s] = NoReservation]
    IN  /\ reservations' = after
        /\ generations' = [generations EXCEPT ![s] = NextGeneration(s)]
        /\ degraded' = DegradedAfter(after)
        /\ UNCHANGED siteFences
-----------------------------------------------------------------------------
\* A kind without a pool is never held up.
Pooled(kind) == kind \in Kinds

SlotFree(kind) == Pooled(kind) => slots[kind] < Concurrency[kind]

Bump(count, kind, by) ==
    IF Pooled(kind) THEN [count EXCEPT ![kind] = @ + by] ELSE count
=============================================================================
