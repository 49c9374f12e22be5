------------------------------ MODULE MCStores -------------------------------
(* The files of one process: commands.json with one key more than it may   *)
(* hold results, outbox.json with one command more than it may hold        *)
(* pending, and the audit log.  The poll loop that executes commands also  *)
(* saves, audits and reports them: while Record runs nothing else is       *)
(* written.  A restart opens the two maps.                                 *)
EXTENDS ResultStore, Outbox, AuditLog, TLC

Init == StoreInit /\ OutboxInit /\ AuditInit

Next ==
    \/ At("idle") /\ StoreNext /\ UNCHANGED <<outboxVars, auditVars>>
    \/ At("idle") /\ OutboxNext /\ UNCHANGED <<storeVars, auditVars>>
    \/ AuditNext /\ UNCHANGED <<storeVars, outboxVars>>
    \/ At("idle") /\ OpenStore /\ OpenOutbox /\ UNCHANGED auditVars

Spec == Init /\ [][Next]_<<storeVars, outboxVars, auditVars>>

Symmetry == Permutations(Keys) \cup Permutations(Ids)
=============================================================================
