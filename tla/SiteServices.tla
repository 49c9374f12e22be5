---------------------------- MODULE SiteServices -----------------------------
(***************************************************************************)
(* The database and the access manager of one site, behind the executor's  *)
(* fence: both read the whole entry of sites.json, change the host and     *)
(* save the whole entry.                                                   *)
(***************************************************************************)
EXTENDS Databases, Access

serviceVars == <<recordVars, job, countVars, serverVars, accessVars>>

ServicesTypeOK == RecordTypeOK /\ DatabaseTypeOK /\ AccessTypeOK

\* A site that site.create has just recorded.
NewState == [databases |-> <<>>, users |-> <<>>, grants |-> {}, logins |-> {}]

ServicesInit ==
    /\ state = NewState /\ stateFile = NewState
    /\ job = None
    /\ ops = 0 /\ faults = 0 /\ parted = {}
    /\ DatabaseInit /\ AccessInit

ServicesNext ==
    \/ DatabaseNext /\ UNCHANGED accessVars
    \/ AccessNext /\ UNCHANGED serverVars
    \/ Restart /\ RestartLoses /\ UNCHANGED accessVars

ServicesSpec == ServicesInit /\ [][ServicesNext]_serviceVars
=============================================================================
