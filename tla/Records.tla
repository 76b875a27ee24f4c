------------------------------ MODULE Records -------------------------------
(***************************************************************************)
(* What the system keeps about leads, parcels and suggestions beside the   *)
(* order itself, together.  The loyalty messages of Fulfilment respect the *)
(* opt-out that LeadMemory records; the improvement queue stands alone.    *)
(***************************************************************************)
EXTENDS Fulfilment, ImprovementQueue

vars == <<memoryVars, fulfilmentVars, queueVars>>

Init == MemoryInit /\ FulfilmentInit /\ QueueInit

Next ==
    \/ MemoryNext /\ UNCHANGED <<fulfilmentVars, queueVars>>
    \/ /\ FulfilmentNext
       /\ UNCHANGED <<enabled, keyed, optedOut, lead, summaryTurns, chat, task, inbound,
                      resummarised, unpurged, queueVars>>
    \/ QueueNext /\ UNCHANGED <<memoryVars, fulfilmentVars>>

Spec == Init /\ [][Next]_vars

-----------------------------------------------------------------------------
\* Every table, counter, call and request is in a state its code knows.
RecordsTypeOK == MemoryTypeOK /\ FulfilmentTypeOK /\ QueueTypeOK
=============================================================================
