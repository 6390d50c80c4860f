---------------------------- MODULE DFSLeakage ----------------------------
(***************************************************************************)
(* DFS_LRY under a weak source: does leakage take a system out of          *)
(* retention?  A harvest may leave every variable of the manager as it is, *)
(* so harvested, which each harvest flips, makes it a step that fairness   *)
(* can speak of.                                                           *)
(***************************************************************************)
EXTENDS DFSPower

VARIABLE harvested

HarvestTick == HarvestEvent /\ harvested' = 1 - harvested

LeakNext ==
    \/ HarvestTick
    \/ /\ MgmtInit \/ SMInit \/ ConsumeMsg \/ BroadcastBegin \/ Deliver \/ BroadcastEnd
       /\ UNCHANGED harvested

LeakSpec ==
    /\ Init /\ harvested = 0
    /\ [][LeakNext]_<<vars, harvested>>
    /\ Fairness /\ WF_<<vars, harvested>>(HarvestTick)

\* While the profile lasts, a system in retention leaves it: what it harvests
\* is either less than the leakage, and then it runs down to off, or enough to
\* restart it.
LeakageEndsRetention ==
    <>[]event_harvest => (state = STATE_RETENTION ~> state # STATE_RETENTION)
=============================================================================
