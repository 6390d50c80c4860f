---------------------------- MODULE TwoThresSM ----------------------------
(***************************************************************************)
(* The two-threshold machine (engy/two_thres.cc).  The manager updates it  *)
(* once before its init(): it then believes, silently, that the system is  *)
(* on, and init() announces that it is off.                                *)
(***************************************************************************)
EXTENDS Integers, Sequences

CONSTANTS thres_low, thres_high

TwoThresAssumption ==
    thres_low \in Nat /\ thres_high \in Nat /\ thres_low <= thres_high

State == {"STATE_INIT", "STATE_POWEROFF", "STATE_POWERON"}
MsgType == {"POWEROFF", "POWERON"}

StartState == "STATE_INIT"
energy_consume_lower_bound == 0   \* of BaseEnergySM

InitState == "STATE_POWEROFF"
InitMsg == "POWEROFF"

\* Mutant of update: the first one is announced.
FirstAnnounced(state, energy) ==
    IF state = "STATE_INIT"
    THEN [state |-> "STATE_POWERON", msgs |-> <<"POWERON">>]
    ELSE IF state = "STATE_POWERON" /\ energy < thres_low
    THEN [state |-> "STATE_POWEROFF", msgs |-> <<"POWEROFF">>]
    ELSE IF state = "STATE_POWEROFF" /\ energy > thres_high
    THEN [state |-> "STATE_POWERON", msgs |-> <<"POWERON">>]
    ELSE [state |-> state, msgs |-> <<>>]

update(state, energy) ==
    IF state = "STATE_INIT"
    THEN [state |-> "STATE_POWERON", msgs |-> <<>>]
    ELSE IF state = "STATE_POWERON" /\ energy < thres_low
    THEN [state |-> "STATE_POWEROFF", msgs |-> <<"POWEROFF">>]
    ELSE IF state = "STATE_POWEROFF" /\ energy > thres_high
    THEN [state |-> "STATE_POWERON", msgs |-> <<"POWERON">>]
    ELSE [state |-> state, msgs |-> <<>>]

DirtyPatch(state) == FALSE
=============================================================================
