------------------------------- MODULE DVFSSM -------------------------------
(***************************************************************************)
(* The voltage and frequency scaling machine (engy/DVFS.cc): off and three *)
(* levels, any of which may follow any other.  At an energy equal to a     *)
(* threshold it stays where it is.                                         *)
(***************************************************************************)
EXTENDS Integers, Sequences

CONSTANTS thres_off_low, thres_low_mid, thres_mid_high

DVFSThresAssumption ==
    /\ thres_off_low \in Nat /\ thres_low_mid \in Nat /\ thres_mid_high \in Nat
    /\ thres_off_low < thres_low_mid /\ thres_low_mid < thres_mid_high

State == {"STATE_INIT", "STATE_OFF", "STATE_LVL_LOW", "STATE_LVL_MIDDLE",
          "STATE_LVL_HIGH"}
MsgType == {"POWEROFF", "DVFS_LOW", "DVFS_MIDDLE", "DVFS_HIGH"}

StartState == "STATE_INIT"
energy_consume_lower_bound == 0

InitState == "STATE_OFF"
InitMsg == "POWEROFF"

\* Mutant of GoHigh: only the middle level may be left for it.
HighFromMiddleOnly(state, energy) ==
    state = "STATE_LVL_MIDDLE" /\ energy > thres_mid_high

GoHigh(state, energy) == state # "STATE_LVL_HIGH" /\ energy > thres_mid_high

update(state, energy) ==
    IF state = "STATE_INIT"
    THEN [state |-> "STATE_OFF", msgs |-> <<>>]
    ELSE IF state # "STATE_OFF" /\ energy < thres_off_low
    THEN [state |-> "STATE_OFF", msgs |-> <<"POWEROFF">>]
    ELSE IF state # "STATE_LVL_LOW" /\ energy > thres_off_low /\ energy < thres_low_mid
    THEN [state |-> "STATE_LVL_LOW", msgs |-> <<"DVFS_LOW">>]
    ELSE IF state # "STATE_LVL_MIDDLE" /\ energy > thres_low_mid /\ energy < thres_mid_high
    THEN [state |-> "STATE_LVL_MIDDLE", msgs |-> <<"DVFS_MIDDLE">>]
    ELSE IF GoHigh(state, energy)
    THEN [state |-> "STATE_LVL_HIGH", msgs |-> <<"DVFS_HIGH">>]
    ELSE [state |-> state, msgs |-> <<>>]

DirtyPatch(state) == FALSE
=============================================================================
