---------------------------- MODULE SM_Retention ----------------------------
(***************************************************************************)
(* The energy state machine with a retention state (engy/SM_Retention.cc): *)
(* between running and off the system keeps its contents but does not run. *)
(***************************************************************************)
EXTENDS Integers, Sequences

CONSTANTS thres_ret_to_off, thres_1_to_ret, thres_ret_to_1

\* sim_exp_retention.py: 1.1 V, 2.1 V and 4.5 V.
RetThresAssumption ==
    /\ thres_ret_to_off \in Nat /\ thres_1_to_ret \in Nat /\ thres_ret_to_1 \in Nat
    /\ thres_ret_to_off < thres_1_to_ret /\ thres_1_to_ret < thres_ret_to_1

State == {"STATE_POWER_OFF", "STATE_POWER_RETENTION", "STATE_POWER_ON"}
MsgType == {"POWER_OFF", "POWER_RET", "POWER_ON"}

StartState == "STATE_POWER_OFF"
energy_consume_lower_bound == thres_ret_to_off

InitState == "STATE_POWER_OFF"
InitMsg == "POWER_OFF"

\* Mutants of PowerFailure: only retention leads to off; the present state is
\* not looked at.
OffFromRetentionOnly(state, energy) ==
    state = "STATE_POWER_RETENTION" /\ energy <= thres_ret_to_off
OffAgain(state, energy) == energy <= thres_ret_to_off

PowerFailure(state, energy) ==
    state # "STATE_POWER_OFF" /\ energy <= thres_ret_to_off

EnterRetention(state, energy) ==
    state = "STATE_POWER_ON" /\ energy <= thres_1_to_ret

PowerRecovery(state, energy) ==
    state # "STATE_POWER_ON" /\ energy >= thres_ret_to_1

update(state, energy) ==
    IF PowerFailure(state, energy)
    THEN [state |-> "STATE_POWER_OFF", msgs |-> <<"POWER_OFF">>]
    ELSE IF EnterRetention(state, energy)
    THEN [state |-> "STATE_POWER_RETENTION", msgs |-> <<"POWER_RET">>]
    ELSE IF PowerRecovery(state, energy)
    THEN [state |-> "STATE_POWER_ON", msgs |-> <<"POWER_ON">>]
    ELSE [state |-> state, msgs |-> <<>>]

\* Only DFS_LRY sets DFS_LRY_poweron_dirty_patch.
DirtyPatch(state) == FALSE
=============================================================================
